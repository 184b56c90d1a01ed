------------------------------ MODULE Dispatch ------------------------------
(***************************************************************************)
(* How a segment reaches a connection and an answer leaves it: the event   *)
(* loop of main.rs, AsyncDispatch of tcp/mod.rs, the connection tasks of   *)
(* tcp/task.rs and the application, handle_connection of main.rs, with the *)
(* bounded channels between them.                                          *)
(*                                                                         *)
(* The event loop routes a segment with try_send and never waits; tasks    *)
(* wait for room in the outbound channel, which only the event loop        *)
(* drains, and for room in the channel to their application; applications  *)
(* wait for room in the channel to their task.  A task is a slot that is   *)
(* used again once its task, its application and its map entry are gone.   *)
(*                                                                         *)
(* The connection inside a task is reduced to its phase: which kinds of    *)
(* segment make it answer, deliver data or end (module Connection has the  *)
(* rest).  "Closing" stands for the states after initiate_close.           *)
(***************************************************************************)
EXTENDS Naturals, Sequences

CONSTANTS Key,            \* four-tuples
          Slot,           \* bound: tasks that exist at the same time
          INBOX, DATA, SEND, OUT,   \* channel capacities: 64, 64, 64, 256
          Arriving,       \* kinds of segment the network brings
          Stray,          \* kinds it brings without a handshake, too
          None

\* A segment with data, or a FIN, carries an acknowledgement as well.
Kind  == {"SYN", "DATA", "FIN", "RST"}
Phase == {"Listen", "SynReceived", "Established", "CloseWait", "Closing", "Closed"}

ASSUME DispatchAssumption ==
    /\ None \notin Slot /\ Arriving \subseteq Kind
    /\ \A cap \in {INBOX, DATA, SEND, OUT} : cap \in Nat /\ cap >= 1

VARIABLES channels,   \* AsyncDispatch::channels: the task of each key, or None
          task,       \* run_connection_task of each slot
          app,        \* handle_connection of each slot
          outbound    \* how many messages the outbound channel holds

dispatchVars == <<channels, task, app, outbound>>

\* inbox: the inbound channel.  todo: the sends the task has still to await in
\* this iteration, "out" to the outbound channel, "data" to the application.
\* data, send, close: how much the three channels to and from the application
\* hold.
Spawned(k) == [key |-> k, alive |-> TRUE, conn |-> "Listen", inbox |-> <<>>, todo |-> <<>>,
               data |-> 0, send |-> 0, close |-> 0, close_initiated |-> FALSE]

\* Of a task that has ended only the data it forwarded is left.
Gone(k) == [Spawned(k) EXCEPT !.alive = FALSE]

NewApp == [pc |-> "recv", responded |-> FALSE]

Free(t) == ~ task[t].alive /\ app[t].pc = "done" /\ \A k \in Key : channels[k] # t

DispatchInit ==
    /\ channels = [k \in Key |-> None]
    /\ \E k \in Key : task = [t \in Slot |-> Gone(k)]
    /\ app = [t \in Slot |-> [NewApp EXCEPT !.pc = "done"]]
    /\ outbound = 0
-----------------------------------------------------------------------------
(* The event loop.                                                         *)

\* A connection of k is past LISTEN.
Answered(k) ==
    \E t \in Slot : task[t].key = k /\ task[t].alive /\ task[t].conn \notin {"Listen", "Closed"}

\* The network brings a segment of kind `kind` for k.  The event loop reads it
\* and dispatches it without an await in between.
Arrives(k, kind) == kind \in Stray \/ Answered(k)

\* A SYN for an unknown connection spawns its task and its application.  The
\* SYN itself is not put in the new inbox.  (Bound: while all slots are in use
\* no such SYN is read.)
Spawn(k, kind, t) ==
    /\ Arrives(k, kind)
    /\ channels[k] = None
    /\ kind = "SYN"
    /\ Free(t)
    /\ task' = [task EXCEPT ![t] = Spawned(k)]
    /\ app' = [app EXCEPT ![t] = NewApp]
    /\ channels' = [channels EXCEPT ![k] = t]
    /\ UNCHANGED outbound

\* Any other segment for an unknown connection is dropped without an answer.
DropUnknown(k, kind) ==
    /\ Arrives(k, kind)
    /\ channels[k] = None
    /\ kind # "SYN"
    /\ UNCHANGED dispatchVars

\* An unbounded channel.
Bug_Accepts(t) == task[t].alive

\* try_send succeeds while the task lives and its inbox has room.
Accepts(t) == task[t].alive /\ Len(task[t].inbox) < INBOX

Deliver(k, kind) ==
    /\ Arrives(k, kind)
    /\ channels[k] # None
    /\ Accepts(channels[k])
    /\ task' = [task EXCEPT ![channels[k]].inbox = Append(@, kind)]
    /\ UNCHANGED <<channels, app, outbound>>

\* A segment that cannot be sent is dropped and the entry kept.
Bug_Keep(k, kind) ==
    /\ Arrives(k, kind)
    /\ channels[k] # None
    /\ ~ Accepts(channels[k])
    /\ UNCHANGED dispatchVars

\* Any try_send error, a full inbox as well as a closed one, removes the entry
\* and with it the only sender of the task's inbox.
Evict(k, kind) ==
    /\ Arrives(k, kind)
    /\ channels[k] # None
    /\ ~ Accepts(channels[k])
    /\ channels' = [channels EXCEPT ![k] = None]
    /\ UNCHANGED <<task, app, outbound>>

dispatch(k, kind) ==
    DropUnknown(k, kind) \/ Deliver(k, kind) \/ Evict(k, kind) \/ \E t \in Slot : Spawn(k, kind, t)

\* The other arm of the event loop: frame_outbound and the write to the device.
Drain ==
    /\ outbound > 0
    /\ outbound' = outbound - 1
    /\ UNCHANGED <<channels, task, app>>
-----------------------------------------------------------------------------
(* The connection tasks.                                                   *)

\* What process_segment and forward_received_data may make of a segment: the
\* next phase and the sends to await.  Whether the numbers in the segment are
\* acceptable and its data new is left open.
Outcome(conn, kind) ==
    CASE conn = "Listen" /\ kind = "SYN"       -> {<<"SynReceived", <<"out">>>>}
      [] conn = "Listen" /\ kind = "RST"       -> {<<"Listen", <<>>>>}
      [] conn = "Listen"                       -> {<<"Listen", <<"out">>>>}
      [] conn = "SynReceived" /\ kind = "SYN"  -> {<<"SynReceived", s>> : s \in {<<"out">>, <<>>}}
      [] conn = "SynReceived" /\ kind = "RST"  -> {<<"Listen", <<>>>>}
      [] conn = "SynReceived"                  -> {<<"Established", <<>>>>, <<"SynReceived", <<"out">>>>}
      [] conn = "Established" /\ kind = "SYN"  -> {<<"Established", <<>>>>}
      [] conn = "Established" /\ kind = "DATA" -> {<<"Established", s>> : s \in {<<"out">>, <<"out", "data">>}}
      [] conn = "Established" /\ kind = "FIN"  -> {<<"Established", <<"out">>>>} \cup
                                                  {<<"CloseWait", s>> : s \in {<<"out">>, <<"out", "data">>}}
      [] conn = "CloseWait" /\ kind # "RST"    -> {<<"CloseWait", <<>>>>}
      [] conn = "Closing" /\ kind # "RST"      -> {"Closing", "Closed"} \X {<<>>, <<"out">>}
      [] OTHER                                 -> {<<"Closed", <<>>>>}

\* What flush_send_buf may have to send after a segment or a write: nothing, or
\* segments of the answer, of which one stands for any number.
Flushed(t) == IF app[t].responded THEN {<<>>, <<"out">>} ELSE {<<>>}

\* The select! is biased: a later arm is taken only if no earlier one is ready.
AtSelect(t) == task[t].alive /\ task[t].todo = <<>> /\ task[t].conn # "Closed"

Orphan(t) == channels[task[t].key] # t

TaskInbound(t) ==
    /\ AtSelect(t)
    /\ task[t].inbox # <<>>
    /\ \E o \in Outcome(task[t].conn, Head(task[t].inbox)), f \in Flushed(t) :
          task' = [task EXCEPT ![t].inbox = Tail(@), ![t].conn = o[1], ![t].todo = o[2] \o f]
    /\ UNCHANGED <<channels, app, outbound>>

\* A timer finds something to send; the application must have written.
TaskTick(t) ==
    /\ AtSelect(t)
    /\ task[t].inbox = <<>> /\ ~ Orphan(t)
    /\ task[t].conn \in {"Established", "CloseWait", "Closing"}
    /\ app[t].responded /\ task[t].send = 0
    /\ task' = [task EXCEPT ![t].todo = <<"out">>]
    /\ UNCHANGED <<channels, app, outbound>>

\* The arms of app_send_rx and, after it, close_rx.
TaskApp(t) ==
    /\ AtSelect(t)
    /\ task[t].inbox = <<>> /\ ~ Orphan(t)
    /\ task[t].send > 0 \/ (task[t].close > 0 /\ ~ task[t].close_initiated)
    /\ \E f \in Flushed(t) :
          task' = IF task[t].send > 0
                  THEN [task EXCEPT ![t].send = @ - 1, ![t].todo = f]
                  ELSE [task EXCEPT ![t].close = @ - 1, ![t].close_initiated = TRUE,
                           ![t].conn = IF @ \in {"Established", "CloseWait"} THEN "Closing" ELSE @,
                           ![t].todo = IF task[t].conn \in {"Established", "CloseWait"}
                                       THEN <<"out">> ELSE <<>>]
    /\ UNCHANGED <<channels, app, outbound>>

\* outbound_tx.send(..).await
TaskSend(t) ==
    /\ task[t].alive /\ task[t].todo # <<>> /\ Head(task[t].todo) = "out"
    /\ outbound < OUT
    /\ outbound' = outbound + 1
    /\ task' = [task EXCEPT ![t].todo = Tail(@)]
    /\ UNCHANGED <<channels, app>>

\* app_data_tx.send(..).await
TaskForward(t) ==
    /\ task[t].alive /\ task[t].todo # <<>> /\ Head(task[t].todo) = "data"
    /\ task[t].data < DATA
    /\ task' = [task EXCEPT ![t].data = @ + 1, ![t].todo = Tail(@)]
    /\ UNCHANGED <<channels, app, outbound>>

\* A task that outlives its inbox while its connection is open.
Bug_TaskExit(t) ==
    /\ task[t].alive /\ task[t].todo = <<>>
    /\ task[t].conn = "Closed" \/ (task[t].inbox = <<>> /\ Orphan(t) /\ task[t].conn = "Listen")
    /\ task' = [task EXCEPT ![t] = [Gone(@.key) EXCEPT !.data = task[t].data]]
    /\ UNCHANGED <<channels, app, outbound>>

\* The task ends when its connection is CLOSED, or when its inbox is empty and
\* nobody can send to it any more.
TaskExit(t) ==
    /\ task[t].alive /\ task[t].todo = <<>>
    /\ task[t].conn = "Closed" \/ (task[t].inbox = <<>> /\ Orphan(t))
    /\ task' = [task EXCEPT ![t] = [Gone(@.key) EXCEPT !.data = task[t].data]]
    /\ UNCHANGED <<channels, app, outbound>>
-----------------------------------------------------------------------------
(* The application.                                                        *)

\* An application that stops reading once it has answered.
Bug_AppRecv(t) ==
    /\ app[t].pc = "recv" /\ ~ app[t].responded
    /\ task[t].data > 0
    /\ task' = [task EXCEPT ![t].data = @ - 1]
    /\ app' = [app EXCEPT ![t].pc = "send"]
    /\ UNCHANGED <<channels, outbound>>

\* handle_connection answers the first complete request (or whatever is not
\* HTTP) and only reads after that.
AppRecv(t) ==
    /\ app[t].pc = "recv"
    /\ task[t].data > 0
    /\ task' = [task EXCEPT ![t].data = @ - 1]
    /\ \/ ~ app[t].responded /\ app' = [app EXCEPT ![t].pc = "send"]
       \/ UNCHANGED app
    /\ UNCHANGED <<channels, outbound>>

\* An application that answers every chunk.
Bug_AppSend(t) ==
    /\ app[t].pc = "send"
    /\ \/ task[t].alive /\ task[t].send < SEND /\ task' = [task EXCEPT ![t].send = @ + 1]
       \/ ~ task[t].alive /\ UNCHANGED task
    /\ app' = [app EXCEPT ![t].pc = "recv"]
    /\ UNCHANGED <<channels, outbound>>

\* send_tx.send(..).await, which fails at once when the task is gone.
AppSend(t) ==
    /\ app[t].pc = "send"
    /\ \/ task[t].alive /\ task[t].send < SEND /\ task' = [task EXCEPT ![t].send = @ + 1]
       \/ ~ task[t].alive /\ UNCHANGED task
    /\ app' = [app EXCEPT ![t].pc = "recv", ![t].responded = TRUE]
    /\ UNCHANGED <<channels, outbound>>

\* data_rx.recv() yields None: the task has dropped the other end.
AppEnd(t) ==
    /\ app[t].pc = "recv"
    /\ task[t].data = 0 /\ ~ task[t].alive
    /\ app' = [app EXCEPT ![t].pc = "close"]
    /\ UNCHANGED <<channels, task, outbound>>

\* close_tx.send(..).await
AppClose(t) ==
    /\ app[t].pc = "close"
    /\ task' = [task EXCEPT ![t].close = IF task[t].alive THEN 1 ELSE @]
    /\ app' = [app EXCEPT ![t] = [NewApp EXCEPT !.pc = "done"]]
    /\ UNCHANGED <<channels, outbound>>

TaskStep(t) ==
    TaskInbound(t) \/ TaskTick(t) \/ TaskApp(t) \/ TaskSend(t) \/ TaskForward(t) \/ TaskExit(t)

AppStep(t) == AppRecv(t) \/ AppSend(t) \/ AppEnd(t) \/ AppClose(t)

DispatchNext ==
    \/ \E k \in Key, kind \in Arriving : dispatch(k, kind)
    \/ Drain
    \/ \E t \in Slot : TaskStep(t) \/ AppStep(t)

DispatchSpec == DispatchInit /\ [][DispatchNext]_dispatchVars

\* The tokio scheduler runs every ready task again and again.  select! in the
\* event loop polls its arms in random order, so the outbound arm is not
\* passed over for ever by a device that always has another frame.
DispatchFairness ==
    /\ SF_dispatchVars(Drain)
    /\ \A t \in Slot : WF_dispatchVars(TaskStep(t)) /\ WF_dispatchVars(AppStep(t)) /\ SF_dispatchVars(TaskSend(t))

DispatchFairSpec == DispatchSpec /\ DispatchFairness

\* The client of each key retransmits its SYN for ever.
RetryingClients == \A k \in Key : SF_dispatchVars(dispatch(k, "SYN"))

RetrySpec == DispatchFairSpec /\ RetryingClients
-----------------------------------------------------------------------------
\* No channel holds more than its capacity, and the map names tasks.
DispatchTypeOK ==
    /\ channels \in [Key -> Slot \cup {None}]
    /\ outbound \in 0 .. OUT
    /\ \A t \in Slot :
          /\ task[t].key \in Key /\ task[t].alive \in BOOLEAN /\ task[t].conn \in Phase
          /\ task[t].data \in 0 .. DATA /\ task[t].send \in 0 .. SEND /\ task[t].close \in 0 .. 1
          /\ Len(task[t].inbox) <= INBOX
          /\ \A i \in DOMAIN task[t].inbox : task[t].inbox[i] \in Kind
          /\ app[t].pc \in {"recv", "send", "close", "done"} /\ app[t].responded \in BOOLEAN

\* No task waits for ever for room in a channel: the event loop never waits
\* for a task, and an application that waits for its task has read what the
\* task waits to deliver.
TasksProgress == \A t \in Slot : task[t].todo # <<>> ~> task[t].todo = <<>>

\* No application waits for ever to hand its answer to its task.
AppsProgress == \A t \in Slot : app[t].pc = "send" ~> app[t].pc # "send"

\* A task that the event loop has dropped from its map, in whatever state,
\* finishes what is in its inbox and ends, and its application with it.
OrphansEnd ==
    \A t \in Slot : task[t].alive /\ Orphan(t) ~> ~ task[t].alive /\ app[t].pc = "done"

\* A client that keeps retransmitting its SYN gets a connection out of LISTEN
\* again and again, although the first SYN of a connection is never handed to
\* its task, a dead connection's entry swallows another, and RSTs and full
\* inboxes take connections away.  It says no more: the connection may be one
\* already evicted, which answers what is in its inbox and ends (with an inbox of
\* one place a second SYN can evict every connection), or an old one in
\* CLOSE_WAIT, which answers no SYN and does not end (CloseWaitEnds).
RetriedSynAnswered == \A k \in Key : []<>Answered(k)

\* A running connection stays routed: a full inbox costs the segment, not the
\* connection.
LiveStaysRouted == \A t \in Slot : task[t].alive => ~ Orphan(t)

\* The application closes its side once the peer has closed.
CloseWaitEnds ==
    LET waiting(t) == task[t].alive /\ task[t].conn = "CloseWait"
    IN  \A t \in Slot : waiting(t) ~> ~ waiting(t)
=============================================================================
