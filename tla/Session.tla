------------------------------ MODULE Session ------------------------------
(***************************************************************************)
(* A whole session: the connection of module Connection as the dispatcher  *)
(* spawns it, the application of main.rs (handle_connection) and a client, *)
(* over a network that loses, delays, duplicates and reorders.             *)
(*                                                                         *)
(* The network is modelled by what it may do.  Whatever one side has sent  *)
(* may reach the other at any later time and any number of times; what a   *)
(* step sends now may also be heard at once, or never.  Fairness is        *)
(* assumed only of what is being sent, so whatever is lost has to be sent  *)
(* again by the code under study (or by the client, whose SYN and data     *)
(* are repeated until they are acknowledged).                              *)
(*                                                                         *)
(* The client is external: it accepts data in order only, acknowledges     *)
(* every data segment it hears, keeps its window open and sends its FIN    *)
(* when it has the whole answer.                                           *)
(***************************************************************************)
EXTENDS Connection, Sequences

CONSTANTS
    PeerIss,             \* the client's initial sequence number
    Requests,            \* what the client may send
    AnswerLen            \* length of what build_http_response returns

\* A request of `total` bytes: the method word and its blank end at byte
\* `word` (past the end if there is none), the headers at byte `head`.  The
\* client cuts it into the segments `cuts`.
Request == [word : Nat, head : Nat, total : Nat,
            cuts : SUBSET [off : Nat, len : Nat \ {0}]]

ASSUME SessionAssumption ==
    /\ PeerIss \in SeqNum
    /\ AnswerLen \in 1 .. SEND_BUF_SIZE
    /\ Requests \subseteq Request
    /\ \A r \in Requests :
          /\ r.total \in 1 .. SEND_BUF_SIZE
          /\ \A c \in r.cuts : c.len <= RECV_BUF_SIZE /\ c.off + c.len <= r.total
          /\ \A i \in 0 .. (r.total - 1) : \E c \in r.cuts : c.off = i

VARIABLES request,
          app,           \* handle_connection and its channels
          taken,         \* bytes received in order that the task has to forward
          cl             \* the client

sessionVars == <<vars, request, app, taken, cl>>

SessionInit ==
    /\ Init /\ state = "Listen"
    /\ request \in Requests
    /\ app = [data_rx |-> <<>>, got |-> 0, answer |-> "none", len |-> 0, send_tx |-> <<>>]
    /\ taken = 0
    /\ cl = [open |-> FALSE, una |-> PeerIss, nxt |-> 0, owe |-> FALSE]
-----------------------------------------------------------------------------
(* The application.  Chunks are lengths.                                   *)

is_http(got) == got >= request.word

headers_complete(got) == got >= request.head

\* A chunk read from data_rx.
take(a) ==
    [data_rx |-> Tail(a.data_rx), got |-> a.got + Head(a.data_rx),
     answer |-> a.answer, len |-> a.len, send_tx |-> a.send_tx]

Answer(a, answer, len) ==
    [data_rx |-> a.data_rx, got |-> a.got,
     answer |-> answer, len |-> len, send_tx |-> Append(a.send_tx, len)]

\* Every chunk answered.
Bug_handle_chunk(a) ==
    LET b == take(a) IN
    IF is_http(b.got)
    THEN IF headers_complete(b.got) THEN Answer(b, "http", AnswerLen) ELSE b
    ELSE Answer(b, "echo", b.got)

\* An iteration of handle_connection, which answers once: with a response when
\* the headers are complete, or by an echo of what did not start as a request.
handle_chunk(a) ==
    LET b == take(a) IN
    CASE b.answer # "none" -> b
      [] b.answer = "none" /\ is_http(b.got) /\ headers_complete(b.got) ->
             Answer(b, "http", AnswerLen)
      [] b.answer = "none" /\ ~ is_http(b.got) -> Answer(b, "echo", b.got)
      [] OTHER -> b

HandleConnection ==
    /\ app.data_rx # <<>>
    /\ app' = handle_chunk(app)
    /\ UNCHANGED <<vars, request, taken, cl>>

\* forward_received_data, once the answer to the segment is on its way: what
\* the segment brought in order goes to data_rx.
Forward ==
    /\ pc = "flush" /\ taken > 0
    /\ app' = [app EXCEPT !.data_rx = Append(@, taken)]
    /\ taken' = 0
    /\ UNCHANGED <<vars, request, cl>>
-----------------------------------------------------------------------------
(* The client.                                                             *)

first == wrapping_add(PeerIss, 1)

whole == app.answer # "none" /\ cl.open
         /\ wrapping_sub(cl.nxt, wrapping_add(snd.iss, 1)) = app.len

\* The client hears segment m.
hear(c, m) ==
    IF Has(m, "SYN")
    THEN [c EXCEPT !.open = TRUE, !.una = IF c.open THEN @ ELSE first,
                   !.nxt = IF c.open THEN @ ELSE wrapping_add(m.seq, 1), !.owe = TRUE]
    ELSE [c EXCEPT !.una = IF seq_lt(c.una, m.ack_num) THEN m.ack_num ELSE @,
                   !.nxt = IF m.len > 0 /\ m.seq = c.nxt THEN end_of(m) ELSE @,
                   !.owe = @ \/ m.len > 0]

\* Of what the server sends in this step the client hears one segment, or none.
Hear(c) == cl' = c \/ \E m \in out' : cl' = hear(c, m)

ToServer(flags, off, ack, len) ==
    [flags |-> flags, seq |-> wrapping_add(first, off), ack_num |-> ack,
     window |-> MAX_WINDOW, len |-> len]

Syn == [flags |-> {"SYN"}, seq |-> PeerIss, ack_num |-> 0, window |-> MAX_WINDOW, len |-> 0]

\* The acknowledgement numbers the client has sent so far.
AcksSent ==
    {wrapping_add(snd.iss, 1 + i) : i \in 0 .. wrapping_sub(cl.nxt, wrapping_add(snd.iss, 1))}
-----------------------------------------------------------------------------
(* The steps.  Arrive(seg, c) is the arrival of seg while the client is in *)
(* state c, with whatever it hears of the answer.                          *)

Arrive(seg, c) ==
    /\ Inbound(seg)
    /\ taken' = IF state = "Established" THEN wrapping_sub(rb'.nxt, rb.nxt) ELSE 0
    /\ Hear(c)
    /\ UNCHANGED <<request, app>>

SynArrives == Arrive(Syn, cl)

DataArrives(cut, ack) == Arrive(ToServer({"ACK"}, cut.off, ack, cut.len), cl)

\* An acknowledgement sent earlier, late or once more.
AckArrives(ack) == Arrive(ToServer({"ACK"}, request.total, ack, 0), cl)

\* The acknowledgement the client owes for what it has just heard.
OwedAckArrives ==
    cl.owe /\ Arrive(ToServer({"ACK"}, request.total, cl.nxt, 0), [cl EXCEPT !.owe = FALSE])

\* Or it is lost; one that comes while the task is busy waits in the inbox.
OwedAckLost ==
    /\ cl.owe /\ pc = "select"
    /\ cl' = [cl EXCEPT !.owe = FALSE]
    /\ UNCHANGED <<vars, request, app, taken>>

FinArrives == whole /\ Arrive(ToServer({"FIN", "ACK"}, request.total, cl.nxt, 0), cl)

\* The steps of the task that need no input: it flushes what there is to send
\* when it has forwarded what has come.
TaskStep ==
    \/ Forward
    \/ /\ taken = 0
       /\ Flush \/ FlushDone \/ LoopEnd
       /\ Hear(cl)
       /\ UNCHANGED <<request, app, taken>>

TimerFires(E) ==
    /\ RetransmitTick(E)
    /\ Hear(cl)
    /\ UNCHANGED <<request, app, taken>>

TaskWrites ==
    /\ app.send_tx # <<>>
    /\ AppWrite(Head(app.send_tx))
    /\ app' = [app EXCEPT !.send_tx = Tail(@)]
    /\ UNCHANGED <<request, taken, cl>>

\* A byte sent earlier, or the latest acknowledgement, reaches the client late.
LateData(i) ==
    /\ i < wrapping_sub(sb.nxt, wrapping_add(snd.iss, 1))
    /\ cl' = hear(cl, [flags |-> {"ACK"}, seq |-> wrapping_add(snd.iss, 1 + i),
                       ack_num |-> cl.una, len |-> 1])
    /\ UNCHANGED <<vars, request, app, taken>>

LateAck ==
    /\ cl' = hear(cl, build_ack(snd.nxt, rcv.nxt, window(rb)))
    /\ UNCHANGED <<vars, request, app, taken>>

SessionNext ==
    \/ SynArrives
    \/ pc = "select" /\ cl.open /\
          \/ \E cut \in request.cuts, ack \in AcksSent : DataArrives(cut, ack)
          \/ \E ack \in AcksSent : AckArrives(ack)
          \/ OwedAckArrives
          \/ FinArrives
    \/ OwedAckLost
    \/ TaskStep
    \/ \E E \in SUBSET rq : TimerFires(E)
    \/ TaskWrites
    \/ HandleConnection
    \/ cl.open /\ \E i \in 0 .. (SEND_BUF_SIZE - 1) : LateData(i)
    \/ cl.open /\ LateAck

SessionSpec == SessionInit /\ [][SessionNext]_sessionVars

\* What is sent over and over is heard in the end, and so is its answer.
SynHeard == ~ cl.open /\ SynArrives /\ cl'.open

DataRepeated ==
    /\ cl.open
    /\ \E cut \in request.cuts :
          /\ wrapping_add(first, cut.off) = cl.una
          /\ DataArrives(cut, cl.nxt)

DataHeard == DataRepeated /\ cl'.una # cl.una

OldestResent ==
    /\ rq # {}
    /\ LET e == first_unacked(rq, snd.una) IN
       \E E \in SUBSET rq :
          /\ e \in E
          /\ TimerFires(E)
          /\ cl' = hear(cl, data_segment(e.seq, e.len))

\* The task is never stopped between two awaits for good, its timer ticks for
\* ever and its inbox is empty now and then, so that the select!, which prefers
\* the inbox, comes to the other arms.  The network loses a segment that is
\* sent again and again only finitely often, and so the answer to it.
Fairness ==
    /\ WF_sessionVars(TaskStep)
    /\ WF_sessionVars(HandleConnection)
    /\ SF_sessionVars(TaskWrites)
    /\ SF_sessionVars(OldestResent)
    /\ SF_sessionVars(SynHeard)
    /\ SF_sessionVars(DataRepeated)
    /\ SF_sessionVars(DataHeard)
    /\ SF_sessionVars(OwedAckArrives)

FairSession == SessionSpec /\ Fairness
-----------------------------------------------------------------------------
(* Properties.                                                             *)

\* Client and application are in states they can be in.
SessionTypeOK ==
    /\ request \in Requests
    /\ app.got \in 0 .. request.total /\ app.answer \in {"none", "http", "echo"}
    /\ app.len \in 0 .. SEND_BUF_SIZE /\ Len(app.send_tx) <= 1
    /\ cl \in [open : BOOLEAN, una : SeqNum, nxt : SeqNum, owe : BOOLEAN]

\* A client that keeps to the protocol is never sent a RST, whatever the
\* network does to its segments.
NeverRefused == \A m \in out : ~ Has(m, "RST")

\* The bytes of all chunks in a channel.
bytes(chunks) ==
    LET sum[i \in 0 .. Len(chunks)] == IF i = 0 THEN 0 ELSE sum[i - 1] + chunks[i]
    IN  sum[Len(chunks)]

\* The bytes handed to the application, read by it or not.
Forwarded == app.got + bytes(app.data_rx)

\* In ESTABLISHED, what the client knows to be acknowledged, and need not send
\* again, has been handed to the application or is in the hands of the task,
\* which sends the acknowledgement first and forwards the bytes next.  (A FIN is
\* accepted ahead of bytes that are missing and acknowledges them unseen, so
\* nothing of the kind holds in CLOSE_WAIT.)
AckedDelivered ==
    state = "Established" /\ cl.open => wrapping_sub(cl.una, first) <= Forwarded + taken

\* What the client expects next lies within the server's flight: neither side
\* has lost track of the other.
InStep ==
    state = "Established" /\ cl.open => wrapping_sub(cl.nxt, snd.una) <= flight

\* However its first segment is delayed, repeated or overtaken by later ones that
\* overlap it, a request whose first segments all hold the method word is never
\* echoed: no part of the word comes to the application on its own.  (A client
\* that cuts the word in two is echoed: main.rs decides on the first chunk.)
UnsplitIsHttp ==
    (\A c \in request.cuts : c.off = 0 => c.len >= request.word) => app.answer # "echo"

\* The client gets the whole answer.
Answered == <>whole

\* Retransmission ends: whatever is queued is acknowledged in the end.  The
\* client's FIN comes with an acknowledgement of the whole answer; what a FIN
\* leaves unacknowledged is retransmitted for ever, see README.
Quiesces == <>[](rq = {})
=============================================================================
