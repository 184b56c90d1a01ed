----------------------------- MODULE Connection -----------------------------
(***************************************************************************)
(* One TCP connection of magnum-tcp: the state machine of                  *)
(* tcp/connection.rs and the task of tcp/task.rs that owns it.             *)
(*                                                                         *)
(* The task is a loop around a select!.  pc says where it is: at the       *)
(* select, in flush_send_buf (one segment per step, since each is awaited  *)
(* on the outbound channel), at the checks that end an iteration, or gone. *)
(* Every arm of the select is an action, and so is every handler.          *)
(*                                                                         *)
(* Payloads are lengths; the byte with sequence number s has the value s   *)
(* in the receive buffer.  `out` holds the segments the last step handed   *)
(* to the outbound channel.  Times are left out: any set of entries of the *)
(* retransmit queue may be found expired at a tick, and TIME_WAIT may end  *)
(* at any iteration.                                                       *)
(***************************************************************************)
EXTENDS SendBuffer, RecvBuffer

CONSTANTS
    MSS,
    RETRANSMIT_QUEUE_MAX,
    DUP_MAX,             \* u8::MAX, where dup_ack_count saturates
    INITIAL_SSTHRESH,    \* 65535
    Iss,                 \* values of generate_isn
    Arrivals,            \* the segments the network may deliver
    MaxWrite             \* largest chunk the application writes at once

\* A length is at most what a datagram holds, far less than 2^32.
Segment == [flags : SUBSET {"SYN", "ACK", "RST", "FIN"},
            seq : SeqNum, ack_num : SeqNum, window : 0 .. MAX_WINDOW, len : SeqNum]

\* 3 * MSS is a small part of half the u32 range, as 4380 is of 2^31.
ASSUME ConnectionAssumption ==
    /\ MSS \in Nat /\ MSS >= 1 /\ 3 * MSS <= Half
    /\ INITIAL_SSTHRESH \in Nat /\ 2 * MSS <= INITIAL_SSTHRESH /\ INITIAL_SSTHRESH < Modulus
    /\ RETRANSMIT_QUEUE_MAX \in Nat
    /\ DUP_MAX \in Nat /\ DUP_MAX > 3
    /\ MaxWrite \in Nat
    /\ MAX_WINDOW < Modulus

ASSUME InputAssumption == Iss \subseteq SeqNum /\ Arrivals \subseteq Segment

VARIABLES
    state,               \* tcb.state
    snd,                 \* tcb.snd
    rcv,                 \* tcb.rcv without wnd, which nothing reads
    cc,                  \* tcb.cwnd, tcb.ssthresh, tcb.dup_ack_count
    sb,                  \* send_buf
    rb,                  \* recv_buf
    rq,                  \* retransmit_queue: [seq, len] of the segments in it
    close_initiated,
    pc,
    out

sendSide == <<snd, cc, sb, rq>>
recvSide == <<rcv, rb>>
vars     == <<state, snd, rcv, cc, sb, rb, rq, close_initiated, pc, out>>

TcbState == {"Listen", "SynSent", "SynReceived", "Established", "FinWait1", "FinWait2",
             "CloseWait", "Closing", "LastAck", "TimeWait", "Closed"}

\* Tcb::new_for_listen as AsyncDispatch::dispatch spawns it, or
\* Tcb::new_for_connect, whose connect comes before the task.  There is no
\* receive buffer yet; an empty one stands for it, of which current_window
\* says the same.
Init ==
    /\ \/ state = "Listen" /\ pc = "select"
       \/ state = "Closed" /\ pc = "new"
    /\ \E iss \in Iss :
          /\ snd = [una |-> iss, nxt |-> iss, wnd |-> MAX_WINDOW, iss |-> iss]
          /\ sb = send_new(iss)
    /\ rcv = [irs |-> 0, nxt |-> 0]
    /\ rb = recv_new(0)
    /\ cc = [cwnd |-> MSS, ssthresh |-> INITIAL_SSTHRESH, dup |-> 0]
    /\ rq = {}
    /\ close_initiated = FALSE
    /\ out = {}
-----------------------------------------------------------------------------
(* Segments built by the connection.                                       *)

build_syn(iss) ==
    [flags |-> {"SYN"}, seq |-> iss, ack_num |-> 0, window |-> MAX_WINDOW, len |-> 0]

build_syn_ack(iss, rcv_nxt, wnd) ==
    [flags |-> {"SYN", "ACK"}, seq |-> iss, ack_num |-> rcv_nxt, window |-> wnd, len |-> 0]

build_ack(nxt, rcv_nxt, wnd) ==
    [flags |-> {"ACK"}, seq |-> nxt, ack_num |-> rcv_nxt, window |-> wnd, len |-> 0]

build_fin_ack(nxt, rcv_nxt, wnd) ==
    [flags |-> {"FIN", "ACK"}, seq |-> nxt, ack_num |-> rcv_nxt, window |-> wnd, len |-> 0]

build_rst(seq) ==
    [flags |-> {"RST"}, seq |-> seq, ack_num |-> 0, window |-> MAX_WINDOW, len |-> 0]

data_segment(seq, len) ==
    [flags |-> {"ACK"}, seq |-> seq, ack_num |-> rcv.nxt, window |-> window(rb), len |-> len]

end_of(seg) == wrapping_add(seg.seq, seg.len)

payload(seg) == [i \in 1 .. seg.len |-> wrapping_add(seg.seq, i - 1)]
-----------------------------------------------------------------------------
(* The retransmit queue.  The Vec is in the order of transmission, which   *)
(* is the order of the sequence numbers counted from SND.UNA.              *)

\* One entry too few.
Bug_push(q, seq, len) ==
    IF Cardinality(q) + 1 < RETRANSMIT_QUEUE_MAX THEN q \cup {[seq |-> seq, len |-> len]} ELSE q

\* RetransmitQueue::push forgets what comes after RETRANSMIT_QUEUE_MAX entries.
push(q, seq, len) ==
    IF Cardinality(q) < RETRANSMIT_QUEUE_MAX THEN q \cup {[seq |-> seq, len |-> len]} ELSE q

\* A segment acknowledged to its last byte retained.
Bug_not_acked(q, ack) == {e \in q : ~ seq_lt(end_of(e), ack)}

\* The entries acknowledge_and_sample_rtt retains.
not_acked(q, ack) == {e \in q : ~ seq_le(end_of(e), ack)}

first_unacked(q, una) ==
    CHOOSE e \in q : \A f \in q : wrapping_sub(end_of(e), una) <= wrapping_sub(end_of(f), una)
-----------------------------------------------------------------------------
(* Congestion control, RFC 5681.                                           *)

\* RFC 5681 3.1: slow start below the threshold, congestion avoidance above.
growth(c, acked) == IF c.cwnd < c.ssthresh THEN min(acked, MSS) ELSE (MSS * MSS) \div c.cwnd

grow(c, acked) ==
    [cwnd |-> saturating_add(c.cwnd, growth(c, acked)), ssthresh |-> c.ssthresh, dup |-> 0]

half_cwnd(c) == max(c.cwnd \div 2, 2 * MSS)

count_dup(c) == min(c.dup + 1, DUP_MAX)

\* A window inflated without saturating.
Bug_duplicate(c) ==
    LET dup == count_dup(c) IN
    IF dup = 3
    THEN [cwnd |-> half_cwnd(c) + 3 * MSS, ssthresh |-> half_cwnd(c), dup |-> dup]
    ELSE [cwnd |-> IF dup > 3 THEN c.cwnd + MSS ELSE c.cwnd,
          ssthresh |-> c.ssthresh, dup |-> dup]

\* The third duplicate enters fast recovery, each later one inflates the window.
duplicate(c) ==
    LET dup == count_dup(c) IN
    IF dup = 3
    THEN [cwnd |-> half_cwnd(c) + 3 * MSS, ssthresh |-> half_cwnd(c), dup |-> dup]
    ELSE [cwnd |-> IF dup > 3 THEN saturating_add(c.cwnd, MSS) ELSE c.cwnd,
          ssthresh |-> c.ssthresh, dup |-> dup]

\* A threshold without its floor.
Bug_timeout(c) == [cwnd |-> MSS, ssthresh |-> c.cwnd \div 2, dup |-> c.dup]

timeout(c) == [cwnd |-> MSS, ssthresh |-> half_cwnd(c), dup |-> c.dup]
-----------------------------------------------------------------------------
(* The handlers, one per state.  Each says what becomes of the connection  *)
(* and, in out', what it answers.                                          *)

Has(seg, flag) == flag \in seg.flags

\* An acknowledgement of what was never sent accepted.
Bug_Acceptable(seg) == Has(seg, "ACK") /\ seq_lt(snd.una, seg.ack_num)

\* An acknowledgement of everything sent refused.
Bug_Acceptable_below(seg) ==
    Has(seg, "ACK") /\ seq_lt(snd.una, seg.ack_num) /\ seq_lt(seg.ack_num, snd.nxt)

Acceptable(seg) == Has(seg, "ACK") /\ ack_acceptable(snd.una, seg.ack_num, snd.nxt)

\* tcb.snd once an acknowledgement is accepted, with the window it brings.
acked(seg) ==
    [una |-> seg.ack_num, nxt |-> snd.nxt, wnd |-> seg.window, iss |-> snd.iss]

Ignore == out' = {} /\ UNCHANGED <<state, sendSide, recvSide>>

Refuse(seg) ==
    /\ out' = {build_rst(seg.ack_num)}
    /\ UNCHANGED <<state, sendSide, recvSide>>

\* A RST takes the connection to the given state without an answer.
Reset(seg, next) ==
    /\ Has(seg, "RST")
    /\ state' = next
    /\ out' = {}
    /\ UNCHANGED <<sendSide, recvSide>>

\* rcv and the receive buffer start from the peer's SYN.
Synchronize(seg) ==
    /\ rcv' = [irs |-> seg.seq, nxt |-> wrapping_add(seg.seq, 1)]
    /\ rb' = recv_new(seg.seq)

\* SND.NXT counted on from where an earlier SYN left it.
Bug_handle_listen(seg) ==
    /\ state = "Listen"
    /\ \/ ~ Has(seg, "RST") /\ Has(seg, "ACK") /\ Refuse(seg)
       \/ /\ seg.flags \cap {"RST", "ACK", "SYN"} = {"SYN"}
          /\ Synchronize(seg)
          /\ snd' = [snd EXCEPT !.nxt = wrapping_add(@, 1)]
          /\ state' = "SynReceived"
          /\ out' = {build_syn_ack(snd.iss, rcv'.nxt, window(rb'))}
          /\ UNCHANGED <<cc, sb, rq>>

handle_listen(seg) ==
    /\ state = "Listen"
    /\ \/ Has(seg, "RST") /\ Ignore
       \/ ~ Has(seg, "RST") /\ Has(seg, "ACK") /\ Refuse(seg)
       \/ seg.flags \cap {"RST", "ACK", "SYN"} = {} /\ Ignore
       \/ /\ seg.flags \cap {"RST", "ACK", "SYN"} = {"SYN"}
          /\ Synchronize(seg)
          /\ snd' = [snd EXCEPT !.nxt = wrapping_add(snd.iss, 1)]
          /\ state' = "SynReceived"
          /\ out' = {build_syn_ack(snd.iss, rcv'.nxt, window(rb'))}
          /\ UNCHANGED <<cc, sb, rq>>

handle_syn_sent(seg) ==
    /\ state = "SynSent"
    /\ \/ Reset(seg, "Closed")
       \/ /\ {"SYN", "ACK"} \subseteq seg.flags /\ ~ Has(seg, "RST")
          /\ ~ Acceptable(seg)
          /\ Refuse(seg)
       \/ /\ {"SYN", "ACK"} \subseteq seg.flags /\ ~ Has(seg, "RST")
          /\ Acceptable(seg)
          /\ snd' = acked(seg)
          /\ Synchronize(seg)
          /\ state' = "Established"
          /\ out' = {build_ack(snd.nxt, rcv'.nxt, window(rb'))}
          /\ UNCHANGED <<cc, sb, rq>>
       \/ /\ seg.flags \cap {"RST", "ACK", "SYN"} = {"SYN"}      \* simultaneous open
          /\ Synchronize(seg)
          /\ snd' = [snd EXCEPT !.wnd = seg.window]
          /\ state' = "SynReceived"
          /\ out' = {build_syn_ack(snd.iss, rcv'.nxt, window(rb'))}
          /\ UNCHANGED <<cc, sb, rq>>
       \/ seg.flags \cap {"RST", "SYN"} = {} /\ Ignore

\* The segment that makes handle_syn_received repeat its SYN-ACK.
RepeatedSyn(seg) ==
    seg.flags \cap {"RST", "ACK", "SYN"} = {"SYN"} /\ seg.seq = rcv.irs

handle_syn_received(seg) ==
    /\ state = "SynReceived"
    /\ \/ Reset(seg, "Listen")
       \/ /\ RepeatedSyn(seg)
          /\ out' = {build_syn_ack(snd.iss, rcv.nxt, window(rb))}
          /\ UNCHANGED <<state, sendSide, recvSide>>
       \/ ~ RepeatedSyn(seg) /\ seg.flags \cap {"RST", "ACK"} = {} /\ Ignore
       \/ ~ Has(seg, "RST") /\ Has(seg, "ACK") /\ ~ Acceptable(seg) /\ Refuse(seg)
       \/ /\ ~ Has(seg, "RST")
          /\ Acceptable(seg)
          /\ snd' = acked(seg)
          /\ sb' = acknowledge(sb, seg.ack_num)
          /\ state' = "Established"
          /\ out' = {}
          /\ UNCHANGED <<cc, rq, recvSide>>

DuplicateAck(seg) == Has(seg, "ACK") /\ seg.ack_num = snd.una /\ snd.una # snd.nxt

\* The duplicate that triggers the fast retransmit, which is then the only
\* answer: the handler returns before it looks at the payload and the FIN.
FastRetransmit(seg) == DuplicateAck(seg) /\ count_dup(cc) = 3 /\ rq # {}

\* The acknowledgement part of handle_established.
AcceptAck(seg) ==
    \/ /\ Acceptable(seg)
       /\ cc' = grow(cc, wrapping_sub(seg.ack_num, snd.una))
       /\ snd' = acked(seg)
       /\ sb' = acknowledge(sb, seg.ack_num)
       /\ rq' = not_acked(rq, seg.ack_num)
    \/ /\ DuplicateAck(seg)
       /\ cc' = duplicate(cc)
       /\ UNCHANGED <<snd, sb, rq>>
    \/ /\ ~ Acceptable(seg) /\ ~ DuplicateAck(seg)
       /\ UNCHANGED sendSide

\* A segment that was only staged acknowledged.
Bug_AcceptText(seg) ==
    LET filled == insert(rb, seg.seq, payload(seg))
        nxt    == IF seg.len > 0 THEN end_of(seg) ELSE rcv.nxt
    IN  /\ rcv' = [rcv EXCEPT !.nxt = IF Has(seg, "FIN") THEN wrapping_add(end_of(seg), 1) ELSE nxt]
        /\ rb' = recv_read(filled, Len(filled.buf))
        /\ state' = IF Has(seg, "FIN") THEN "CloseWait" ELSE "Established"
        /\ out' = IF Has(seg, "FIN") \/ seg.len > 0
                  THEN {build_ack(snd.nxt, rcv'.nxt, window(filled))} ELSE {}

\* The payload and FIN part, with the forward_received_data that follows it:
\* the acknowledgement advertises the window before the data is forwarded.
AcceptText(seg) ==
    LET filled == insert(rb, seg.seq, payload(seg))
        nxt    == IF Has(seg, "FIN") THEN wrapping_add(end_of(seg), 1)
                  ELSE IF seg.len > 0 THEN filled.nxt ELSE rcv.nxt
    IN  /\ rcv' = [rcv EXCEPT !.nxt = nxt]
        /\ rb' = recv_read(filled, Len(filled.buf))
        /\ state' = IF Has(seg, "FIN") THEN "CloseWait" ELSE "Established"
        /\ out' = IF Has(seg, "FIN") \/ seg.len > 0
                  THEN {build_ack(snd.nxt, nxt, window(filled))} ELSE {}

handle_established(seg) ==
    /\ state = "Established"
    /\ \/ Reset(seg, "Closed")
       \/ /\ ~ Has(seg, "RST") /\ FastRetransmit(seg)
          /\ cc' = duplicate(cc)
          /\ LET e == first_unacked(rq, snd.una) IN out' = {data_segment(e.seq, e.len)}
          /\ UNCHANGED <<state, snd, sb, rq, recvSide>>
       \/ /\ ~ Has(seg, "RST") /\ ~ FastRetransmit(seg)
          /\ AcceptAck(seg)
          /\ AcceptText(seg)

handle_close_wait(seg) ==
    /\ state = "CloseWait"
    /\ Reset(seg, "Closed") \/ (~ Has(seg, "RST") /\ Ignore)

\* The peer's FIN in the closing states: its payload is acknowledged unread.
AcceptFin(seg, next) ==
    /\ Has(seg, "FIN")
    /\ rcv' = [rcv EXCEPT !.nxt = wrapping_add(end_of(seg), 1)]
    /\ state' = next
    /\ out' = {build_ack(snd.nxt, rcv'.nxt, window(rb))}
    /\ UNCHANGED rb

NoFin(seg, next) ==
    /\ ~ Has(seg, "FIN")
    /\ state' = next
    /\ out' = {}
    /\ UNCHANGED recvSide

handle_fin_wait_1(seg) ==
    /\ state = "FinWait1"
    /\ \/ Reset(seg, "Closed")
       \/ /\ ~ Has(seg, "RST") /\ Acceptable(seg)
          /\ snd' = acked(seg)
          /\ sb' = acknowledge(sb, seg.ack_num)
          /\ rq' = not_acked(rq, seg.ack_num)
          /\ UNCHANGED cc
          /\ IF seq_le(snd.nxt, seg.ack_num)
             THEN AcceptFin(seg, "TimeWait") \/ NoFin(seg, "FinWait2")
             ELSE AcceptFin(seg, "Closing") \/ NoFin(seg, "FinWait1")
       \/ /\ ~ Has(seg, "RST") /\ ~ Acceptable(seg)
          /\ AcceptFin(seg, "Closing") \/ NoFin(seg, "FinWait1")
          /\ UNCHANGED sendSide

handle_fin_wait_2(seg) ==
    /\ state = "FinWait2"
    /\ \/ Reset(seg, "Closed")
       \/ /\ ~ Has(seg, "RST")
          /\ AcceptFin(seg, "TimeWait") \/ NoFin(seg, "FinWait2")
          /\ UNCHANGED sendSide

\* handle_closing and handle_last_ack: any acceptable acknowledgement will do.
AckOfFin(seg, from, next) ==
    /\ state = from
    /\ \/ Reset(seg, "Closed")
       \/ /\ ~ Has(seg, "RST") /\ Acceptable(seg)
          /\ snd' = [snd EXCEPT !.una = seg.ack_num]
          /\ state' = next
          /\ out' = {}
          /\ UNCHANGED <<cc, sb, rq, recvSide>>
       \/ ~ Has(seg, "RST") /\ ~ Acceptable(seg) /\ Ignore

handle_closing(seg)  == AckOfFin(seg, "Closing", "TimeWait")
handle_last_ack(seg) == AckOfFin(seg, "LastAck", "Closed")

handle_time_wait(seg) ==
    /\ state = "TimeWait"
    /\ out' = IF Has(seg, "FIN") THEN {build_ack(snd.nxt, rcv.nxt, window(rb))} ELSE {}
    /\ UNCHANGED <<state, sendSide, recvSide>>

process_segment(seg) ==
    \/ handle_listen(seg)     \/ handle_syn_sent(seg)   \/ handle_syn_received(seg)
    \/ handle_established(seg) \/ handle_close_wait(seg) \/ handle_fin_wait_1(seg)
    \/ handle_fin_wait_2(seg) \/ handle_closing(seg)    \/ handle_last_ack(seg)
    \/ handle_time_wait(seg)
-----------------------------------------------------------------------------
(* The task.                                                               *)

Connect ==
    /\ pc = "new"
    /\ state = "Closed"
    /\ snd' = [snd EXCEPT !.nxt = wrapping_add(snd.iss, 1)]
    /\ state' = "SynSent"
    /\ out' = {build_syn(snd.iss)}
    /\ pc' = "select"
    /\ UNCHANGED <<cc, sb, rq, recvSide, close_initiated>>

Inbound(seg) ==
    /\ pc = "select"
    /\ process_segment(seg)
    /\ pc' = "flush"
    /\ UNCHANGED close_initiated

\* inbound_rx.recv() yields None: the dispatcher has dropped the sender.
InboundGone ==
    /\ pc = "select"
    /\ pc' = "exit"
    /\ out' = {}
    /\ UNCHANGED <<state, sendSide, recvSide, close_initiated>>

\* The length of the segment next_segment_to_send would return, 0 for None.
segment_to_send ==
    LET effective_window == min(cc.cwnd, snd.wnd)
        inflight         == wrapping_sub(snd.nxt, snd.una)
    IN  IF inflight >= effective_window THEN 0
        ELSE next_segment_len(sb, min(MSS, effective_window - inflight))

\* SND.NXT of the TCB left behind.
Bug_Flush ==
    /\ pc = "flush"
    /\ LET n == segment_to_send IN
       /\ n > 0
       /\ sb' = advance_nxt(sb, n)
       /\ rq' = push(rq, sb.nxt, n)
       /\ out' = {data_segment(sb.nxt, n)}
    /\ UNCHANGED <<state, snd, cc, recvSide, close_initiated, pc>>

\* An iteration of flush_send_buf, next_segment_to_send included.
Flush ==
    /\ pc = "flush"
    /\ LET n == segment_to_send IN
       /\ n > 0
       /\ sb' = advance_nxt(sb, n)
       /\ rq' = push(rq, sb.nxt, n)
       /\ snd' = [snd EXCEPT !.nxt = sb'.nxt]
       /\ out' = {data_segment(sb.nxt, n)}
    /\ UNCHANGED <<state, cc, recvSide, close_initiated, pc>>

FlushDone ==
    /\ pc = "flush"
    /\ segment_to_send = 0
    /\ pc' = "loop_end"
    /\ out' = {}
    /\ UNCHANGED <<state, sendSide, recvSide, close_initiated>>

\* retransmit_tick: take_retransmits finds the entries E expired.
RetransmitTick(E) ==
    /\ pc = "select"
    /\ E # {}
    /\ cc' = timeout(cc)
    /\ out' = {data_segment(e.seq, e.len) : e \in E}
    /\ pc' = "loop_end"
    /\ UNCHANGED <<state, snd, sb, rq, recvSide, close_initiated>>

\* A probe that leaves the TCB's copy of SND.NXT behind.
Bug_ZwpTick ==
    /\ pc = "select"
    /\ state = "Established"
    /\ snd.wnd = 0
    /\ next_segment_len(sb, 1) = 1
    /\ sb' = advance_nxt(sb, 1)
    /\ out' = {data_segment(sb.nxt, 1)}
    /\ pc' = "loop_end"
    /\ UNCHANGED <<state, snd, cc, rq, recvSide, close_initiated>>

\* zwp_tick: zero_window_probe sends one byte and does not queue it.
ZwpTick ==
    /\ pc = "select"
    /\ state = "Established"
    /\ snd.wnd = 0
    /\ next_segment_len(sb, 1) = 1
    /\ sb' = advance_nxt(sb, 1)
    /\ snd' = [snd EXCEPT !.nxt = sb'.nxt]
    /\ out' = {data_segment(sb.nxt, 1)}
    /\ pc' = "loop_end"
    /\ UNCHANGED <<state, cc, rq, recvSide, close_initiated>>

\* A tick of either timer that finds nothing to send; the end of the loop
\* looks at the TIME_WAIT clock all the same.
IdleTick ==
    /\ pc = "select"
    /\ pc' = "loop_end"
    /\ out' = {}
    /\ UNCHANGED <<state, sendSide, recvSide, close_initiated>>

\* write_data without flush_send_buf.
Bug_AppWrite(k) ==
    /\ pc = "select"
    /\ state \in {"Established", "CloseWait"}
    /\ ~ close_initiated
    /\ sb' = send_write(sb, k)
    /\ pc' = "loop_end"
    /\ out' = {}
    /\ UNCHANGED <<state, snd, cc, rq, recvSide, close_initiated>>

\* app_send_rx: handle_connection writes once the connection has given it data,
\* and never after it has closed.
AppWrite(k) ==
    /\ pc = "select"
    /\ state \in {"Established", "CloseWait"}
    /\ ~ close_initiated
    /\ sb' = send_write(sb, k)
    /\ pc' = "flush"
    /\ out' = {}
    /\ UNCHANGED <<state, snd, cc, rq, recvSide, close_initiated>>

\* close_rx: initiate_close answers in ESTABLISHED and CLOSE_WAIT only.  Any
\* application may close at any time; the one of main.rs does not (see
\* CloseWaitEnds of module Dispatch).
Close ==
    /\ pc = "select"
    /\ ~ close_initiated
    /\ close_initiated' = TRUE
    /\ \/ /\ state \in {"Established", "CloseWait"}
          /\ out' = {build_fin_ack(snd.nxt, rcv.nxt, window(rb))}
          /\ snd' = [snd EXCEPT !.nxt = wrapping_add(@, 1)]
          /\ state' = IF state = "Established" THEN "FinWait1" ELSE "LastAck"
       \/ /\ state \notin {"Established", "CloseWait"}
          /\ out' = {}
          /\ UNCHANGED <<state, snd>>
    /\ pc' = "loop_end"
    /\ UNCHANGED <<cc, sb, rq, recvSide>>

\* tick_time_wait and the check for CLOSED.
LoopEnd ==
    /\ pc = "loop_end"
    /\ \/ state = "TimeWait" /\ state' = "Closed" /\ pc' = "exit"
       \/ state = "Closed" /\ pc' = "exit" /\ UNCHANGED state
       \/ state # "Closed" /\ pc' = "select" /\ UNCHANGED state
    /\ out' = {}
    /\ UNCHANGED <<sendSide, recvSide, close_initiated>>

Next ==
    \/ Connect
    \/ \E seg \in Arrivals : Inbound(seg)
    \/ InboundGone
    \/ Flush
    \/ FlushDone
    \/ \E E \in SUBSET rq : RetransmitTick(E)
    \/ ZwpTick
    \/ IdleTick
    \/ \E k \in 1 .. MaxWrite : AppWrite(k)
    \/ Close
    \/ LoopEnd

Spec == Init /\ [][Next]_vars
-----------------------------------------------------------------------------
(* Properties.                                                             *)

\* The sending half, for which types are proved as well as checked.
SendTypeOK ==
    /\ state \in TcbState
    /\ pc \in {"new", "select", "flush", "loop_end", "exit"}
    /\ close_initiated \in BOOLEAN
    /\ snd \in [una : SeqNum, nxt : SeqNum, wnd : 0 .. MAX_WINDOW, iss : SeqNum]
    /\ sb \in SendBuf
    /\ cc \in [cwnd : 0 .. (Modulus - 1), ssthresh : 0 .. (Modulus - 1), dup : 0 .. DUP_MAX]
    /\ rq \subseteq [seq : SeqNum, len : 1 .. MSS]

RecvTypeOK ==
    /\ rcv \in [irs : SeqNum, nxt : SeqNum]
    /\ rb.nxt \in SeqNum /\ rb.buf = <<>> /\ DOMAIN rb.ooo \subseteq SeqNum
    /\ out \subseteq Segment

\* The variables have the types of the code's fields; in particular no
\* counter leaves its u8, u16 or u32.
TypeOK == SendTypeOK /\ RecvTypeOK

flight == wrapping_sub(snd.nxt, snd.una)

\* The TCB and the send buffer keep SND.UNA and SND.NXT twice.  As long as
\* data can be exchanged the copies agree, and what is in flight is held for
\* retransmission.
SendAligned ==
    state \in {"Established", "CloseWait"} =>
        /\ snd.una = sb.una
        /\ snd.nxt = sb.nxt
        /\ send_inflight(sb) <= sb.len

\* SND.NXT never runs more than the buffer and a FIN ahead of SND.UNA, in any
\* state: every comparison of ack_acceptable is between numbers closer than
\* half the sequence space, so it is never fooled by a wrap.
FlightBounded == flight <= SEND_BUF_SIZE + 1

\* Until TIME_WAIT every entry of the retransmit queue ends within the flight:
\* no segment acknowledged to its last byte is sent again, nor one that was
\* never sent, though a FIN may go out before the data and FIN_WAIT_2, CLOSING
\* and LAST_ACK go on sending it.  handle_closing does not purge the queue, so
\* TIME_WAIT does resend what is acknowledged; a task in CLOSED only exits.
RetransmitInFlight ==
    state \notin {"TimeWait", "Closed"} =>
        \A e \in rq : wrapping_sub(end_of(e), snd.una) \in 1 .. flight

\* Whenever the task waits at its select!, there is nothing the windows would
\* let it send: no path forgets to flush after it wrote data, was granted
\* window or opened the congestion window.
NoIdleWindow == pc = "select" => segment_to_send = 0

\* The congestion window holds a segment and the threshold two, and neither
\* leaves u32: a division by cwnd, and ssthresh + 3 * MSS, cannot panic.
CwndSafe == cc.cwnd \in MSS .. (Modulus - 1) /\ cc.ssthresh \in (2 * MSS) .. (Modulus - 1)

\* Until its SYN is acknowledged, the connection is as Tcb::new_for_listen and
\* SendBuffer::new left it but for the SYN: nothing else is sent, written or
\* queued, also after a RST has taken SYN_RECEIVED back to LISTEN, from where
\* the next SYN starts with the same initial sequence number.
HandshakeClean ==
    /\ state \in {"Listen", "SynSent", "SynReceived"} =>
          snd.una = snd.iss /\ sb = send_new(snd.iss) /\ rq = {}
    /\ state \in {"SynSent", "SynReceived"} => snd.nxt = wrapping_add(snd.iss, 1)

\* In ESTABLISHED the acknowledgement number sent to the peer is exactly what
\* the receive buffer has taken in.
RcvAligned == state = "Established" => rcv.nxt = rb.nxt

\* Every byte in flight is in the retransmit queue and will be sent again if it
\* is lost.  This is no invariant of the code, see CoverageKept.
FlightCovered ==
    state = "Established" =>
        \A i \in 0 .. (flight - 1) : \E e \in rq :
            wrapping_sub(wrapping_add(snd.una, i), e.seq) < e.len

CoverageLost ==
    FlightCovered /\ ~ FlightCovered' =>
        (Flush /\ ~ (Cardinality(rq) < RETRANSMIT_QUEUE_MAX)) \/ ZwpTick

\* A flight that is in the retransmit queue to its last byte loses that cover in
\* two ways only: a segment is sent while the queue is full, or as a zero window
\* probe.  No acknowledgement, partial or repeated, no timeout, fast retransmit
\* or write, and no step of the handshake uncovers a byte.
CoverageKept == [][CoverageLost]_vars
=============================================================================
