-------------------------- MODULE ConnectionProofs --------------------------
(***************************************************************************)
(* Proofs about Connection, for every buffer size, MSS, window, initial    *)
(* sequence number and set of arriving segments: the sending half first,   *)
(* then what is left to send, the receiving half, and what is queued for   *)
(* retransmission.                                                         *)
(*                                                                         *)
(* SND.UNA and SND.NXT are kept twice, in the TCB and in the send buffer,  *)
(* and the two drift apart when the connection closes: the FIN advances    *)
(* only the TCB's copy, CLOSING and LAST_ACK acknowledge only the TCB's,   *)
(* and a FIN sent before all data makes the buffer skip a byte.  SendInv   *)
(* says exactly how far apart they get in which state.                     *)
(***************************************************************************)
EXTENDS Connection, BufferProofs

\* Nothing but the SYN has been sent.
Fresh ==
    /\ snd.una = snd.iss
    /\ snd.nxt \in {snd.iss, wrapping_add(snd.iss, 1)}
    /\ sb = send_new(snd.iss)
    /\ rq = {}

HandshakeInv ==
    /\ state \in {"Listen", "SynSent", "SynReceived"} => Fresh
    /\ state \in {"SynSent", "SynReceived"} => snd.nxt = wrapping_add(snd.iss, 1)
    /\ pc = "new" => state = "Closed" /\ Fresh

\* SND.UNA of the TCB is the buffer's, SND.NXT the buffer's or, after a FIN,
\* one more.
Together ==
    /\ snd.una = sb.una
    /\ send_inflight(sb) <= sb.len
    /\ snd.nxt \in {sb.nxt, wrapping_add(sb.nxt, 1)}

\* The TCB's SND.UNA has run ahead of the buffer's.
Ahead ==
    /\ send_inflight(sb) <= sb.len
    /\ snd.nxt \in {sb.nxt, wrapping_add(sb.nxt, 1)}
    /\ wrapping_sub(snd.una, sb.una) <= wrapping_sub(snd.nxt, sb.una)

\* The acknowledgement of the FIN has released a byte that was not sent: the
\* buffer's SND.UNA has passed its SND.NXT and it will never send again.
Skipped ==
    /\ snd.una = snd.nxt
    /\ sb.una = snd.nxt
    /\ sb.una = wrapping_add(sb.nxt, 1)

\* The FIN is acknowledged: nothing is queued and nothing will be sent.
Done ==
    /\ rq = {}
    /\ (Ahead /\ sb.len <= send_inflight(sb)) \/ Skipped

CloseInv ==
    /\ state \in {"Established", "CloseWait"} => Together /\ snd.nxt = sb.nxt
    /\ state \in {"FinWait1", "Closing", "LastAck"} => Together
    /\ state = "FinWait2" => Together \/ Done
    /\ state = "TimeWait" => Ahead \/ Skipped
    /\ state = "Closed" => Ahead \/ Skipped \/ Fresh

\* The states in which SND.UNA of TCB and buffer have moved together.
SendStates == {"Established", "CloseWait", "FinWait1", "FinWait2", "Closing", "LastAck"}

QueueInv ==
    state \in SendStates =>
        \A e \in rq : wrapping_sub(end_of(e), sb.una) \in 1 .. send_inflight(sb)

SendInv == SendTypeOK /\ CwndSafe /\ HandshakeInv /\ CloseInv /\ QueueInv
-----------------------------------------------------------------------------
(* Congestion control.                                                     *)

CcType == [cwnd : 0 .. (Modulus - 1), ssthresh : 0 .. (Modulus - 1), dup : 0 .. DUP_MAX]

CcSafe(c) ==
    c \in CcType /\ c.cwnd \in MSS .. (Modulus - 1) /\ c.ssthresh \in (2 * MSS) .. (Modulus - 1)

\* Every change the code makes to cwnd and ssthresh (new acknowledgement,
\* duplicate, timeout) keeps them in range.
LEMMA CongestionSteps ==
    ASSUME NEW c, CcSafe(c), NEW n \in Nat
    PROVE  CcSafe(grow(c, n)) /\ CcSafe(duplicate(c)) /\ CcSafe(timeout(c))
<1> USE ConnectionAssumption, HalfAssumption
<1>1. half_cwnd(c) \in (2 * MSS) .. (Modulus - 1) /\ half_cwnd(c) + 3 * MSS \in MSS .. (Modulus - 1)
      BY DEF CcSafe, CcType, half_cwnd, max, Modulus
<1>2. CcSafe(timeout(c))
      BY <1>1 DEF CcSafe, CcType, timeout, Modulus
<1>3. count_dup(c) \in 0 .. DUP_MAX
      BY DEF CcSafe, CcType, count_dup, min
<1>4. CcSafe(duplicate(c))
      BY <1>1, <1>3 DEF CcSafe, CcType, duplicate, saturating_add, min, Modulus
<1>5. (MSS * MSS) \div c.cwnd \in Nat
      BY DEF CcSafe, CcType, Modulus
<1>6. growth(c, n) \in Nat
      BY <1>5 DEF growth, CcSafe, CcType, min, Modulus
<1>7. CcSafe(grow(c, n))
      BY <1>6 DEF CcSafe, CcType, grow, saturating_add, min, Modulus
<1> QED
    BY <1>2, <1>4, <1>7
-----------------------------------------------------------------------------
(* Steps that leave the sequence numbers alone.                            *)

\* The types of the variables' fields, in the form the steps below need.
LEMMA SendTypes ==
    ASSUME SendTypeOK
    PROVE  /\ snd.una \in SeqNum /\ snd.nxt \in SeqNum /\ snd.iss \in SeqNum
           /\ sb \in SendBuf /\ sb.una \in SeqNum /\ sb.nxt \in SeqNum
           /\ sb.len \in 0 .. SEND_BUF_SIZE
           /\ send_inflight(sb) \in SeqNum
           /\ cc \in CcType
BY SendBufDistance DEF SendTypeOK, CcType, SendBuf

\* As long as the copies have not drifted apart, SND.UNA is not ahead.
LEMMA TogetherAhead ==
    ASSUME SendTypeOK, Together
    PROVE  Ahead
<1>1. snd.una \in SeqNum /\ snd.nxt \in SeqNum /\ sb.una \in SeqNum
      BY SendTypes
<1>2. wrapping_sub(snd.una, sb.una) = 0
      BY <1>1, ZeroDistance DEF Together
<1>3. wrapping_sub(snd.nxt, sb.una) \in SeqNum
      BY <1>1, WrapType
<1> QED
    BY <1>2, <1>3, HalfAssumption DEF Together, Ahead, SeqNum, Modulus

\* The state changes that the handlers make without touching SND or the buffer.
Moves(from, to) ==
    \/ to = from
    \/ to = "Closed"
    \/ from = "SynReceived" /\ to = "Listen"
    \/ from = "Established" /\ to = "CloseWait"
    \/ from = "FinWait1" /\ to = "Closing"
    \/ from = "FinWait2" /\ to = "TimeWait"

\* Such a change keeps the invariant, with any congestion window in range.
LEMMA StateStep ==
    ASSUME SendInv, UNCHANGED <<snd, sb, rq>>, CcSafe(cc'),
           state' \in TcbState, Moves(state, state'),
           pc' \in {"select", "flush", "loop_end", "exit"}, close_initiated' \in BOOLEAN
    PROVE  SendInv'
<1>1. SendTypeOK'
      BY DEF SendInv, SendTypeOK, CcSafe, CcType
<1>2. CwndSafe'
      BY DEF CwndSafe, CcSafe
<1>3. Fresh' <=> Fresh
      BY DEF Fresh
<1>4. (Together' <=> Together) /\ (Ahead' <=> Ahead) /\ (Skipped' <=> Skipped) /\ (Done' <=> Done)
      BY DEF Together, Ahead, Skipped, Done, send_inflight
<1>5. Together => Ahead
      BY TogetherAhead DEF SendInv
<1>6. HandshakeInv'
      BY <1>3 DEF SendInv, HandshakeInv, Moves
<1>7. CloseInv'
      BY <1>3, <1>4, <1>5 DEF SendInv, CloseInv, HandshakeInv, SendTypeOK, TcbState, Moves, Done
<1>8. QueueInv'
      BY DEF SendInv, QueueInv, SendStates, Moves, send_inflight, end_of
<1> QED
    BY <1>1, <1>2, <1>6, <1>7, <1>8 DEF SendInv

\* The common case: not even the congestion window changes.
LEMMA SameSendStep ==
    ASSUME SendInv, UNCHANGED sendSide,
           state' \in TcbState, Moves(state, state'),
           pc' \in {"select", "flush", "loop_end", "exit"}, close_initiated' \in BOOLEAN
    PROVE  SendInv'
<1>1. CcSafe(cc')
      BY DEF SendInv, SendTypeOK, CwndSafe, CcSafe, CcType, sendSide
<1> QED
    BY <1>1, StateStep DEF sendSide
-----------------------------------------------------------------------------
(* Acknowledgements.                                                       *)

\* Less than half the sequence space separates SND.NXT from SND.UNA while the
\* copies are together, so Acceptable picks out what is in flight.
LEMMA TogetherAck ==
    ASSUME SendTypeOK, Together, NEW seg \in Segment, Acceptable(seg)
    PROVE  /\ 0 < wrapping_sub(seg.ack_num, sb.una)
           /\ \/ wrapping_sub(seg.ack_num, sb.una) <= send_inflight(sb)
              \/ seg.ack_num = snd.nxt /\ snd.nxt = wrapping_add(sb.nxt, 1)
<1> USE HalfAssumption, SendBufSizeAssumption
<1>1. /\ snd.una \in SeqNum /\ snd.nxt \in SeqNum /\ seg.ack_num \in SeqNum
      /\ sb.una \in SeqNum /\ sb.nxt \in SeqNum /\ sb.len \in 0 .. SEND_BUF_SIZE
      /\ send_inflight(sb) \in SeqNum
      BY SendTypes DEF Segment
<1>2. send_inflight(sb) <= SEND_BUF_SIZE /\ send_inflight(sb) \in Nat
      BY <1>1 DEF Together, SeqNum, Modulus
<1>3. wrapping_sub(wrapping_add(sb.nxt, 1), sb.una) = send_inflight(sb) + 1
      BY <1>1, <1>2, AdvanceDistance DEF send_inflight, Modulus
<1>4. wrapping_sub(snd.nxt, snd.una) \in {send_inflight(sb), send_inflight(sb) + 1}
      BY <1>3 DEF Together, send_inflight
<1>5. wrapping_sub(snd.nxt, snd.una) < Half
      BY <1>2, <1>4
<1>6. /\ 0 < wrapping_sub(seg.ack_num, snd.una)
      /\ wrapping_sub(seg.ack_num, snd.una) <= wrapping_sub(snd.nxt, snd.una)
      BY <1>1, <1>5, AckAcceptable DEF Acceptable
<1>7. wrapping_sub(seg.ack_num, sb.una) \in SeqNum
      BY <1>1, WrapType
<1>8. CASE wrapping_sub(seg.ack_num, sb.una) <= send_inflight(sb)
      BY <1>6, <1>8 DEF Together
<1>9. CASE ~ (wrapping_sub(seg.ack_num, sb.una) <= send_inflight(sb))
  <2>1. wrapping_sub(seg.ack_num, sb.una) = send_inflight(sb) + 1
        BY <1>2, <1>4, <1>6, <1>7, <1>9 DEF Together, SeqNum, Modulus
  <2>2. seg.ack_num = wrapping_add(sb.nxt, 1)
    <3>1. wrapping_add(sb.nxt, 1) \in SeqNum
          BY SendBufDistance, SendTypes
    <3> QED
          BY <1>1, <1>3, <2>1, <3>1, DistanceInjective
  <2>3. wrapping_sub(snd.nxt, snd.una) = send_inflight(sb) + 1
        BY <1>2, <1>4, <1>6, <2>1 DEF Together
  <2>4. snd.nxt = wrapping_add(sb.nxt, 1)
        BY <1>2, <2>3 DEF Together, send_inflight
  <2> QED
        BY <1>6, <2>2, <2>4 DEF Together
<1> QED
    BY <1>8, <1>9

\* An acknowledgement of data, in ESTABLISHED and FIN_WAIT_1: both copies of
\* SND.UNA move, and the retransmit queue keeps exactly what is left in flight.
LEMMA DataAckStep ==
    ASSUME SendInv, NEW seg \in Segment, Together,
           state \in {"Established", "FinWait1"},
           0 < wrapping_sub(seg.ack_num, sb.una),
           wrapping_sub(seg.ack_num, sb.una) <= send_inflight(sb),
           snd' = acked(seg), sb' = acknowledge(sb, seg.ack_num),
           rq' = not_acked(rq, seg.ack_num), CcSafe(cc'),
           state' \in {"Established", "CloseWait", "FinWait1", "FinWait2", "Closing", "TimeWait"},
           state' \in {"Established", "CloseWait"} => snd.nxt = sb.nxt,
           pc' = "flush", close_initiated' = close_initiated
    PROVE  SendInv'
<1> USE HalfAssumption, SendBufSizeAssumption
<1> DEFINE ack == seg.ack_num
           k   == wrapping_sub(ack, sb.una)
<1>1. /\ snd.una \in SeqNum /\ snd.nxt \in SeqNum /\ ack \in SeqNum
      /\ sb \in SendBuf /\ sb.una \in SeqNum /\ sb.nxt \in SeqNum
      /\ sb.len \in 0 .. SEND_BUF_SIZE
      /\ send_inflight(sb) \in SeqNum
      BY SendTypes DEF Segment, SendInv
<1>2. send_inflight(sb) <= sb.len
      BY DEF Together
<1>3. /\ sb' \in SendBuf /\ sb'.una = ack /\ sb'.nxt = sb.nxt
      /\ send_inflight(sb') = send_inflight(sb) - k
      /\ sb'.len = sb.len - k
      BY <1>1, <1>2, AcknowledgeSent
<1>4. snd'.una = ack /\ snd'.nxt = snd.nxt
      BY DEF acked
<1>5. SendTypeOK'
  <2>1. snd' \in [una : SeqNum, nxt : SeqNum, wnd : 0 .. MAX_WINDOW, iss : SeqNum]
        BY DEF acked, SendInv, SendTypeOK, Segment
  <2>2. rq' \subseteq [seq : SeqNum, len : 1 .. MSS]
        BY DEF not_acked, SendInv, SendTypeOK
  <2> QED
        BY <1>3, <2>1, <2>2 DEF SendInv, SendTypeOK, TcbState, CcSafe, CcType
<1>6. Together'
  <2>1. k \in SeqNum
        BY <1>1, WrapType
  <2>2. send_inflight(sb') <= sb'.len
        BY <1>1, <1>2, <1>3, <2>1 DEF SeqNum, Modulus
  <2>3. send_inflight(sb)' = send_inflight(sb')
        BY DEF send_inflight
  <2> QED
        BY <1>3, <1>4, <2>2, <2>3 DEF Together
<1>7. Ahead'
  <2>1. wrapping_sub(ack, ack) <= wrapping_sub(snd.nxt, ack)
        BY <1>1, SelfDistance
  <2> QED
        BY <1>3, <1>4, <1>6, <2>1 DEF Ahead, Together
<1>8. \A e \in rq' : wrapping_sub(end_of(e), sb'.una) \in 1 .. send_inflight(sb')
  <2> TAKE e \in rq'
  <2>1. /\ e \in rq /\ ~ seq_le(end_of(e), ack)
        BY DEF not_acked
  <2>2. wrapping_sub(end_of(e), sb.una) \in 1 .. send_inflight(sb)
        BY <2>1 DEF SendInv, QueueInv, SendStates
  <2>3. end_of(e) \in SeqNum
    <3>1. e.seq \in SeqNum /\ e.len \in 1 .. MSS
          BY <2>1 DEF SendInv, SendTypeOK
    <3>2. e.len \in SeqNum
          BY <3>1, ConnectionAssumption DEF SeqNum, Modulus
    <3> QED
          BY <3>1, <3>2, WrapType DEF end_of
  <2>4. k \in SeqNum /\ k < Half /\ wrapping_sub(end_of(e), sb.una) < Half
    <3>1. k \in SeqNum
          BY <1>1, WrapType
    <3> QED
          BY <1>1, <1>2, <2>2, <3>1 DEF SeqNum, Modulus
  <2>5. k < wrapping_sub(end_of(e), sb.una)
    <3>1. ~ (wrapping_sub(end_of(e), sb.una) <= k)
          BY <1>1, <2>1, <2>3, <2>4, OrderIsDistance
    <3> QED
          BY <2>2, <2>4, <3>1 DEF SeqNum, Modulus
  <2>6. wrapping_sub(end_of(e), ack) = wrapping_sub(end_of(e), sb.una) - k
        BY <1>1, <2>2, <2>3, <2>4, <2>5, RebaseDistance DEF SeqNum, Modulus
  <2> QED
        BY <1>1, <1>3, <2>2, <2>4, <2>5, <2>6 DEF SeqNum, Modulus
<1>9. QueueInv'
      BY <1>8 DEF QueueInv, send_inflight, end_of
<1>10. HandshakeInv'
      BY DEF HandshakeInv
<1>11. CloseInv'
      BY <1>3, <1>4, <1>6, <1>7 DEF CloseInv
<1>12. CwndSafe'
      BY DEF CwndSafe, CcSafe
<1> QED
    BY <1>5, <1>9, <1>10, <1>11, <1>12 DEF SendInv
-----------------------------------------------------------------------------
(* The handshake.                                                          *)

\* The only acceptable acknowledgement of a SYN is the one just past it, and
\* the send buffer has nothing to release for it.
LEMMA SynAck ==
    ASSUME SendTypeOK, Fresh, snd.nxt = wrapping_add(snd.iss, 1),
           NEW seg \in Segment, Acceptable(seg)
    PROVE  /\ seg.ack_num = snd.nxt
           /\ sb.una = snd.nxt /\ sb.nxt = snd.nxt /\ sb.len = 0 /\ send_inflight(sb) = 0
           /\ acknowledge(sb, seg.ack_num) = sb
<1> USE HalfAssumption
<1>1. /\ snd.una \in SeqNum /\ snd.nxt \in SeqNum /\ seg.ack_num \in SeqNum
      /\ sb.una \in SeqNum /\ sb.nxt \in SeqNum
      BY SendTypes DEF Segment
<1>2. wrapping_sub(snd.nxt, snd.una) = 1
  <2>1. wrapping_sub(snd.una, snd.una) = 0
        BY <1>1, ZeroDistance
  <2> QED
        BY <1>1, <2>1, AdvanceDistance DEF Fresh, Modulus
<1>3. /\ 0 < wrapping_sub(seg.ack_num, snd.una)
      /\ wrapping_sub(seg.ack_num, snd.una) <= 1
  <2>1. wrapping_sub(snd.nxt, snd.una) < Half
        BY <1>2
  <2> QED
        BY <1>1, <1>2, <2>1, AckAcceptable DEF Acceptable
<1>4. wrapping_sub(seg.ack_num, snd.una) \in SeqNum
      BY <1>1, WrapType
<1>5. wrapping_sub(seg.ack_num, snd.una) = wrapping_sub(snd.nxt, snd.una)
      BY <1>2, <1>3, <1>4 DEF SeqNum, Modulus
<1>6. seg.ack_num = snd.nxt
      BY <1>1, <1>5, DistanceInjective
<1>7. sb.una = snd.nxt /\ sb.nxt = snd.nxt /\ sb.len = 0
      BY DEF Fresh, send_new
<1>8. wrapping_sub(snd.nxt, snd.nxt) = 0
      BY <1>1, ZeroDistance
<1>9. newly_acked(sb, snd.nxt) = 0
      BY <1>7, <1>8 DEF newly_acked
<1> QED
    BY <1>6, <1>7, <1>8, <1>9 DEF send_inflight, acknowledge

\* The acknowledgement of the SYN establishes the connection.
LEMMA EstablishStep ==
    ASSUME SendInv, NEW seg \in Segment, Acceptable(seg),
           state \in {"SynSent", "SynReceived"}, state' = "Established",
           snd' = acked(seg), sb' \in {sb, acknowledge(sb, seg.ack_num)},
           UNCHANGED <<cc, rq, close_initiated>>, pc' = "flush"
    PROVE  SendInv'
<1> USE HalfAssumption
<1>1. Fresh /\ snd.nxt = wrapping_add(snd.iss, 1) /\ SendTypeOK
      BY DEF SendInv, HandshakeInv
<1>2. /\ seg.ack_num = snd.nxt
      /\ sb.una = snd.nxt /\ sb.nxt = snd.nxt /\ sb.len = 0 /\ send_inflight(sb) = 0
      /\ sb' = sb
      BY <1>1, SynAck
<1>3. snd' \in [una : SeqNum, nxt : SeqNum, wnd : 0 .. MAX_WINDOW, iss : SeqNum]
      BY <1>1 DEF acked, SendTypeOK, Segment
<1>4. SendTypeOK'
      BY <1>1, <1>2, <1>3 DEF SendTypeOK, TcbState
<1>5. snd'.una = snd.nxt /\ snd'.nxt = snd.nxt
      BY <1>2 DEF acked
<1>6. Together' /\ (snd.nxt = sb.nxt)'
      BY <1>2, <1>5 DEF Together, send_inflight
<1>7. QueueInv'
      BY <1>1 DEF Fresh, QueueInv
<1> QED
    BY <1>4, <1>6, <1>7 DEF SendInv, CwndSafe, HandshakeInv, CloseInv

\* A SYN received, or sent, from a fresh connection.
LEMMA SynStep ==
    ASSUME SendInv, Fresh, UNCHANGED <<cc, sb, rq, close_initiated>>,
           NEW w \in 0 .. MAX_WINDOW,
           snd' = [una |-> snd.una, nxt |-> wrapping_add(snd.iss, 1), wnd |-> w, iss |-> snd.iss],
           state' \in {"SynSent", "SynReceived"}, pc' \in {"select", "flush"}
    PROVE  SendInv'
<1>1. snd.una \in SeqNum /\ snd.iss \in SeqNum
      BY SendTypes DEF SendInv
<1>2. wrapping_add(snd.iss, 1) \in SeqNum
      BY <1>1, HalfAssumption DEF wrapping_add, SeqNum, Modulus
<1>3. SendTypeOK'
      BY <1>1, <1>2 DEF SendInv, SendTypeOK, TcbState
<1>4. Fresh'
      BY DEF Fresh
<1> QED
    BY <1>3, <1>4 DEF SendInv, CwndSafe, HandshakeInv, CloseInv, QueueInv, SendStates
-----------------------------------------------------------------------------
(* Transmission.                                                           *)

\* A segment of n bytes leaves the buffer, in any state that has sent data:
\* Flush queues it for retransmission, the zero-window probe does not.
LEMMA TransmitStep ==
    ASSUME SendInv, NEW m \in Nat, m <= MSS, NEW n, n = next_segment_len(sb, m), n > 0,
           sb' = advance_nxt(sb, n),
           snd' = [snd EXCEPT !.nxt = sb'.nxt],
           rq' \in {rq, push(rq, sb.nxt, n)},
           UNCHANGED <<state, cc, close_initiated>>,
           pc' \in {"flush", "loop_end"}
    PROVE  SendInv'
<1> USE HalfAssumption, SendBufSizeAssumption
<1>1. /\ snd.una \in SeqNum /\ snd.nxt \in SeqNum
      /\ sb \in SendBuf /\ sb.una \in SeqNum /\ sb.nxt \in SeqNum
      /\ sb.len \in 0 .. SEND_BUF_SIZE
      /\ send_inflight(sb) \in SeqNum
      BY SendTypes DEF SendInv
<1>2. send_inflight(sb) < sb.len
      BY <1>1 DEF next_segment_len, SeqNum, Modulus
<1>3. ~ Fresh
      BY <1>1, <1>2 DEF Fresh, send_new, SeqNum, Modulus
<1>4. ~ Skipped
  <2> SUFFICES ASSUME Skipped PROVE FALSE
        OBVIOUS
  <2>1. send_inflight(sb) = Modulus - 1
        BY <1>1 DEF Skipped, send_inflight, wrapping_sub, wrapping_add, SeqNum, Modulus
  <2> QED
        BY <1>1, <1>2, <2>1 DEF Modulus
<1>5. /\ n \in Nat /\ n <= m
      /\ sb' = [una |-> sb.una, nxt |-> wrapping_add(sb.nxt, n), len |-> sb.len]
      /\ sb' \in SendBuf
      /\ send_inflight(sb') = send_inflight(sb) + n
      /\ send_inflight(sb) + n <= sb.len
      BY <1>1, <1>2, TransmitCounts DEF SeqNum, Modulus
<1>6. sb'.una = sb.una /\ sb'.len = sb.len /\ sb'.nxt \in SeqNum
      BY <1>5 DEF SendBuf
<1>7. snd'.una = snd.una /\ snd'.nxt = sb'.nxt
      BY DEF SendInv, SendTypeOK
<1>8. SendTypeOK'
  <2>1. rq' \subseteq [seq : SeqNum, len : 1 .. MSS]
    <3>1. [seq |-> sb.nxt, len |-> n] \in [seq : SeqNum, len : 1 .. MSS]
          BY <1>1, <1>5, ConnectionAssumption
    <3> QED
          BY <3>1 DEF push, SendInv, SendTypeOK
  <2>2. snd' \in [una : SeqNum, nxt : SeqNum, wnd : 0 .. MAX_WINDOW, iss : SeqNum]
        BY <1>6 DEF SendInv, SendTypeOK
  <2> QED
        BY <1>5, <2>1, <2>2 DEF SendInv, SendTypeOK
<1>9. Together => Together' /\ (snd.nxt = sb.nxt)'
      BY <1>5, <1>6, <1>7 DEF Together, send_inflight
<1>10. Ahead => Ahead'
  <2> SUFFICES ASSUME Ahead PROVE Ahead'
        OBVIOUS
  <2>1. wrapping_sub(snd.nxt, sb.una) <= send_inflight(sb) + 1
    <3>1. wrapping_sub(wrapping_add(sb.nxt, 1), sb.una) = send_inflight(sb) + 1
      <4>1. wrapping_sub(sb.nxt, sb.una) + 1 < Modulus
            BY <1>1, <1>2 DEF send_inflight, SeqNum, Modulus
      <4> QED
            BY <1>1, <4>1, AdvanceDistance DEF send_inflight
    <3> QED
          BY <1>1, <3>1 DEF Ahead, send_inflight, SeqNum, Modulus
  <2>2. wrapping_sub(snd.una, sb.una) \in SeqNum /\ wrapping_sub(snd.nxt, sb.una) \in SeqNum
        BY <1>1, WrapType
  <2>3. wrapping_sub(snd.una, sb.una) <= send_inflight(sb')
        BY <1>1, <1>5, <2>1, <2>2 DEF Ahead, SeqNum, Modulus
  <2> QED
        BY <1>5, <1>6, <1>7, <2>3 DEF Ahead, send_inflight
<1>11. HandshakeInv'
      BY <1>3 DEF SendInv, HandshakeInv
<1>12. CloseInv'
  <2>1. ~ Done
        BY <1>1, <1>2, <1>4 DEF Done, SeqNum, Modulus
  <2> QED
        BY <1>3, <1>4, <1>9, <1>10, <2>1 DEF SendInv, CloseInv
<1>13. QueueInv'
  <2> SUFFICES ASSUME state \in SendStates, NEW e \in rq'
               PROVE  wrapping_sub(end_of(e), sb'.una) \in 1 .. send_inflight(sb')
        BY DEF QueueInv, send_inflight, end_of
  <2>1. CASE e \in rq
    <3>1. wrapping_sub(end_of(e), sb.una) \in 1 .. send_inflight(sb)
          BY <2>1 DEF SendInv, QueueInv, SendStates
    <3> QED
          BY <1>1, <1>5, <1>6, <3>1 DEF SeqNum, Modulus
  <2>2. CASE e = [seq |-> sb.nxt, len |-> n]
    <3>1. end_of(e) = sb'.nxt
          BY <1>5, <2>2 DEF end_of
    <3>2. wrapping_sub(end_of(e), sb'.una) = send_inflight(sb')
          BY <3>1 DEF send_inflight
    <3> QED
          BY <1>1, <1>5, <3>2 DEF SeqNum, Modulus
  <2> QED
        BY <2>1, <2>2 DEF push
<1> QED
    BY <1>8, <1>11, <1>12, <1>13 DEF SendInv, CwndSafe

\* flush_send_buf never asks the buffer for more than a segment.
LEMMA FlushStep ==
    ASSUME SendInv, Flush
    PROVE  SendInv'
<1> DEFINE ew == min(cc.cwnd, snd.wnd)
           m  == min(MSS, ew - flight)
<1>1. ew \in Nat /\ flight \in Nat
  <2>1. flight \in SeqNum
        BY SendTypes, WrapType DEF SendInv, flight
  <2>2. cc.cwnd \in Nat /\ snd.wnd \in Nat
        BY HalfAssumption DEF SendInv, SendTypeOK, Modulus
  <2> QED
        BY <2>1, <2>2 DEF SeqNum, min
<1>2. flight < ew /\ segment_to_send = next_segment_len(sb, m)
      BY <1>1 DEF Flush, segment_to_send, flight
<1>3. m \in Nat /\ m <= MSS
      BY <1>1, <1>2, ConnectionAssumption DEF min
<1> HIDE DEF m
<1>4. pc' = "flush"
      BY DEF Flush
<1> QED
    BY <1>2, <1>3, <1>4, TransmitStep DEF Flush

\* The zero-window probe.
LEMMA ProbeStep ==
    ASSUME SendInv, ZwpTick
    PROVE  SendInv'
BY TransmitStep, ConnectionAssumption DEF ZwpTick

\* write_data: the buffer takes what it has room for.
LEMMA WriteStep ==
    ASSUME SendInv, NEW k \in Nat, AppWrite(k)
    PROVE  SendInv'
<1> USE HalfAssumption, SendBufSizeAssumption
<1>1. sb \in SendBuf /\ sb.len \in 0 .. SEND_BUF_SIZE /\ send_inflight(sb) \in SeqNum
      BY SendTypes DEF SendInv
<1>2. /\ sb' \in SendBuf /\ sb'.una = sb.una /\ sb'.nxt = sb.nxt /\ sb'.len >= sb.len
      BY <1>1 DEF AppWrite, send_write, send_accepted, min, SendBuf
<1>3. SendTypeOK'
      BY <1>2 DEF SendInv, SendTypeOK, AppWrite
<1>4. Together /\ snd.nxt = sb.nxt
      BY DEF SendInv, CloseInv, AppWrite
<1>5. sb'.len \in Nat /\ send_inflight(sb) <= sb'.len
      BY <1>1, <1>2, <1>4 DEF Together, SendBuf, SeqNum, Modulus
<1>6. Together' /\ (snd.nxt = sb.nxt)'
      BY <1>2, <1>4, <1>5 DEF Together, AppWrite, send_inflight
<1>7. QueueInv'
      BY <1>2 DEF SendInv, QueueInv, SendStates, AppWrite, send_inflight, end_of
<1> QED
    BY <1>3, <1>6, <1>7 DEF SendInv, CwndSafe, HandshakeInv, CloseInv, AppWrite
-----------------------------------------------------------------------------
(* Closing.                                                                *)

\* initiate_close counts the FIN in the TCB only.
LEMMA CloseStep ==
    ASSUME SendInv, Close
    PROVE  SendInv'
<1> USE HalfAssumption, SendBufSizeAssumption
<1>1. CASE state \notin {"Established", "CloseWait"}
  <2>1. UNCHANGED sendSide /\ state' = state /\ pc' = "loop_end" /\ close_initiated' = TRUE
        BY <1>1 DEF Close, sendSide
  <2> QED
        BY <2>1, SameSendStep DEF Moves, SendInv, SendTypeOK
<1>2. CASE state \in {"Established", "CloseWait"}
  <2>1. /\ snd' = [snd EXCEPT !.nxt = wrapping_add(@, 1)]
        /\ state' = IF state = "Established" THEN "FinWait1" ELSE "LastAck"
        /\ UNCHANGED <<cc, sb, rq>> /\ pc' = "loop_end" /\ close_initiated' = TRUE
        BY <1>2 DEF Close
  <2>2. Together /\ snd.nxt = sb.nxt
        BY <1>2 DEF SendInv, CloseInv
  <2>3. wrapping_add(snd.nxt, 1) \in SeqNum
        BY SendTypes DEF SendInv, wrapping_add, SeqNum, Modulus
  <2>4. snd' \in [una : SeqNum, nxt : SeqNum, wnd : 0 .. MAX_WINDOW, iss : SeqNum]
        BY <2>1, <2>3 DEF SendInv, SendTypeOK
  <2>5. SendTypeOK'
        BY <1>2, <2>1, <2>4 DEF SendInv, SendTypeOK, TcbState
  <2>6. snd'.una = snd.una /\ snd'.nxt = wrapping_add(sb.nxt, 1)
        BY <2>1, <2>2 DEF SendInv, SendTypeOK
  <2>7. Together'
        BY <2>1, <2>2, <2>6 DEF Together, send_inflight
  <2>8. Ahead'
    <3>1. wrapping_sub(sb.una, sb.una) <= wrapping_sub(wrapping_add(sb.nxt, 1), sb.una)
          BY SendTypes, SendBufDistance, SelfDistance DEF SendInv
    <3> QED
          BY <2>1, <2>2, <2>6, <2>7, <3>1 DEF Together, Ahead
  <2>9. QueueInv'
        BY <1>2, <2>1 DEF SendInv, QueueInv, SendStates, send_inflight, end_of
  <2> QED
        BY <1>2, <2>1, <2>5, <2>7, <2>8, <2>9 DEF SendInv, CwndSafe, HandshakeInv, CloseInv
<1> QED
    BY <1>1, <1>2

\* The acknowledgement of the FIN in FIN_WAIT_1.  The send buffer either
\* ignores it or skips the byte that shares its sequence number.
LEMMA FinAckStep ==
    ASSUME SendInv, NEW seg \in Segment, Together, state = "FinWait1",
           seg.ack_num = snd.nxt, snd.nxt = wrapping_add(sb.nxt, 1),
           snd' = acked(seg), sb' = acknowledge(sb, seg.ack_num),
           rq' = not_acked(rq, seg.ack_num), UNCHANGED <<cc, close_initiated>>,
           state' \in {"FinWait2", "TimeWait"}, pc' = "flush"
    PROVE  SendInv'
<1> USE HalfAssumption, SendBufSizeAssumption
<1>1. /\ sb \in SendBuf /\ sb.una \in SeqNum /\ sb.nxt \in SeqNum /\ snd.nxt \in SeqNum
      /\ sb.len \in 0 .. SEND_BUF_SIZE /\ send_inflight(sb) \in SeqNum
      BY SendTypes DEF SendInv
<1>0. /\ wrapping_sub(snd.nxt, sb.una) = send_inflight(sb) + 1
      /\ send_inflight(sb) + 1 < Half
  <2>1. send_inflight(sb) + 1 < Half
        BY <1>1 DEF Together, SeqNum, Modulus
  <2>2. wrapping_sub(sb.nxt, sb.una) + 1 < Modulus
        BY <1>1, <2>1 DEF send_inflight, SeqNum, Modulus
  <2>3. wrapping_sub(wrapping_add(sb.nxt, 1), sb.una) = send_inflight(sb) + 1
        BY <1>1, <2>2, AdvanceDistance DEF send_inflight
  <2> QED
        BY <2>1, <2>3
<1>2. /\ sb' \in SendBuf /\ sb'.nxt = sb.nxt
      /\ sb' = sb \/ sb'.una = snd.nxt
      BY <1>1, AcknowledgeFin DEF Together
<1>3. snd'.una = snd.nxt /\ snd'.nxt = snd.nxt
      BY DEF acked
<1>4. SendTypeOK'
  <2>1. snd' \in [una : SeqNum, nxt : SeqNum, wnd : 0 .. MAX_WINDOW, iss : SeqNum]
        BY DEF acked, SendInv, SendTypeOK, Segment
  <2>2. rq' \subseteq [seq : SeqNum, len : 1 .. MSS]
        BY DEF not_acked, SendInv, SendTypeOK
  <2> QED
        BY <1>2, <2>1, <2>2 DEF SendInv, SendTypeOK, TcbState
<1>5. (Ahead \/ Skipped)'
  <2>1. CASE sb' = sb
    <3>1. wrapping_sub(snd.nxt, sb.una) \in SeqNum
          BY <1>1, WrapType
    <3>2. wrapping_sub(snd.nxt, sb.una) <= wrapping_sub(snd.nxt, sb.una)
          BY <3>1, HalfAssumption DEF SeqNum, Modulus
    <3> QED
          BY <1>3, <2>1, <3>2 DEF Ahead, Together, send_inflight
  <2>2. CASE sb'.una = snd.nxt
        BY <1>2, <1>3, <2>2 DEF Skipped
  <2> QED
        BY <1>2, <2>1, <2>2
<1>6. rq' = {}
  <2> SUFFICES ASSUME NEW e \in rq, ~ seq_le(end_of(e), snd.nxt) PROVE FALSE
        BY DEF not_acked
  <2>1. wrapping_sub(end_of(e), sb.una) \in 1 .. send_inflight(sb)
        BY DEF SendInv, QueueInv, SendStates
  <2>2. end_of(e) \in SeqNum
    <3>1. e.seq \in SeqNum /\ e.len \in 1 .. MSS
          BY DEF SendInv, SendTypeOK
    <3>2. e.len \in SeqNum
          BY <3>1, ConnectionAssumption DEF SeqNum, Modulus
    <3> QED
          BY <3>1, <3>2, WrapType DEF end_of
  <2>3. /\ wrapping_sub(end_of(e), sb.una) <= wrapping_sub(snd.nxt, sb.una)
        /\ wrapping_sub(end_of(e), sb.una) < Half /\ wrapping_sub(snd.nxt, sb.una) < Half
        BY <1>0, <1>1, <2>1 DEF SeqNum, Modulus
  <2> QED
        BY <1>1, <2>2, <2>3, OrderIsDistance
<1>7. Done'
  <2>1. sb' = sb => sb.len <= send_inflight(sb)
    <3>1. newly_acked(sb, snd.nxt) \in {0, send_inflight(sb) + 1}
          BY <1>0 DEF newly_acked
    <3>2. CASE send_inflight(sb) + 1 > sb.len
          BY <1>1, <3>2 DEF SeqNum, Modulus
    <3>3. CASE ~ (send_inflight(sb) + 1 > sb.len)
      <4>1. newly_acked(sb, snd.nxt) = send_inflight(sb) + 1
            BY <1>0, <3>3 DEF newly_acked
      <4>2. acknowledge(sb, snd.nxt).len = sb.len - (send_inflight(sb) + 1)
            BY <1>1, <4>1 DEF acknowledge, SeqNum, Modulus
      <4> QED
            BY <1>1, <4>2 DEF SeqNum, Modulus
    <3> QED
          BY <3>2, <3>3
  <2>2. CASE sb' = sb
    <3>1. (Ahead \/ Skipped)' /\ (sb.len <= send_inflight(sb))'
          BY <1>5, <2>1, <2>2 DEF send_inflight
    <3> QED
          BY <1>6, <3>1 DEF Done
  <2>3. CASE sb'.una = snd.nxt
    <3>1. Skipped'
          BY <1>2, <1>3, <2>3 DEF Skipped
    <3> QED
          BY <1>6, <3>1 DEF Done
  <2> QED
        BY <1>2, <2>2, <2>3
<1> QED
    BY <1>4, <1>5, <1>6, <1>7 DEF SendInv, CwndSafe, HandshakeInv, CloseInv, QueueInv

\* CLOSING and LAST_ACK move only the TCB's SND.UNA.
LEMMA LateAckStep ==
    ASSUME SendInv, NEW seg \in Segment, Acceptable(seg), state \in {"Closing", "LastAck"},
           snd' = [snd EXCEPT !.una = seg.ack_num], UNCHANGED <<cc, sb, rq, close_initiated>>,
           state' \in {"TimeWait", "Closed"}, pc' = "flush"
    PROVE  SendInv'
<1> USE HalfAssumption, SendBufSizeAssumption
<1> DEFINE d(x) == wrapping_sub(x, sb.una)
<1>1. /\ snd.una \in SeqNum /\ snd.nxt \in SeqNum /\ seg.ack_num \in SeqNum
      /\ sb.una \in SeqNum /\ sb.nxt \in SeqNum /\ sb.len \in 0 .. SEND_BUF_SIZE
      /\ send_inflight(sb) \in SeqNum
      BY SendTypes DEF Segment, SendInv
<1>2. d(snd.una) \in SeqNum /\ d(snd.nxt) \in SeqNum
      BY <1>1, WrapType
<1>3. Ahead
      BY TogetherAhead DEF SendInv, CloseInv
<1>4. d(snd.nxt) <= SEND_BUF_SIZE + 1
  <2>1. send_inflight(sb) <= SEND_BUF_SIZE
        BY <1>1, <1>3 DEF Ahead, SeqNum, Modulus
  <2>2. wrapping_sub(wrapping_add(sb.nxt, 1), sb.una) = send_inflight(sb) + 1
    <3>1. wrapping_sub(sb.nxt, sb.una) + 1 < Modulus
          BY <1>1, <2>1 DEF send_inflight, SeqNum, Modulus
    <3> QED
          BY <1>1, <3>1, AdvanceDistance DEF send_inflight
  <2> QED
        BY <1>1, <1>3, <2>1, <2>2 DEF Ahead, send_inflight, SeqNum, Modulus
<1>5. wrapping_sub(snd.nxt, snd.una) = d(snd.nxt) - d(snd.una)
      BY <1>1, <1>3, RebaseDistance DEF Ahead
<1>6. wrapping_sub(snd.nxt, snd.una) < Half
      BY <1>2, <1>4, <1>5 DEF SeqNum, Modulus
<1>7. wrapping_sub(seg.ack_num, snd.una) <= d(snd.nxt) - d(snd.una)
      BY <1>1, <1>5, <1>6, AckAcceptable DEF Acceptable
<1>8. wrapping_sub(seg.ack_num, snd.una) \in SeqNum
      BY <1>1, WrapType
<1>9. d(snd.una) + wrapping_sub(seg.ack_num, snd.una) < Modulus
      BY <1>2, <1>7, <1>8 DEF SeqNum, Modulus
<1>10. d(seg.ack_num) = d(snd.una) + wrapping_sub(seg.ack_num, snd.una)
      BY <1>1, <1>9, ComposeDistance
<1>11. d(seg.ack_num) <= d(snd.nxt)
      BY <1>2, <1>7, <1>8, <1>10 DEF SeqNum, Modulus
<1>12. snd'.una = seg.ack_num /\ snd'.nxt = snd.nxt
      BY DEF SendInv, SendTypeOK
<1>13. Ahead'
      BY <1>3, <1>11, <1>12 DEF Ahead, send_inflight
<1>14. SendTypeOK'
      BY <1>1 DEF SendInv, SendTypeOK, TcbState
<1> QED
    BY <1>13, <1>14 DEF SendInv, CwndSafe, HandshakeInv, CloseInv, QueueInv, SendStates
-----------------------------------------------------------------------------
(* The handlers, one lemma per group of states.                            *)

\* A segment that is ignored, refused with a RST, or is itself a RST.
LEMMA QuietStep ==
    ASSUME SendInv, UNCHANGED <<sendSide, close_initiated>>,
           state' \in TcbState, Moves(state, state'), pc' = "flush"
    PROVE  SendInv'
BY SameSendStep DEF SendInv, SendTypeOK

\* handle_listen: a SYN starts the handshake, nothing else changes anything.
LEMMA ListenStep ==
    ASSUME SendInv, NEW seg \in Segment, handle_listen(seg), pc' = "flush",
           UNCHANGED close_initiated
    PROVE  SendInv'
<1>1. CASE UNCHANGED <<state, sendSide>>
      BY <1>1, QuietStep DEF Moves, SendInv, SendTypeOK
<1>2. CASE /\ snd' = [snd EXCEPT !.nxt = wrapping_add(snd.iss, 1)]
           /\ state' = "SynReceived" /\ UNCHANGED <<cc, sb, rq>>
  <2>1. snd' = [una |-> snd.una, nxt |-> wrapping_add(snd.iss, 1), wnd |-> snd.wnd,
                iss |-> snd.iss] /\ snd.wnd \in 0 .. MAX_WINDOW
        BY <1>2 DEF SendInv, SendTypeOK
  <2>2. Fresh
        BY DEF handle_listen, SendInv, HandshakeInv
  <2> QED
        BY <1>2, <2>1, <2>2, SynStep
<1> QED
    BY <1>1, <1>2 DEF handle_listen, Ignore, Refuse

\* handle_syn_sent: established, simultaneous open, or closed by a RST.
LEMMA SynSentStep ==
    ASSUME SendInv, NEW seg \in Segment, handle_syn_sent(seg), pc' = "flush",
           UNCHANGED close_initiated
    PROVE  SendInv'
<1>0. state = "SynSent" /\ Fresh /\ snd.nxt = wrapping_add(snd.iss, 1)
      BY DEF handle_syn_sent, SendInv, HandshakeInv
<1>1. CASE UNCHANGED sendSide /\ state' \in {state, "Closed"}
      BY <1>1, QuietStep DEF Moves, SendInv, SendTypeOK, TcbState
<1>2. CASE Acceptable(seg) /\ snd' = acked(seg) /\ state' = "Established" /\ UNCHANGED <<cc, sb, rq>>
      BY <1>0, <1>2, EstablishStep
<1>3. CASE /\ snd' = [snd EXCEPT !.wnd = seg.window]
           /\ state' = "SynReceived" /\ UNCHANGED <<cc, sb, rq>>
  <2>1. snd' = [una |-> snd.una, nxt |-> wrapping_add(snd.iss, 1), wnd |-> seg.window,
                iss |-> snd.iss] /\ seg.window \in 0 .. MAX_WINDOW
        BY <1>0, <1>3 DEF SendInv, SendTypeOK, Segment
  <2> QED
        BY <1>0, <1>3, <2>1, SynStep
<1> QED
    BY <1>1, <1>2, <1>3 DEF handle_syn_sent, Ignore, Refuse, Reset

\* handle_syn_received: established, or back to LISTEN by a RST.
LEMMA SynReceivedStep ==
    ASSUME SendInv, NEW seg \in Segment, handle_syn_received(seg), pc' = "flush",
           UNCHANGED close_initiated
    PROVE  SendInv'
<1>0. state = "SynReceived"
      BY DEF handle_syn_received
<1>1. CASE UNCHANGED sendSide /\ state' \in {state, "Listen"}
      BY <1>0, <1>1, QuietStep DEF Moves, SendInv, SendTypeOK, TcbState
<1>2. CASE /\ Acceptable(seg) /\ snd' = acked(seg) /\ sb' = acknowledge(sb, seg.ack_num)
           /\ state' = "Established" /\ UNCHANGED <<cc, rq>>
      BY <1>0, <1>2, EstablishStep
<1> QED
    BY <1>1, <1>2 DEF handle_syn_received, Ignore, Refuse, Reset

\* handle_established: new and duplicate acknowledgements, data and FIN.
LEMMA EstablishedStep ==
    ASSUME SendInv, NEW seg \in Segment, handle_established(seg), pc' = "flush",
           UNCHANGED close_initiated
    PROVE  SendInv'
<1>0. state = "Established" /\ Together /\ snd.nxt = sb.nxt /\ CcSafe(cc) /\ SendTypeOK
      BY DEF handle_established, SendInv, CloseInv, CwndSafe, SendTypeOK, CcSafe, CcType
<1>1. CASE Reset(seg, "Closed")
      BY <1>0, <1>1, QuietStep DEF Reset, Moves, TcbState
<1>2. CASE /\ cc' = duplicate(cc) /\ UNCHANGED <<snd, sb, rq>>
           /\ state' \in {"Established", "CloseWait"}
  <2>1. CcSafe(cc')
        BY <1>0, <1>2, CongestionSteps
  <2> QED
        BY <1>0, <1>2, <2>1, StateStep DEF Moves, TcbState, SendTypeOK
<1>3. CASE UNCHANGED sendSide /\ state' \in {"Established", "CloseWait"}
      BY <1>0, <1>3, QuietStep DEF Moves, TcbState
<1>4. CASE /\ Acceptable(seg)
           /\ cc' = grow(cc, wrapping_sub(seg.ack_num, snd.una))
           /\ snd' = acked(seg)
           /\ sb' = acknowledge(sb, seg.ack_num)
           /\ rq' = not_acked(rq, seg.ack_num)
           /\ state' \in {"Established", "CloseWait"}
  <2>1. wrapping_sub(seg.ack_num, snd.una) \in SeqNum
        BY <1>0, SendTypes, WrapType DEF Segment
  <2>2. CcSafe(cc')
        BY <1>0, <1>4, <2>1, CongestionSteps DEF SeqNum
  <2>3. /\ 0 < wrapping_sub(seg.ack_num, sb.una)
        /\ \/ wrapping_sub(seg.ack_num, sb.una) <= send_inflight(sb)
           \/ snd.nxt = wrapping_add(sb.nxt, 1)
        BY <1>0, <1>4, TogetherAck
  <2>4. snd.nxt # wrapping_add(sb.nxt, 1)
        BY <1>0, SendTypes, HalfAssumption DEF wrapping_add, SeqNum, Modulus
  <2> QED
        BY <1>0, <1>4, <2>2, <2>3, <2>4, DataAckStep
<1>5. state' \in {"Established", "CloseWait"} \/ Reset(seg, "Closed")
      BY <1>0 DEF handle_established, AcceptText
<1>6. CASE AcceptAck(seg) /\ state' \in {"Established", "CloseWait"}
      BY <1>2, <1>3, <1>4, <1>6 DEF AcceptAck
<1> QED
    BY <1>1, <1>2, <1>5, <1>6 DEF handle_established

\* handle_fin_wait_1: an acknowledgement of data, or of the FIN, or neither.
LEMMA FinWait1Step ==
    ASSUME SendInv, NEW seg \in Segment, handle_fin_wait_1(seg), pc' = "flush",
           UNCHANGED close_initiated
    PROVE  SendInv'
<1>0. state = "FinWait1" /\ Together /\ CcSafe(cc) /\ SendTypeOK
      BY DEF handle_fin_wait_1, SendInv, CloseInv, CwndSafe, SendTypeOK, CcSafe, CcType
<1>1. CASE Reset(seg, "Closed")
      BY <1>0, <1>1, QuietStep DEF Reset, Moves, TcbState
<1>2. CASE UNCHANGED sendSide /\ state' \in {"FinWait1", "Closing"}
      BY <1>0, <1>2, QuietStep DEF Moves, TcbState
<1>3. CASE /\ Acceptable(seg)
           /\ snd' = acked(seg)
           /\ sb' = acknowledge(sb, seg.ack_num)
           /\ rq' = not_acked(rq, seg.ack_num)
           /\ UNCHANGED cc
           /\ state' \in IF seq_le(snd.nxt, seg.ack_num) THEN {"FinWait2", "TimeWait"}
                         ELSE {"FinWait1", "Closing"}
  <2>1. /\ 0 < wrapping_sub(seg.ack_num, sb.una)
        /\ \/ wrapping_sub(seg.ack_num, sb.una) <= send_inflight(sb)
           \/ seg.ack_num = snd.nxt /\ snd.nxt = wrapping_add(sb.nxt, 1)
        BY <1>0, <1>3, TogetherAck
  <2>2. CASE wrapping_sub(seg.ack_num, sb.una) <= send_inflight(sb)
    <3>1. state' \in {"FinWait1", "FinWait2", "Closing", "TimeWait"} /\ CcSafe(cc')
          BY <1>0, <1>3
    <3> QED
          BY <1>0, <1>3, <2>1, <2>2, <3>1, DataAckStep
  <2>3. CASE seg.ack_num = snd.nxt /\ snd.nxt = wrapping_add(sb.nxt, 1)
    <3>1. state' \in {"FinWait2", "TimeWait"}
          BY <1>3, <2>3 DEF seq_le
    <3> QED
          BY <1>0, <1>3, <2>3, <3>1, FinAckStep
  <2> QED
        BY <2>1, <2>2, <2>3
<1> QED
    BY <1>1, <1>2, <1>3 DEF handle_fin_wait_1, AcceptFin, NoFin

\* handle_closing and handle_last_ack.
LEMMA AckOfFinStep ==
    ASSUME SendInv, NEW seg \in Segment, handle_closing(seg) \/ handle_last_ack(seg),
           pc' = "flush", UNCHANGED close_initiated
    PROVE  SendInv'
<1>1. CASE UNCHANGED sendSide /\ state' \in {state, "Closed"}
      BY <1>1, QuietStep DEF Moves, SendInv, SendTypeOK, TcbState
<1>2. CASE /\ Acceptable(seg) /\ state \in {"Closing", "LastAck"}
           /\ snd' = [snd EXCEPT !.una = seg.ack_num] /\ UNCHANGED <<cc, sb, rq>>
           /\ state' \in {"TimeWait", "Closed"}
      BY <1>2, LateAckStep
<1> QED
    BY <1>1, <1>2 DEF handle_closing, handle_last_ack, AckOfFin, Ignore, Reset

\* process_segment in every state.
LEMMA InboundStep ==
    ASSUME SendInv, NEW seg \in Segment, Inbound(seg)
    PROVE  SendInv'
<1>0. pc' = "flush" /\ UNCHANGED close_initiated
      BY DEF Inbound
<1>1. CASE handle_close_wait(seg) \/ handle_fin_wait_2(seg) \/ handle_time_wait(seg)
  <2>1. UNCHANGED sendSide /\ Moves(state, state') /\ state' \in {state, "Closed", "TimeWait"}
        BY <1>1 DEF handle_close_wait, handle_fin_wait_2, handle_time_wait, Moves,
                    Reset, Ignore, AcceptFin, NoFin
  <2> QED
        BY <1>0, <2>1, QuietStep DEF SendInv, SendTypeOK, TcbState
<1> QED
    BY <1>0, <1>1, ListenStep, SynSentStep, SynReceivedStep, EstablishedStep, FinWait1Step,
       AckOfFinStep DEF Inbound, process_segment
-----------------------------------------------------------------------------
(* The invariant, and what follows from it.                                *)

\* A new connection, listening or about to connect, is fresh.
LEMMA InitSend == Init => SendInv
<1> SUFFICES ASSUME Init PROVE SendInv
      OBVIOUS
<1> USE HalfAssumption, SendBufSizeAssumption, ConnectionAssumption, InputAssumption
<1>1. PICK iss \in Iss : /\ snd = [una |-> iss, nxt |-> iss, wnd |-> MAX_WINDOW, iss |-> iss]
                         /\ sb = send_new(iss)
      BY DEF Init
<1>2. iss \in SeqNum /\ wrapping_add(iss, 1) \in SeqNum
      BY DEF wrapping_add, SeqNum, Modulus
<1>3. MAX_WINDOW \in 0 .. MAX_WINDOW
      BY RecvBufSizeAssumption
<1>4. SendTypeOK
  <2>1. sb \in SendBuf
        BY <1>1, <1>2 DEF send_new, SendBuf
  <2>2. snd \in [una : SeqNum, nxt : SeqNum, wnd : 0 .. MAX_WINDOW, iss : SeqNum]
        BY <1>1, <1>2, <1>3
  <2>3. cc \in [cwnd : 0 .. (Modulus - 1), ssthresh : 0 .. (Modulus - 1), dup : 0 .. DUP_MAX]
        BY DEF Init, Modulus
  <2> QED
        BY <2>1, <2>2, <2>3 DEF Init, SendTypeOK, TcbState
<1>5. Fresh
      BY <1>1 DEF Fresh, Init
<1>6. CwndSafe
      BY DEF Init, CwndSafe, Modulus
<1> QED
    BY <1>4, <1>5, <1>6 DEF Init, SendInv, HandshakeInv, CloseInv, QueueInv, SendStates

\* Every action of the task keeps the invariant.
LEMMA StepSend == SendInv /\ [Next]_vars => SendInv'
<1> SUFFICES ASSUME SendInv, [Next]_vars PROVE SendInv'
      OBVIOUS
<1>1. CASE Connect
  <2>1. snd' = [una |-> snd.una, nxt |-> wrapping_add(snd.iss, 1), wnd |-> snd.wnd,
                iss |-> snd.iss] /\ snd.wnd \in 0 .. MAX_WINDOW
        BY <1>1 DEF Connect, SendInv, SendTypeOK
  <2>2. Fresh
        BY <1>1 DEF Connect, SendInv, HandshakeInv
  <2> QED
        BY <1>1, <2>1, <2>2, SynStep DEF Connect
<1>2. ASSUME NEW seg \in Arrivals, Inbound(seg) PROVE SendInv'
      BY <1>2, InboundStep, InputAssumption
<1>3. CASE InboundGone \/ FlushDone \/ IdleTick
      BY <1>3, SameSendStep DEF InboundGone, FlushDone, IdleTick, Moves, SendInv, SendTypeOK
<1>4. CASE Flush
      BY <1>4, FlushStep
<1>5. ASSUME NEW E \in SUBSET rq, RetransmitTick(E) PROVE SendInv'
  <2>1. CcSafe(cc)
        BY DEF SendInv, CwndSafe, SendTypeOK, CcSafe, CcType
  <2>2. CcSafe(cc')
        BY <1>5, <2>1, CongestionSteps DEF RetransmitTick
  <2> QED
        BY <1>5, <2>2, StateStep DEF RetransmitTick, Moves, SendInv, SendTypeOK
<1>6. CASE ZwpTick
      BY <1>6, ProbeStep
<1>7. ASSUME NEW k \in 1 .. MaxWrite, AppWrite(k) PROVE SendInv'
      BY <1>7, WriteStep, ConnectionAssumption
<1>8. CASE Close
      BY <1>8, CloseStep
<1>9. CASE LoopEnd
      BY <1>9, SameSendStep DEF LoopEnd, Moves, TcbState, SendInv, SendTypeOK
<1>10. CASE UNCHANGED vars
      BY <1>10 DEF vars, SendInv, SendTypeOK, CwndSafe, HandshakeInv, CloseInv, QueueInv, Fresh,
                   Together, Ahead, Skipped, Done, send_inflight, end_of
<1> QED
    BY <1>1, <1>2, <1>3, <1>4, <1>5, <1>6, <1>7, <1>8, <1>9, <1>10 DEF Next

\* How far the two copies of SND.UNA and SND.NXT drift apart, in which state,
\* on every run: the inductive invariant that the theorems below rest on.
THEOREM SendInvariant == Spec => []SendInv
BY InitSend, StepSend, PTL DEF Spec

\* The distance from the TCB's SND.UNA to its SND.NXT in every state.
LEMMA FlightFromInv == SendInv => FlightBounded
<1> SUFFICES ASSUME SendInv PROVE flight <= SEND_BUF_SIZE + 1
      BY DEF FlightBounded
<1> USE HalfAssumption, SendBufSizeAssumption
<1>1. /\ snd.una \in SeqNum /\ snd.nxt \in SeqNum /\ snd.iss \in SeqNum
      /\ sb.una \in SeqNum /\ sb.nxt \in SeqNum /\ sb.len \in 0 .. SEND_BUF_SIZE
      /\ send_inflight(sb) \in SeqNum
      BY SendTypes DEF SendInv
<1>2. CASE Fresh
  <2>1. wrapping_sub(snd.iss, snd.iss) = 0
        BY <1>1, ZeroDistance
  <2>2. wrapping_sub(wrapping_add(snd.iss, 1), snd.iss) = 1
        BY <1>1, <2>1, AdvanceDistance DEF Modulus
  <2> QED
        BY <1>2, <2>1, <2>2 DEF Fresh, flight
<1>3. CASE Ahead
  <2>1. send_inflight(sb) <= SEND_BUF_SIZE
        BY <1>1, <1>3 DEF Ahead, SeqNum, Modulus
  <2>2. wrapping_sub(wrapping_add(sb.nxt, 1), sb.una) = send_inflight(sb) + 1
    <3>1. wrapping_sub(sb.nxt, sb.una) + 1 < Modulus
          BY <1>1, <2>1 DEF send_inflight, SeqNum, Modulus
    <3> QED
          BY <1>1, <3>1, AdvanceDistance DEF send_inflight
  <2>3. wrapping_sub(snd.nxt, sb.una) <= SEND_BUF_SIZE + 1
        BY <1>1, <1>3, <2>1, <2>2 DEF Ahead, send_inflight, SeqNum, Modulus
  <2>4. flight = wrapping_sub(snd.nxt, sb.una) - wrapping_sub(snd.una, sb.una)
        BY <1>1, <1>3, RebaseDistance DEF Ahead, flight
  <2>5. wrapping_sub(snd.una, sb.una) \in SeqNum /\ wrapping_sub(snd.nxt, sb.una) \in SeqNum
        BY <1>1, WrapType
  <2> QED
        BY <2>3, <2>4, <2>5 DEF SeqNum, Modulus
<1>4. CASE Skipped
  <2>1. flight = 0
        BY <1>1, <1>4, ZeroDistance DEF Skipped, flight
  <2> QED
        BY <2>1
<1>5. Together => Ahead
      BY TogetherAhead DEF SendInv
<1> QED
    BY <1>2, <1>3, <1>4, <1>5 DEF SendInv, SendTypeOK, TcbState, CloseInv, HandshakeInv, Done

\* What is queued for retransmission lies between SND.UNA and SND.NXT.
LEMMA QueueFromInv == SendInv => RetransmitInFlight
<1> SUFFICES ASSUME SendInv, state \in SendStates, NEW e \in rq
             PROVE  wrapping_sub(end_of(e), snd.una) \in 1 .. flight
      BY DEF RetransmitInFlight, SendStates, SendInv, SendTypeOK, TcbState, HandshakeInv, Fresh
<1> USE HalfAssumption, SendBufSizeAssumption
<1>1. /\ sb.una \in SeqNum /\ sb.nxt \in SeqNum /\ sb.len \in 0 .. SEND_BUF_SIZE
      /\ send_inflight(sb) \in SeqNum
      BY SendTypes DEF SendInv
<1>2. Together /\ wrapping_sub(end_of(e), sb.una) \in 1 .. send_inflight(sb)
      BY DEF SendInv, CloseInv, QueueInv, SendStates, Done
<1>3. wrapping_sub(wrapping_add(sb.nxt, 1), sb.una) = send_inflight(sb) + 1
  <2>1. wrapping_sub(sb.nxt, sb.una) + 1 < Modulus
        BY <1>1, <1>2 DEF Together, send_inflight, SeqNum, Modulus
  <2> QED
        BY <1>1, <2>1, AdvanceDistance DEF send_inflight
<1>4. flight \in {send_inflight(sb), send_inflight(sb) + 1}
      BY <1>2, <1>3 DEF Together, flight, send_inflight
<1> QED
    BY <1>1, <1>2, <1>4 DEF Together, SeqNum, Modulus

\* No counter of the sending half leaves its integer type.
THEOREM SendTypeCorrect == Spec => []SendTypeOK
BY SendInvariant, PTL DEF SendInv

\* While data is exchanged the copies of SND.UNA and SND.NXT agree and what is
\* in flight is held: zero-window probes, partial acknowledgements, a full
\* buffer and a wrap of the sequence space included.
THEOREM SendStaysAligned == Spec => []SendAligned
<1>1. SendInv => SendAligned
      BY DEF SendInv, CloseInv, Together, SendAligned
<1> QED
    BY <1>1, SendInvariant, PTL

\* ack_acceptable is only ever asked about numbers closer than half the
\* sequence space, in every state, the closing ones included.
THEOREM FlightStaysBounded == Spec => []FlightBounded
BY FlightFromInv, SendInvariant, PTL

\* Before TIME_WAIT, neither an acknowledged segment nor one never sent is
\* retransmitted, whatever was sent, lost or closed in between.
THEOREM RetransmitsInFlight == Spec => []RetransmitInFlight
BY QueueFromInv, SendInvariant, PTL

\* cwnd and ssthresh stay in range for every sequence of acknowledgements,
\* duplicates and timeouts.
THEOREM CwndStaysSafe == Spec => []CwndSafe
BY SendInvariant, PTL DEF SendInv

\* The handshake leaves SND and the send buffer exactly as a SYN requires.
THEOREM HandshakeStaysClean == Spec => []HandshakeClean
<1>1. SendInv => HandshakeClean
      BY DEF SendInv, HandshakeInv, HandshakeClean, Fresh
<1> QED
    BY <1>1, SendInvariant, PTL
-----------------------------------------------------------------------------
(* Nothing is left to send when the task waits.                            *)

\* segment_to_send is 0 exactly when the windows are full or all is sent.
Quiet == flight >= min(cc.cwnd, snd.wnd) \/ send_inflight(sb) >= sb.len

\* From the end of flush_send_buf to the next event.
IdleInv == pc \in {"select", "loop_end"} => Quiet

\* The types of what Quiet compares.
LEMMA WindowTypes ==
    ASSUME SendInv
    PROVE  /\ cc.cwnd \in Nat /\ cc.cwnd >= MSS /\ snd.wnd \in Nat /\ flight \in Nat
           /\ send_inflight(sb) \in Nat /\ sb.len \in Nat
           /\ MSS \in Nat /\ MSS >= 1
<1>1. /\ snd.una \in SeqNum /\ snd.nxt \in SeqNum /\ send_inflight(sb) \in SeqNum
      /\ sb.len \in 0 .. SEND_BUF_SIZE
      BY SendTypes DEF SendInv
<1>2. flight \in SeqNum
      BY <1>1, WrapType DEF flight
<1>3. cc.cwnd \in MSS .. (Modulus - 1) /\ snd.wnd \in 0 .. MAX_WINDOW
      BY DEF SendInv, CwndSafe, SendTypeOK
<1> QED
    BY <1>1, <1>2, <1>3, ConnectionAssumption, HalfAssumption, SendBufSizeAssumption,
       RecvBufSizeAssumption DEF SeqNum, Modulus

\* A segment carries at most MSS bytes, and none only if the task is quiet.
LEMMA QuietIsNothing ==
    ASSUME SendInv
    PROVE  segment_to_send \in 0 .. MSS /\ (segment_to_send = 0 => Quiet)
BY WindowTypes DEF segment_to_send, next_segment_len, min, Quiet, flight
-----------------------------------------------------------------------------
(* The receiving half.  The payload of a segment is abstracted to sequence  *)
(* numbers, so the receive buffer is one of SeqNum.                         *)

\* Between two steps the task has forwarded all that was received, and from
\* the peer's SYN to its FIN the TCB's RCV.NXT is the receive buffer's.
RecvInv ==
    /\ rcv \in [irs : SeqNum, nxt : SeqNum]
    /\ rb \in RecvBuf(SeqNum) /\ rb.buf = <<>>
    /\ out \subseteq Segment
    /\ state \in {"SynReceived", "Established"} => rcv.nxt = rb.nxt

\* The window advertised fits its 16 bits.
LEMMA WindowType ==
    ASSUME NEW r \in Fitting(SeqNum)
    PROVE  window(r) \in 0 .. MAX_WINDOW
<1>1. Len(r.buf) \in Nat /\ Len(r.buf) <= RECV_BUF_SIZE
      BY LenProperties DEF Fitting, RecvBuf
<1> QED
    BY <1>1, RecvBufSizeAssumption DEF window, min

\* An empty buffer fits, with room for a whole window.
LEMMA EmptyFits ==
    ASSUME NEW r \in RecvBuf(SeqNum), r.buf = <<>>
    PROVE  r \in Fitting(SeqNum)
BY RecvBufSizeAssumption DEF Fitting

\* Every segment the connection builds is a segment.
LEMMA BuiltSegments ==
    ASSUME NEW a \in SeqNum, NEW b \in SeqNum, NEW w \in 0 .. MAX_WINDOW
    PROVE  /\ build_syn(a) \in Segment /\ build_rst(a) \in Segment
           /\ build_syn_ack(a, b, w) \in Segment
           /\ build_ack(a, b, w) \in Segment
           /\ build_fin_ack(a, b, w) \in Segment
<1>1. 0 \in SeqNum /\ MAX_WINDOW \in 0 .. MAX_WINDOW
      BY HalfAssumption, RecvBufSizeAssumption DEF SeqNum, Modulus
<1> QED
    BY <1>1 DEF build_syn, build_rst, build_syn_ack, build_ack, build_fin_ack, Segment

\* So is every segment of data, first sent or sent again.
LEMMA DataSegments ==
    ASSUME RecvInv, NEW a \in SeqNum, NEW n \in 0 .. MSS
    PROVE  data_segment(a, n) \in Segment
<1>1. window(rb) \in 0 .. MAX_WINDOW /\ rcv.nxt \in SeqNum
      BY WindowType, EmptyFits DEF RecvInv
<1>2. n \in SeqNum
      BY HalfAssumption, ConnectionAssumption DEF SeqNum, Modulus
<1> QED
    BY <1>1, <1>2 DEF data_segment, Segment

\* The facts about the receiving half that the handlers use.
LEMMA RecvTypes ==
    ASSUME SendInv, RecvInv
    PROVE  /\ snd.una \in SeqNum /\ snd.nxt \in SeqNum /\ snd.iss \in SeqNum
           /\ rcv.irs \in SeqNum /\ rcv.nxt \in SeqNum
           /\ rcv = [irs |-> rcv.irs, nxt |-> rcv.nxt]
           /\ rb \in Fitting(SeqNum)
           /\ window(rb) \in 0 .. MAX_WINDOW
<1>1. rb \in Fitting(SeqNum)
      BY EmptyFits DEF RecvInv
<1>2. snd.una \in SeqNum /\ snd.nxt \in SeqNum /\ snd.iss \in SeqNum
      BY SendTypes DEF SendInv
<1> QED
    BY <1>1, <1>2, WindowType DEF RecvInv

\* A step that leaves the receiving half alone, and enters neither SYN_RECEIVED
\* nor ESTABLISHED.
LEMMA KeepRecv ==
    ASSUME RecvInv, UNCHANGED recvSide, out' \subseteq Segment,
           state' \in {"SynReceived", "Established"} => state \in {"SynReceived", "Established"}
    PROVE  RecvInv'
BY DEF RecvInv, recvSide

\* The peer's SYN, whatever the handler answers.
LEMMA SynchronizeStep ==
    ASSUME NEW seg \in Segment, Synchronize(seg)
    PROVE  /\ rcv' \in [irs : SeqNum, nxt : SeqNum]
           /\ rb' \in RecvBuf(SeqNum) /\ rb'.buf = <<>>
           /\ rcv'.nxt = rb'.nxt /\ rcv'.nxt \in SeqNum
           /\ window(rb') \in 0 .. MAX_WINDOW
<1>1. seg.seq \in SeqNum /\ wrapping_add(seg.seq, 1) \in SeqNum
  <2>1. seg.seq \in SeqNum /\ 1 \in SeqNum
        BY HalfAssumption DEF Segment, SeqNum, Modulus
  <2> QED
        BY <2>1, WrapType
<1>2. no_staging \in Staging(SeqNum)
  <2>1. {} \in SUBSET SeqNum /\ no_staging \in [{} -> Seq(SeqNum)]
        BY DEF no_staging
  <2> QED
        BY <2>1, StagingIntro
<1>3. rb' = [nxt |-> wrapping_add(seg.seq, 1), buf |-> <<>>, ooo |-> no_staging]
      BY DEF Synchronize, recv_new
<1>4. rb' \in RecvBuf(SeqNum) /\ rb'.buf = <<>> /\ rb'.nxt = wrapping_add(seg.seq, 1)
      BY <1>1, <1>2, <1>3 DEF RecvBuf
<1>5. window(rb') \in 0 .. MAX_WINDOW
      BY <1>4, EmptyFits, WindowType
<1> QED
    BY <1>1, <1>4, <1>5 DEF Synchronize

\* The payload of a segment, where the sequence numbers may wrap.
LEMMA PayloadType ==
    ASSUME NEW seg \in Segment
    PROVE  payload(seg) \in Seq(SeqNum) /\ Len(payload(seg)) = seg.len
<1>1. seg.seq \in SeqNum /\ seg.len \in SeqNum /\ seg.len \in Nat
      BY DEF Segment, SeqNum
<1>2. ASSUME NEW i \in 1 .. seg.len PROVE wrapping_add(seg.seq, i - 1) \in SeqNum
  <2>1. i - 1 \in SeqNum
        BY <1>1, HalfAssumption DEF SeqNum, Modulus
  <2> QED
        BY <1>1, <2>1, WrapType
<1>3. payload(seg) \in [1 .. seg.len -> SeqNum]
      BY <1>2 DEF payload
<1> QED
    BY <1>1, <1>3, SeqDef, LenProperties

\* Reading everything leaves an empty buffer and nothing else changed.
LEMMA ReadAll ==
    ASSUME NEW r \in RecvBuf(SeqNum)
    PROVE  /\ recv_read(r, Len(r.buf)) \in RecvBuf(SeqNum)
           /\ recv_read(r, Len(r.buf)).buf = <<>>
           /\ recv_read(r, Len(r.buf)).nxt = r.nxt
<1>1. r.buf \in Seq(SeqNum) /\ Len(r.buf) \in Nat
      BY LenProperties DEF RecvBuf
<1>2. SubSeq(r.buf, Len(r.buf) + 1, Len(r.buf)) = <<>>
      BY <1>1, SubSeqEmpty
<1>3. recv_read(r, Len(r.buf)) = [nxt |-> r.nxt, buf |-> <<>>, ooo |-> r.ooo]
      BY <1>2 DEF recv_read, RecvBuf
<1>4. <<>> \in Seq(SeqNum)
      BY EmptySeq
<1> QED
    BY <1>3, <1>4 DEF RecvBuf
-----------------------------------------------------------------------------
(* The receiving half, handler by handler.                                 *)

\* handle_listen, handle_syn_sent, handle_syn_received.
LEMMA HandshakeRecvStep ==
    ASSUME SendInv, RecvInv, NEW seg \in Segment,
           handle_listen(seg) \/ handle_syn_sent(seg) \/ handle_syn_received(seg)
    PROVE  RecvInv'
<1>1. seg.seq \in SeqNum /\ seg.ack_num \in SeqNum
      BY DEF Segment
<1>2. CASE Ignore \/ Reset(seg, "Closed") \/ Reset(seg, "Listen")
      BY <1>2, KeepRecv DEF Ignore, Reset
<1>3. CASE Refuse(seg)
  <2>1. build_rst(seg.ack_num) \in Segment
        BY <1>1, BuiltSegments, RecvTypes
  <2> QED
        BY <1>3, <2>1, KeepRecv DEF Refuse
<1>4. CASE /\ Synchronize(seg)
           /\ out' \in {{build_syn_ack(snd.iss, rcv'.nxt, window(rb'))},
                        {build_ack(snd.nxt, rcv'.nxt, window(rb'))}}
  <2>1. /\ rcv' \in [irs : SeqNum, nxt : SeqNum]
        /\ rb' \in RecvBuf(SeqNum) /\ rb'.buf = <<>>
        /\ rcv'.nxt = rb'.nxt /\ rcv'.nxt \in SeqNum
        /\ window(rb') \in 0 .. MAX_WINDOW
        BY <1>4, SynchronizeStep
  <2>2. out' \subseteq Segment
        BY <1>4, <2>1, BuiltSegments, RecvTypes
  <2> QED
        BY <2>1, <2>2 DEF RecvInv
<1>5. CASE /\ state = "SynReceived" /\ UNCHANGED recvSide
           /\ out' \in {{}, {build_syn_ack(snd.iss, rcv.nxt, window(rb))}}
  <2>1. build_syn_ack(snd.iss, rcv.nxt, window(rb)) \in Segment
        BY BuiltSegments, RecvTypes
  <2> QED
        BY <1>5, <2>1, KeepRecv
<1>6. CASE handle_listen(seg)
      BY <1>2, <1>3, <1>4, <1>6 DEF handle_listen
<1>7. CASE handle_syn_sent(seg)
      BY <1>2, <1>3, <1>4, <1>7 DEF handle_syn_sent
<1>8. CASE handle_syn_received(seg)
      BY <1>2, <1>3, <1>5, <1>8 DEF handle_syn_received
<1> QED
    BY <1>6, <1>7, <1>8

\* The payload and the FIN in ESTABLISHED: what is acknowledged is what the
\* buffer has taken in, a segment that is only staged or dropped included.
LEMMA AcceptTextStep ==
    ASSUME SendInv, RecvInv, NEW seg \in Segment, state = "Established", AcceptText(seg)
    PROVE  RecvInv'
<1> DEFINE filled == insert(rb, seg.seq, payload(seg))
           nxt    == IF Has(seg, "FIN") THEN wrapping_add(end_of(seg), 1)
                     ELSE IF seg.len > 0 THEN filled.nxt ELSE rcv.nxt
<1>1. seg.seq \in SeqNum /\ seg.len \in SeqNum
      BY DEF Segment
<1>2. rb \in Fitting(SeqNum) /\ rcv.nxt \in SeqNum /\ rcv.irs \in SeqNum /\ snd.nxt \in SeqNum
      BY RecvTypes
<1>3. filled \in Fitting(SeqNum) /\ (seg.len = 0 => filled = rb)
      BY <1>1, <1>2, InsertFits, PayloadType
<1>4. /\ rcv' = [rcv EXCEPT !.nxt = nxt]
      /\ rb' = recv_read(filled, Len(filled.buf))
      /\ state' = IF Has(seg, "FIN") THEN "CloseWait" ELSE "Established"
      /\ out' = IF Has(seg, "FIN") \/ seg.len > 0
                THEN {build_ack(snd.nxt, nxt, window(filled))} ELSE {}
      BY DEF AcceptText
<1> HIDE DEF filled
<1>5. filled \in RecvBuf(SeqNum) /\ filled.nxt \in SeqNum
      BY <1>3 DEF Fitting, RecvBuf
<1>6. wrapping_add(end_of(seg), 1) \in SeqNum
  <2>1. 1 \in SeqNum
        BY HalfAssumption DEF SeqNum, Modulus
  <2>2. end_of(seg) \in SeqNum
        BY <1>1, WrapType DEF end_of
  <2> QED
        BY <2>1, <2>2, WrapType
<1>7. nxt \in SeqNum
      BY <1>2, <1>5, <1>6
<1>8. rb' \in RecvBuf(SeqNum) /\ rb'.buf = <<>> /\ rb'.nxt = filled.nxt
      BY <1>4, <1>5, ReadAll
<1>9. state' = "Established" => nxt = filled.nxt
  <2>1. rcv.nxt = rb.nxt
        BY DEF RecvInv
  <2>2. seg.len > 0 \/ seg.len = 0
        BY <1>1, HalfAssumption DEF SeqNum, Modulus
  <2> QED
        BY <1>3, <1>4, <2>1, <2>2
<1> HIDE DEF nxt
<1>10. rcv' = [irs |-> rcv.irs, nxt |-> nxt]
      BY <1>4 DEF RecvInv
<1>11. out' \subseteq Segment
  <2>1. window(filled) \in 0 .. MAX_WINDOW
        BY <1>3, WindowType
  <2>2. build_ack(snd.nxt, nxt, window(filled)) \in Segment
        BY <1>2, <1>7, <2>1, BuiltSegments
  <2> QED
        BY <1>4, <2>2
<1>12. state' \in {"CloseWait", "Established"}
      BY <1>4
<1> QED
    BY <1>2, <1>7, <1>8, <1>9, <1>10, <1>11, <1>12 DEF RecvInv

\* The entry a fast retransmit sends again.
LEMMA FirstUnacked ==
    ASSUME SendInv, rq # {}
    PROVE  first_unacked(rq, snd.una) \in rq
<1> DEFINE d(e) == wrapping_sub(end_of(e), snd.una)
           T    == {d(e) : e \in rq}
<1>1. ASSUME NEW e \in rq PROVE d(e) \in Nat
  <2>1. e.seq \in SeqNum /\ e.len \in SeqNum /\ snd.una \in SeqNum
        BY HalfAssumption, ConnectionAssumption DEF SendInv, SendTypeOK, SeqNum, Modulus
  <2>2. end_of(e) \in SeqNum
        BY <2>1, WrapType DEF end_of
  <2>3. d(e) \in SeqNum
        BY <2>1, <2>2, WrapType
  <2> QED
        BY <2>3 DEF SeqNum
<1> HIDE DEF d
<1>2. T \in SUBSET Nat /\ T # {}
      BY <1>1
<1>3. PICK m \in T : \A k \in T : m <= k
      BY <1>2, LeastNat
<1>4. PICK e \in rq : m = d(e)
      OBVIOUS
<1>5. \A f \in rq : d(e) <= d(f)
      BY <1>3, <1>4
<1> QED
    BY <1>5 DEF first_unacked, d

\* handle_established: a fast retransmit leaves the receiving half alone.
LEMMA EstablishedRecvStep ==
    ASSUME SendInv, RecvInv, NEW seg \in Segment, handle_established(seg)
    PROVE  RecvInv'
<1>0. state = "Established"
      BY DEF handle_established
<1>1. CASE Reset(seg, "Closed")
      BY <1>1, KeepRecv DEF Reset
<1>2. CASE AcceptText(seg)
      BY <1>0, <1>2, AcceptTextStep
<1>3. CASE /\ FastRetransmit(seg)
           /\ LET e == first_unacked(rq, snd.una) IN out' = {data_segment(e.seq, e.len)}
           /\ UNCHANGED recvSide
  <2> DEFINE e == first_unacked(rq, snd.una)
  <2>1. e \in rq
        BY <1>3, FirstUnacked DEF FastRetransmit
  <2> HIDE DEF e
  <2>2. e.seq \in SeqNum /\ e.len \in 0 .. MSS
        BY <2>1, ConnectionAssumption DEF SendInv, SendTypeOK
  <2>3. data_segment(e.seq, e.len) \in Segment
        BY <2>2, DataSegments
  <2>4. out' \subseteq Segment
        BY <1>3, <2>3 DEF e
  <2> QED
        BY <1>0, <1>3, <2>4, KeepRecv
<1> QED
    BY <1>1, <1>2, <1>3 DEF handle_established

\* The closing states: a FIN is acknowledged, a RST or any other segment is not.
LEMMA ClosingRecvStep ==
    ASSUME SendInv, RecvInv, NEW seg \in Segment,
           \/ handle_close_wait(seg) \/ handle_fin_wait_1(seg) \/ handle_fin_wait_2(seg)
           \/ handle_closing(seg) \/ handle_last_ack(seg) \/ handle_time_wait(seg)
    PROVE  RecvInv'
<1> DEFINE Late == state' \notin {"SynReceived", "Established"}
<1>1. Late
      BY DEF handle_close_wait, handle_fin_wait_1, handle_fin_wait_2, handle_closing,
             handle_last_ack, handle_time_wait, AckOfFin, Reset, Ignore, AcceptFin, NoFin
<1>2. CASE UNCHANGED recvSide /\ out' = {}
      BY <1>1, <1>2, KeepRecv
<1>3. CASE UNCHANGED recvSide /\ out' = {build_ack(snd.nxt, rcv.nxt, window(rb))}
  <2>1. build_ack(snd.nxt, rcv.nxt, window(rb)) \in Segment
        BY RecvTypes, BuiltSegments
  <2> QED
        BY <1>1, <1>3, <2>1, KeepRecv
<1>4. CASE /\ rcv' = [rcv EXCEPT !.nxt = wrapping_add(end_of(seg), 1)]
           /\ out' = {build_ack(snd.nxt, rcv'.nxt, window(rb))}
           /\ UNCHANGED rb
  <2>1. seg.seq \in SeqNum /\ seg.len \in SeqNum /\ 1 \in SeqNum
        BY HalfAssumption DEF Segment, SeqNum, Modulus
  <2>2. end_of(seg) \in SeqNum
        BY <2>1, WrapType DEF end_of
  <2>3. wrapping_add(end_of(seg), 1) \in SeqNum
        BY <2>1, <2>2, WrapType
  <2>4. rcv' = [irs |-> rcv.irs, nxt |-> wrapping_add(end_of(seg), 1)] /\ rcv.irs \in SeqNum
        BY <1>4 DEF RecvInv
  <2>5. rcv' \in [irs : SeqNum, nxt : SeqNum] /\ rcv'.nxt \in SeqNum
        BY <2>3, <2>4
  <2>6. build_ack(snd.nxt, rcv'.nxt, window(rb)) \in Segment
        BY <2>5, RecvTypes, BuiltSegments
  <2> QED
        BY <1>1, <1>4, <2>5, <2>6 DEF RecvInv
<1>5. \/ UNCHANGED recvSide /\ out' = {}
      \/ UNCHANGED recvSide /\ out' = {build_ack(snd.nxt, rcv.nxt, window(rb))}
      \/ /\ rcv' = [rcv EXCEPT !.nxt = wrapping_add(end_of(seg), 1)]
         /\ out' = {build_ack(snd.nxt, rcv'.nxt, window(rb))}
         /\ UNCHANGED rb
      BY DEF handle_close_wait, handle_fin_wait_1, handle_fin_wait_2, handle_closing,
             handle_last_ack, handle_time_wait, AckOfFin, Reset, Ignore, AcceptFin, NoFin
<1> QED
    BY <1>2, <1>3, <1>4, <1>5

\* A listening or connecting socket has received nothing.
LEMMA InitRecv == Init => RecvInv
<1> SUFFICES ASSUME Init PROVE RecvInv
      OBVIOUS
<1>1. 0 \in SeqNum /\ 1 \in SeqNum
      BY HalfAssumption DEF SeqNum, Modulus
<1>2. wrapping_add(0, 1) \in SeqNum
      BY <1>1, WrapType
<1>3. no_staging \in Staging(SeqNum)
  <2>1. {} \in SUBSET SeqNum /\ no_staging \in [{} -> Seq(SeqNum)]
        BY DEF no_staging
  <2> QED
        BY <2>1, StagingIntro
<1>4. rb = [nxt |-> wrapping_add(0, 1), buf |-> <<>>, ooo |-> no_staging]
      BY DEF Init, recv_new
<1>5. rb \in RecvBuf(SeqNum) /\ rb.buf = <<>>
      BY <1>2, <1>3, <1>4 DEF RecvBuf
<1> QED
    BY <1>1, <1>5 DEF Init, RecvInv

\* Every action of the task keeps the receiving half consistent.
LEMMA StepRecv == SendInv /\ RecvInv /\ [Next]_vars => RecvInv'
<1> SUFFICES ASSUME SendInv, RecvInv, [Next]_vars PROVE RecvInv'
      OBVIOUS
<1>0. /\ snd.iss \in SeqNum /\ snd.nxt \in SeqNum /\ rcv.nxt \in SeqNum /\ sb.nxt \in SeqNum
      /\ window(rb) \in 0 .. MAX_WINDOW
      BY RecvTypes, SendTypes DEF SendInv
<1>1. CASE Connect
  <2>1. out' \subseteq Segment
        BY <1>0, <1>1, BuiltSegments DEF Connect
  <2> QED
        BY <1>1, <2>1, KeepRecv DEF Connect
<1>2. ASSUME NEW seg \in Arrivals, Inbound(seg) PROVE RecvInv'
  <2>1. seg \in Segment /\ process_segment(seg)
        BY <1>2, InputAssumption DEF Inbound
  <2> QED
        BY <2>1, HandshakeRecvStep, EstablishedRecvStep, ClosingRecvStep DEF process_segment
<1>3. CASE InboundGone \/ FlushDone \/ IdleTick
      BY <1>3, KeepRecv DEF InboundGone, FlushDone, IdleTick
<1>4. CASE Flush
  <2> DEFINE n == segment_to_send
  <2>1. n > 0 /\ out' = {data_segment(sb.nxt, n)} /\ UNCHANGED <<state, recvSide>>
        BY <1>4 DEF Flush
  <2>2. n \in 0 .. MSS
        BY QuietIsNothing
  <2> HIDE DEF n
  <2>3. data_segment(sb.nxt, n) \in Segment
        BY <1>0, <2>2, DataSegments
  <2> QED
        BY <2>1, <2>3, KeepRecv
<1>5. ASSUME NEW E \in SUBSET rq, RetransmitTick(E) PROVE RecvInv'
  <2>1. ASSUME NEW e \in E PROVE data_segment(e.seq, e.len) \in Segment
    <3>1. e.seq \in SeqNum /\ e.len \in 0 .. MSS
          BY ConnectionAssumption DEF SendInv, SendTypeOK
    <3> QED
          BY <3>1, DataSegments
  <2>2. out' \subseteq Segment
        BY <1>5, <2>1 DEF RetransmitTick
  <2> QED
        BY <1>5, <2>2, KeepRecv DEF RetransmitTick
<1>6. CASE ZwpTick
  <2>1. data_segment(sb.nxt, 1) \in Segment
        BY <1>0, ConnectionAssumption, DataSegments
  <2> QED
        BY <1>6, <2>1, KeepRecv DEF ZwpTick
<1>7. ASSUME NEW k \in 1 .. MaxWrite, AppWrite(k) PROVE RecvInv'
      BY <1>7, KeepRecv DEF AppWrite
<1>8. CASE Close
  <2>1. build_fin_ack(snd.nxt, rcv.nxt, window(rb)) \in Segment
        BY <1>0, BuiltSegments
  <2> QED
        BY <1>8, <2>1, KeepRecv DEF Close
<1>9. CASE LoopEnd
      BY <1>9, KeepRecv DEF LoopEnd
<1>10. CASE UNCHANGED vars
      BY <1>10, KeepRecv DEF vars, recvSide, RecvInv
<1> QED
    BY <1>1, <1>2, <1>3, <1>4, <1>5, <1>6, <1>7, <1>8, <1>9, <1>10 DEF Next
-----------------------------------------------------------------------------
(* The rest of the theorems.                                               *)

\* No event leaves the task waiting with something it may send: a timeout
\* shrinks cwnd, a probe needs a closed window, a FIN only adds to the flight,
\* and every other event is followed by a flush.
LEMMA StepIdle == SendInv /\ IdleInv /\ [Next]_vars => IdleInv'
<1> SUFFICES ASSUME SendInv, IdleInv, [Next]_vars, pc' \in {"select", "loop_end"} PROVE Quiet'
      BY DEF IdleInv
<1>0. /\ cc.cwnd \in Nat /\ cc.cwnd >= MSS /\ snd.wnd \in Nat /\ flight \in Nat
      /\ send_inflight(sb) \in Nat /\ sb.len \in Nat
      /\ MSS \in Nat /\ MSS >= 1
      BY WindowTypes
<1>1. CASE Connect
  <2>1. sb.len = 0 /\ sb' = sb
        BY <1>1 DEF Connect, SendInv, HandshakeInv, Fresh, send_new
  <2> QED
        BY <1>0, <2>1 DEF Quiet
<1>2. ASSUME NEW seg \in Arrivals, Inbound(seg) PROVE FALSE
      BY <1>2 DEF Inbound
<1>3. CASE InboundGone \/ Flush
      BY <1>3 DEF InboundGone, Flush
<1>4. CASE FlushDone
  <2>1. Quiet
        BY <1>4, QuietIsNothing DEF FlushDone
  <2> QED
        BY <1>4, <2>1 DEF FlushDone, Quiet, flight, sendSide
<1>5. ASSUME NEW E \in SUBSET rq, RetransmitTick(E) PROVE Quiet'
  <2>1. Quiet /\ cc'.cwnd = MSS /\ UNCHANGED <<snd, sb>>
        BY <1>5 DEF RetransmitTick, IdleInv, timeout
  <2> QED
        BY <1>0, <2>1 DEF Quiet, flight, min
<1>6. CASE ZwpTick
  <2>1. snd.wnd = 0 /\ snd'.wnd = 0 /\ cc' = cc
        BY <1>6 DEF ZwpTick, SendInv, SendTypeOK
  <2>2. flight' \in Nat
    <3>1. SendTypeOK'
          BY <1>6, ProbeStep DEF SendInv
    <3>2. snd'.nxt \in SeqNum /\ snd'.una \in SeqNum
          BY <3>1 DEF SendTypeOK
    <3>3. flight' \in SeqNum
          BY <3>2, WrapType DEF flight
    <3> QED
          BY <3>3 DEF SeqNum
  <2> QED
        BY <1>0, <2>1, <2>2 DEF Quiet, min
<1>7. CASE IdleTick \/ LoopEnd \/ UNCHANGED vars
  <2>1. Quiet /\ UNCHANGED sendSide
        BY <1>7 DEF IdleTick, LoopEnd, vars, IdleInv, sendSide
  <2> QED
        BY <2>1 DEF Quiet, flight, sendSide
<1>8. ASSUME NEW k \in 1 .. MaxWrite, AppWrite(k) PROVE FALSE
      BY <1>8 DEF AppWrite
<1>9. CASE Close
  <2>1. Quiet /\ UNCHANGED <<cc, sb>>
        BY <1>9 DEF Close, IdleInv
  <2>2. CASE UNCHANGED snd
        BY <2>1, <2>2 DEF Quiet, flight
  <2>3. CASE snd' = [snd EXCEPT !.nxt = wrapping_add(@, 1)]
    <3>1. snd.una \in SeqNum /\ snd.nxt \in SeqNum
          BY SendTypes DEF SendInv
    <3>2. snd'.una = snd.una /\ snd'.wnd = snd.wnd /\ snd'.nxt = wrapping_add(snd.nxt, 1)
          BY <2>3 DEF SendInv, SendTypeOK
    <3>3. flight + 1 < Modulus
          BY <1>0, FlightFromInv, SendBufSizeAssumption, HalfAssumption DEF FlightBounded, Modulus
    <3>4. flight' = flight + 1
          BY <3>1, <3>2, <3>3, AdvanceDistance DEF flight
    <3> QED
          BY <1>0, <2>1, <3>2, <3>4 DEF Quiet, min
  <2> QED
        BY <1>9, <2>2, <2>3 DEF Close
<1> QED
    BY <1>1, <1>2, <1>3, <1>4, <1>5, <1>6, <1>7, <1>8, <1>9 DEF Next

\* A new connection has nothing to send.
LEMMA InitIdle == Init => IdleInv
<1> SUFFICES ASSUME Init PROVE Quiet
      BY DEF IdleInv
<1>1. SendInv /\ sb.len = 0
      BY InitSend DEF Init, send_new
<1> QED
    BY <1>1, WindowTypes DEF Quiet

\* All three parts together, the invariant of the whole connection.
THEOREM ConnectionInvariant == Spec => [](SendInv /\ RecvInv /\ IdleInv)
<1> DEFINE Inv == SendInv /\ RecvInv /\ IdleInv
<1>1. Init => Inv
      BY InitSend, InitRecv, InitIdle
<1>2. Inv /\ [Next]_vars => Inv'
      BY StepSend, StepRecv, StepIdle
<1> QED
    BY <1>1, <1>2, PTL DEF Spec

\* No field of the TCB or of a segment sent leaves its integer type, and the
\* task never goes on with received data it has not forwarded.
THEOREM TypeCorrect == Spec => []TypeOK
<1>1. SendInv /\ RecvInv => TypeOK
  <2> SUFFICES ASSUME SendInv, RecvInv PROVE TypeOK
        OBVIOUS
  <2>1. rb.nxt \in SeqNum /\ DOMAIN rb.ooo \subseteq SeqNum
        BY StagingType DEF RecvInv, RecvBuf
  <2> QED
        BY <2>1 DEF SendInv, RecvInv, TypeOK, RecvTypeOK
<1> QED
    BY <1>1, ConnectionInvariant, PTL

\* In ESTABLISHED what the connection acknowledges is exactly what its receive
\* buffer took in, for every arrival order, overlap and wrap: a segment that is
\* staged, trimmed or dropped for want of room is never acknowledged too early.
THEOREM RcvStaysAligned == Spec => []RcvAligned
<1>1. RecvInv => RcvAligned
      BY DEF RecvInv, RcvAligned
<1> QED
    BY <1>1, ConnectionInvariant, PTL

\* The task never waits at its select! while the windows let it send.
THEOREM NeverIdle == Spec => []NoIdleWindow
<1>1. IdleInv => NoIdleWindow
      BY DEF IdleInv, NoIdleWindow, Quiet, segment_to_send, next_segment_len, flight
<1> QED
    BY <1>1, ConnectionInvariant, PTL
-----------------------------------------------------------------------------
(* Every byte in flight is in the retransmit queue.                        *)

\* Entry e of the retransmit queue holds the byte with sequence number s.
Covers(e, s) == wrapping_sub(s, e.seq) < e.len

\* An entry that holds the i-th byte of the flight ends after it, counted from
\* SND.UNA: no entry is long enough to wrap around to it.
LEMMA CoverEnd ==
    ASSUME NEW una \in SeqNum, NEW e \in [seq : SeqNum, len : 1 .. MSS],
           NEW i \in Nat, i < Half, wrapping_sub(end_of(e), una) < Half,
           Covers(e, wrapping_add(una, i))
    PROVE  i < wrapping_sub(end_of(e), una)
<1> USE HalfAssumption, ConnectionAssumption
<1>1. e.seq \in SeqNum /\ e.len \in Nat /\ e.len <= MSS /\ 3 * MSS <= Half /\ MSS \in Nat
      OBVIOUS
<1> DEFINE q == e.seq
           l == e.len
<1> HIDE DEF q, l
<1>2. ASSUME wrapping_sub(wrapping_add(q, l), una) < Half,
             wrapping_sub(wrapping_add(una, i), q) < l, q \in SeqNum, l \in Nat, 3 * l <= Half
      PROVE  i < wrapping_sub(wrapping_add(q, l), una)
      BY <1>2 DEF wrapping_add, wrapping_sub, SeqNum, Modulus
<1> QED
    BY <1>1, <1>2 DEF Covers, end_of, q, l

\* What acknowledgement a leaves in flight is held by entries that end after a,
\* which are the ones acknowledge_and_sample_rtt retains.
LEMMA CoverAck ==
    ASSUME NEW una \in SeqNum, NEW a \in SeqNum, NEW nxt \in SeqNum,
           NEW q, q \subseteq [seq : SeqNum, len : 1 .. MSS],
           wrapping_sub(nxt, una) < Half,
           wrapping_sub(a, una) <= wrapping_sub(nxt, una),
           \A e \in q : wrapping_sub(end_of(e), una) \in 1 .. wrapping_sub(nxt, una),
           \A i \in 0 .. (wrapping_sub(nxt, una) - 1) :
               \E e \in q : Covers(e, wrapping_add(una, i))
    PROVE  \A i \in 0 .. (wrapping_sub(nxt, a) - 1) :
               \E e \in not_acked(q, a) : Covers(e, wrapping_add(a, i))
<1> USE HalfAssumption
<1> SUFFICES ASSUME NEW i \in 0 .. (wrapping_sub(nxt, a) - 1)
             PROVE  \E e \in not_acked(q, a) : Covers(e, wrapping_add(a, i))
      OBVIOUS
<1> DEFINE d == wrapping_sub(a, una)
           f == wrapping_sub(nxt, una)
<1>1. d \in Nat /\ f \in Nat /\ i \in Nat
      BY WrapType DEF SeqNum, wrapping_sub, Modulus
<1>2. d + i < f
      BY <1>1, RebaseDistance
<1>3. wrapping_add(una, d + i) = wrapping_add(a, i)
  <2>1. i < Half /\ d + i < Half
        BY <1>1, <1>2
  <2> QED
        BY <1>1, <2>1 DEF d, wrapping_add, wrapping_sub, SeqNum, Modulus
<1>4. PICK e \in q : Covers(e, wrapping_add(una, d + i))
      BY <1>1, <1>2
<1>5. e \in [seq : SeqNum, len : 1 .. MSS] /\ end_of(e) \in SeqNum
  <2>1. e.seq \in SeqNum /\ e.len \in SeqNum
        BY ConnectionAssumption DEF SeqNum, Modulus
  <2> QED
        BY <2>1, WrapType DEF end_of
<1>6. wrapping_sub(end_of(e), una) < Half
      BY <1>1
<1>7. d + i < wrapping_sub(end_of(e), una)
      BY <1>1, <1>2, <1>4, <1>5, <1>6, CoverEnd
<1>8. ~ seq_le(end_of(e), a)
  <2>1. wrapping_sub(a, una) < Half
        BY <1>1
  <2>2. ~ (wrapping_sub(end_of(e), una) <= wrapping_sub(a, una))
        BY <1>1, <1>5, <1>7, WrapType DEF SeqNum
  <2> QED
        BY <1>5, <1>6, <2>1, <2>2, OrderIsDistance
<1> QED
    BY <1>3, <1>4, <1>8 DEF not_acked

\* The segment that leaves and is queued covers what it adds to the flight.
LEMMA CoverSend ==
    ASSUME NEW una \in SeqNum, NEW nxt \in SeqNum, NEW n \in Nat,
           wrapping_sub(nxt, una) + n < Half, NEW q,
           \A i \in 0 .. (wrapping_sub(nxt, una) - 1) :
               \E e \in q : Covers(e, wrapping_add(una, i))
    PROVE  \A i \in 0 .. (wrapping_sub(wrapping_add(nxt, n), una) - 1) :
               \E e \in q \cup {[seq |-> nxt, len |-> n]} : Covers(e, wrapping_add(una, i))
<1> USE HalfAssumption
<1> DEFINE f == wrapping_sub(nxt, una)
<1>1. f \in Nat /\ wrapping_sub(wrapping_add(nxt, n), una) = f + n
      BY AdvanceDistance, WrapType DEF SeqNum, Modulus
<1> SUFFICES ASSUME NEW i \in 0 .. (f + n - 1)
             PROVE  \E e \in q \cup {[seq |-> nxt, len |-> n]} : Covers(e, wrapping_add(una, i))
      BY <1>1
<1>2. CASE i < f
  <2>1. i \in 0 .. (f - 1)
        BY <1>1, <1>2
  <2> QED
        BY <2>1
<1>3. CASE ~ (i < f)
  <2>1. wrapping_sub(wrapping_add(una, i), nxt) = i - f
        BY <1>1, <1>3 DEF wrapping_add, wrapping_sub, SeqNum, Modulus
  <2>2. Covers([seq |-> nxt, len |-> n], wrapping_add(una, i))
        BY <1>1, <2>1 DEF Covers
  <2> QED
        BY <2>2
<1> QED
    BY <1>2, <1>3

\* FlightCovered in terms of Covers.
LEMMA CoveredFlight ==
    FlightCovered <=> (state = "Established" =>
                          \A i \in 0 .. (wrapping_sub(snd.nxt, snd.una) - 1) :
                              \E e \in rq : Covers(e, wrapping_add(snd.una, i)))
BY DEF FlightCovered, Covers, flight

\* What the task knows of the flight in ESTABLISHED.
LEMMA EstablishedFlight ==
    ASSUME SendInv, state = "Established"
    PROVE  /\ snd.una \in SeqNum /\ snd.nxt \in SeqNum /\ snd.nxt = sb.nxt /\ snd.una = sb.una
           /\ flight \in Nat /\ flight < Half
           /\ rq \subseteq [seq : SeqNum, len : 1 .. MSS]
           /\ \A e \in rq : wrapping_sub(end_of(e), snd.una) \in 1 .. flight
<1>1. snd.una \in SeqNum /\ snd.nxt \in SeqNum /\ snd.nxt = sb.nxt /\ snd.una = sb.una
      BY SendTypes DEF SendInv, CloseInv, Together
<1>2. flight \in Nat /\ flight < Half
      BY WindowTypes, FlightFromInv, SendBufSizeAssumption, HalfAssumption DEF FlightBounded
<1>3. RetransmitInFlight
      BY QueueFromInv
<1> QED
    BY <1>1, <1>2, <1>3 DEF RetransmitInFlight, SendInv, SendTypeOK

\* A step that leaves the flight and the queue alone keeps it covered.
LEMMA CoverSame ==
    ASSUME FlightCovered, UNCHANGED <<snd, rq>>, state' = "Established" => state = "Established"
    PROVE  FlightCovered'
BY DEF FlightCovered, flight

\* The segments that arrive never uncover a byte: an acknowledgement removes
\* the entries it covers to their end and no other.
LEMMA CoverInbound ==
    ASSUME SendInv, FlightCovered, NEW seg \in Segment, process_segment(seg)
    PROVE  FlightCovered'
<1> SUFFICES ASSUME state' = "Established" PROVE FlightCovered'
      BY CoveredFlight DEF FlightCovered
<1>1. CASE state \in {"SynSent", "SynReceived"} /\ Acceptable(seg) /\ snd' = acked(seg)
  <2>1. SendTypeOK /\ Fresh /\ snd.nxt = wrapping_add(snd.iss, 1)
        BY <1>1 DEF SendInv, HandshakeInv
  <2>2. seg.ack_num = snd.nxt /\ snd.nxt \in SeqNum
        BY <1>1, <2>1, SynAck, SendTypes
  <2>3. flight' = 0
        BY <1>1, <2>2, ZeroDistance DEF flight, acked
  <2> QED
        BY <2>3 DEF FlightCovered
<1>2. CASE state = "Established" /\ UNCHANGED <<snd, rq>>
      BY <1>2, CoverSame
<1>3. CASE /\ state = "Established" /\ Acceptable(seg) /\ snd' = acked(seg)
           /\ rq' = not_acked(rq, seg.ack_num)
  <2>1. /\ snd.una \in SeqNum /\ snd.nxt \in SeqNum /\ seg.ack_num \in SeqNum
        /\ wrapping_sub(snd.nxt, snd.una) < Half
        /\ rq \subseteq [seq : SeqNum, len : 1 .. MSS]
        /\ \A e \in rq : wrapping_sub(end_of(e), snd.una) \in 1 .. wrapping_sub(snd.nxt, snd.una)
        BY <1>3, EstablishedFlight DEF flight, Segment
  <2>2. wrapping_sub(seg.ack_num, snd.una) <= wrapping_sub(snd.nxt, snd.una)
        BY <1>3, <2>1, AckAcceptable DEF Acceptable
  <2>3. \A i \in 0 .. (wrapping_sub(snd.nxt, snd.una) - 1) :
            \E e \in rq : Covers(e, wrapping_add(snd.una, i))
        BY <1>3, CoveredFlight
  <2>4. \A i \in 0 .. (wrapping_sub(snd.nxt, seg.ack_num) - 1) :
            \E e \in not_acked(rq, seg.ack_num) : Covers(e, wrapping_add(seg.ack_num, i))
        BY <2>1, <2>2, <2>3, CoverAck
  <2>5. snd'.una = seg.ack_num /\ snd'.nxt = snd.nxt
        BY <1>3 DEF acked
  <2> QED
        BY <1>3, <2>4, <2>5 DEF FlightCovered, Covers, flight
<1>4. CASE handle_established(seg)
      BY <1>2, <1>3, <1>4 DEF handle_established, Reset, AcceptAck, sendSide
<1>5. CASE handle_syn_sent(seg) \/ handle_syn_received(seg)
      BY <1>1, <1>5 DEF handle_syn_sent, handle_syn_received, Reset, Ignore, Refuse
<1>6. ~ handle_listen(seg) /\ ~ handle_close_wait(seg) /\ ~ handle_time_wait(seg)
      BY DEF handle_listen, handle_close_wait, handle_time_wait, Ignore, Refuse, Reset
<1>7. ~ handle_fin_wait_1(seg) /\ ~ handle_fin_wait_2(seg)
      BY DEF handle_fin_wait_1, handle_fin_wait_2, Reset, AcceptFin, NoFin
<1>8. ~ handle_closing(seg) /\ ~ handle_last_ack(seg)
      BY DEF handle_closing, handle_last_ack, AckOfFin, Ignore, Reset
<1> QED
    BY <1>4, <1>5, <1>6, <1>7, <1>8 DEF process_segment

\* flush_send_buf covers what it sends, if the queue takes the segment.
LEMMA CoverFlush ==
    ASSUME SendInv, FlightCovered, Flush, Cardinality(rq) < RETRANSMIT_QUEUE_MAX
    PROVE  FlightCovered'
<1> SUFFICES ASSUME state' = "Established" PROVE FlightCovered'
      BY CoveredFlight DEF FlightCovered
<1> DEFINE n == segment_to_send
<1>1. state = "Established" /\ n > 0 /\ n \in Nat
      BY QuietIsNothing, ConnectionAssumption DEF Flush
<1>2. SendInv'
      BY FlushStep
<1>3. /\ snd.una \in SeqNum /\ snd.nxt \in SeqNum /\ sb.nxt = snd.nxt
      /\ flight \in Nat /\ flight < Half
      BY <1>1, EstablishedFlight
<1>4. /\ snd'.una = snd.una /\ snd'.nxt = wrapping_add(snd.nxt, n)
      /\ rq' = rq \cup {[seq |-> snd.nxt, len |-> n]}
  <2>1. sb'.nxt = wrapping_add(sb.nxt, n) /\ snd' = [snd EXCEPT !.nxt = sb'.nxt]
        BY DEF Flush, advance_nxt, SendInv, SendTypeOK, SendBuf
  <2>2. rq' = push(rq, sb.nxt, n)
        BY DEF Flush
  <2> QED
        BY <1>3, <2>1, <2>2 DEF push, SendInv, SendTypeOK
<1>5. wrapping_sub(snd.nxt, snd.una) + n < Half
  <2>1. n <= MSS /\ 3 * MSS <= Half /\ MSS \in Nat
        BY QuietIsNothing, ConnectionAssumption
  <2>2. send_inflight(sb) + n <= sb.len
        BY <1>1, WindowTypes DEF segment_to_send, next_segment_len, min
  <2>3. sb.len <= SEND_BUF_SIZE /\ sb.len \in Nat /\ send_inflight(sb) = wrapping_sub(snd.nxt, snd.una)
        BY <1>1, EstablishedFlight, SendTypes DEF SendInv, send_inflight
  <2> QED
        BY <1>1, <1>3, <2>2, <2>3, SendBufSizeAssumption, HalfAssumption DEF flight
<1>6. \A i \in 0 .. (wrapping_sub(snd.nxt, snd.una) - 1) :
          \E e \in rq : Covers(e, wrapping_add(snd.una, i))
      BY <1>1, CoveredFlight
<1> HIDE DEF n
<1>7. \A i \in 0 .. (wrapping_sub(wrapping_add(snd.nxt, n), snd.una) - 1) :
          \E e \in rq \cup {[seq |-> snd.nxt, len |-> n]} : Covers(e, wrapping_add(snd.una, i))
      BY <1>1, <1>3, <1>5, <1>6, CoverSend
<1> QED
    BY <1>4, <1>7 DEF FlightCovered, Covers, flight

\* Every other step keeps what is in flight in the queue.
LEMMA StepCovered == SendInv /\ [Next]_vars => CoverageLost
<1> SUFFICES ASSUME SendInv, [Next]_vars, FlightCovered,
                    ~ (Flush /\ ~ (Cardinality(rq) < RETRANSMIT_QUEUE_MAX)), ~ ZwpTick
             PROVE  FlightCovered'
      BY DEF CoverageLost
<1>1. CASE Flush
      BY <1>1, CoverFlush
<1>2. ASSUME NEW seg \in Arrivals, Inbound(seg) PROVE FlightCovered'
      BY <1>2, CoverInbound, InputAssumption DEF Inbound
<1>3. CASE Connect \/ Close
  <2>1. state' # "Established"
        BY <1>3 DEF Connect, Close
  <2> QED
        BY <2>1 DEF FlightCovered
<1>4. CASE InboundGone \/ FlushDone \/ IdleTick \/ LoopEnd \/ UNCHANGED vars
      BY <1>4, CoverSame DEF InboundGone, FlushDone, IdleTick, LoopEnd, vars, sendSide
<1>5. ASSUME NEW E \in SUBSET rq, RetransmitTick(E) PROVE FlightCovered'
      BY <1>5, CoverSame DEF RetransmitTick
<1>6. ASSUME NEW k \in 1 .. MaxWrite, AppWrite(k) PROVE FlightCovered'
      BY <1>6, CoverSame DEF AppWrite
<1> QED
    BY <1>1, <1>2, <1>3, <1>4, <1>5, <1>6 DEF Next

\* An established connection comes to have a byte in flight that is not in the
\* retransmit queue in two ways only: flush_send_buf sends a segment that push
\* has no room for, or zero_window_probe sends a byte, which it never queues.
\* No acknowledgement, in whatever order, partial or across the wrap, and no
\* timeout, fast retransmit or handshake step takes a byte out too early.
THEOREM CoverageLostOnlyBySending == Spec => CoverageKept
BY StepCovered, SendInvariant, PTL DEF Spec, CoverageKept

\* push has room for every segment sent, and the peer keeps its window open.
RoomToQueue ==
    /\ pc = "flush" /\ segment_to_send > 0 => Cardinality(rq) < RETRANSMIT_QUEUE_MAX
    /\ snd.wnd # 0

\* As long as neither happens every byte in flight can be retransmitted, for
\* every MSS, buffer size and sequence of arrivals.  128 entries are not room
\* for 65536 bytes in small segments, so room is a hypothesis on the run.
THEOREM FlightStaysCovered == Spec /\ []RoomToQueue => []FlightCovered
<1>1. Init => FlightCovered
      BY DEF Init, FlightCovered
<1>2. SendInv /\ RoomToQueue /\ FlightCovered /\ [Next]_vars => FlightCovered'
  <2> SUFFICES ASSUME SendInv, RoomToQueue, FlightCovered, [Next]_vars PROVE FlightCovered'
        OBVIOUS
  <2>1. ~ ZwpTick /\ ~ (Flush /\ ~ (Cardinality(rq) < RETRANSMIT_QUEUE_MAX))
        BY DEF RoomToQueue, ZwpTick, Flush
  <2> QED
        BY <2>1, StepCovered DEF CoverageLost
<1> QED
    BY <1>1, <1>2, SendInvariant, PTL DEF Spec
=============================================================================
