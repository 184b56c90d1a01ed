---------------------------- MODULE StreamProofs ----------------------------
(***************************************************************************)
(* The two byte streams of a connection.                                   *)
(*                                                                         *)
(* The ring of send_buffer.rs implements a byte FIFO, for every size of    *)
(* the ring and of the sequence space, every alignment of the ring index   *)
(* with the sequence numbers, and every sequence of writes, transmissions  *)
(* and acknowledgements.                                                   *)
(*                                                                         *)
(* The receive buffer puts the stream together, for every buffer size,     *)
(* window, initial sequence number, cut of the stream and order of         *)
(* arrival, and every stream shorter than the sequence space.              *)
(* StagedFaithful is not inductive: it would let a staged segment hold     *)
(* bytes of two laps.  The invariant says of every staged segment that it  *)
(* is a contiguous piece of the stream, filed under the sequence number of *)
(* its first byte; since positions below MaxStream have different sequence *)
(* numbers, the piece found at rb.nxt is the one that comes next.          *)
(***************************************************************************)
EXTENDS SendRing, Reassembly, Dispatch, BufferProofs

\* A function on 1 .. n is a sequence of length n.
LEMMA IsSequence ==
    ASSUME NEW S, NEW n \in Nat, NEW f \in [1 .. n -> S]
    PROVE  f \in Seq(S) /\ Len(f) = n
<1>1. f \in Seq(S)
      BY SeqDef
<1> QED
    BY <1>1, LenProperties
-----------------------------------------------------------------------------
(* Going round the ring.                                                   *)

\* Offsets up to a whole lap from an index are again indices.
LEMMA SlotType ==
    ASSUME NEW h \in Index, NEW i \in 0 .. N
    PROVE  slot(h + i) \in Index
BY SendBufSizeAssumption DEF slot, Index, N

\* Two offsets taken one after the other, a lap together at most.
LEMMA SlotCompose ==
    ASSUME NEW h \in Index, NEW i \in 0 .. N, NEW j \in 0 .. N, i + j <= N
    PROVE  slot(slot(h + i) + j) = slot(h + (i + j))
BY SendBufSizeAssumption DEF slot, Index, N

\* How far the place at offset i is from the one at offset l.
LEMMA SlotDistance ==
    ASSUME NEW h \in Index, NEW l \in 0 .. N, NEW i \in 0 .. (N - 1)
    PROVE  ring_dist(slot(h + l), slot(h + i)) = IF i >= l THEN i - l ELSE i - l + N
BY SendBufSizeAssumption DEF slot, ring_dist, Index, N
-----------------------------------------------------------------------------
(* The invariant.                                                          *)

\* RingTypeOK holds initially.
LEMMA RingInitOK == RingInit => RingTypeOK
<1> SUFFICES ASSUME RingInit PROVE RingTypeOK
    OBVIOUS
<1> USE HalfAssumption, SendBufSizeAssumption, SendRingAssumption
<1>1. PICK iss \in SeqNum : sb = send_new(iss)
      BY DEF RingInit
<1>2. wrapping_add(iss, 1) \in SeqNum
      BY DEF wrapping_add, SeqNum, Modulus
<1>3. sb \in SendBuf /\ send_inflight(sb) <= sb.len
      BY <1>1, <1>2, ZeroDistance DEF send_new, SendBuf, send_inflight
<1> QED
    BY <1>3 DEF RingInit, RingTypeOK, Index, N

\* What write makes of the counters: n bytes find room.
LEMMA WriteCounts ==
    ASSUME RingTypeOK, NEW k \in Nat
    PROVE  LET n == send_accepted(sb, k)
           IN  /\ n \in 0 .. k /\ sb.len + n \in 0 .. N
               /\ send_write(sb, k) = [una |-> sb.una, nxt |-> sb.nxt, len |-> sb.len + n]
               /\ send_write(sb, k) \in SendBuf
<1>1. sb \in SendBuf /\ sb.len \in 0 .. SEND_BUF_SIZE
      BY DEF RingTypeOK, SendBuf
<1>2. send_accepted(sb, k) \in 0 .. k /\ sb.len + send_accepted(sb, k) \in 0 .. N
      BY <1>1, SendBufSizeAssumption DEF send_accepted, min, N
<1>3. send_write(sb, k) = [una |-> sb.una, nxt |-> sb.nxt, len |-> sb.len + send_accepted(sb, k)]
      BY <1>1 DEF send_write, SendBuf
<1> QED
    BY <1>1, <1>2, <1>3 DEF SendBuf, N

\* An acceptable acknowledgement is of bytes in flight, as AcknowledgeSent
\* wants it.
LEMMA AckedInFlight ==
    ASSUME RingTypeOK, NEW ack \in SeqNum, ack_acceptable(sb.una, ack, sb.nxt)
    PROVE  LET n == newly_acked(sb, ack)
           IN  /\ n \in 1 .. send_inflight(sb)
               /\ n = wrapping_sub(ack, sb.una)
               /\ acknowledge(sb, ack) = [una |-> ack, nxt |-> sb.nxt, len |-> sb.len - n]
               /\ acknowledge(sb, ack) \in SendBuf
               /\ send_inflight(acknowledge(sb, ack)) = send_inflight(sb) - n
<1> USE HalfAssumption, SendBufSizeAssumption
<1>1. /\ sb \in SendBuf /\ sb.una \in SeqNum /\ sb.nxt \in SeqNum /\ sb.len \in 0 .. SEND_BUF_SIZE
      /\ send_inflight(sb) \in SeqNum /\ send_inflight(sb) <= sb.len
      BY SendBufDistance DEF RingTypeOK
<1>2. wrapping_sub(sb.nxt, sb.una) < Half
      BY <1>1 DEF send_inflight, SeqNum, Modulus
<1>3. 0 < wrapping_sub(ack, sb.una) /\ wrapping_sub(ack, sb.una) <= send_inflight(sb)
      BY <1>1, <1>2, AckAcceptable DEF send_inflight
<1>4. wrapping_sub(ack, sb.una) \in SeqNum
      BY <1>1, WrapType
<1>5. newly_acked(sb, ack) = wrapping_sub(ack, sb.una)
      BY <1>1, <1>3, <1>4 DEF newly_acked, SeqNum, Modulus
<1>6. newly_acked(sb, ack) \in 1 .. send_inflight(sb)
      BY <1>1, <1>3, <1>4, <1>5 DEF SeqNum, Modulus
<1>7. acknowledge(sb, ack) = [una |-> ack, nxt |-> sb.nxt, len |-> sb.len - newly_acked(sb, ack)]
      BY <1>1, <1>6 DEF acknowledge, SeqNum, Modulus
<1>8. /\ acknowledge(sb, ack) \in SendBuf
      /\ send_inflight(acknowledge(sb, ack)) = send_inflight(sb) - wrapping_sub(ack, sb.una)
      BY <1>1, <1>3, AcknowledgeSent
<1> QED
    BY <1>5, <1>6, <1>7, <1>8

\* Every operation keeps the ring well formed.
LEMMA RingStep == RingTypeOK /\ [RingNext]_ringVars => RingTypeOK'
<1> SUFFICES ASSUME RingTypeOK, [RingNext]_ringVars PROVE RingTypeOK'
    OBVIOUS
<1> USE SendBufSizeAssumption, SendRingAssumption DEF N
<1>0. /\ sb \in SendBuf /\ sb.len \in 0 .. N /\ head \in Index /\ buf \in [Index -> Byte]
      /\ send_inflight(sb) <= sb.len /\ send_inflight(sb) \in 0 .. N
      BY SendBufDistance, HalfAssumption DEF RingTypeOK, SendBuf, N, SeqNum, Modulus
<1>1. ASSUME NEW k \in 1 .. MaxWrite, NEW data \in [1 .. k -> Byte], Write(data)
      PROVE  RingTypeOK'
  <2> DEFINE n == send_accepted(sb, k)
             tail == slot(head + sb.len)
  <2>1. data \in Seq(Byte) /\ Len(data) = k
        BY IsSequence
  <2>2. n \in 0 .. k /\ sb' \in SendBuf /\ sb'.len = sb.len + n /\ sb'.una = sb.una /\ sb'.nxt = sb.nxt
    <3>1. k \in Nat /\ sb' = send_write(sb, k)
          BY <1>1, <2>1 DEF Write
    <3>2. /\ n \in 0 .. k /\ sb' \in SendBuf
          /\ sb' = [una |-> sb.una, nxt |-> sb.nxt, len |-> sb.len + n]
          BY <3>1, WriteCounts
    <3> QED
        BY <3>2
  <2>3. tail \in Index
        BY <1>0, SlotType
  <2>4. buf' \in [Index -> Byte]
    <3>1. ASSUME NEW j \in Index, ring_dist(tail, j) < n
          PROVE  data[ring_dist(tail, j) + 1] \in Byte
          BY <2>2, <2>3, <3>1 DEF ring_dist, Index, N
    <3> QED
        BY <1>0, <1>1, <2>1, <3>1 DEF Write
  <2>5. head' = head /\ send_inflight(sb') = send_inflight(sb)
        BY <1>1, <2>2 DEF Write, send_inflight
  <2> QED
        BY <1>0, <2>2, <2>4, <2>5 DEF RingTypeOK, N
<1>2. ASSUME NEW m \in 1 .. MaxPayload, Transmit(m)
      PROVE  RingTypeOK'
  <2> DEFINE n == next_segment_len(sb, m)
  <2>1. sb' = advance_nxt(sb, n) /\ n > 0 /\ UNCHANGED <<buf, head>>
        BY <1>2 DEF Transmit
  <2>2. /\ sb' \in SendBuf /\ send_inflight(sb') = send_inflight(sb) + n
        /\ send_inflight(sb) + n <= sb.len /\ sb'.len = sb.len
        BY <1>0, <2>1, TransmitCounts
  <2> QED
        BY <1>0, <2>1, <2>2 DEF RingTypeOK
<1>3. ASSUME NEW ack \in SeqNum, Acknowledge(ack)
      PROVE  RingTypeOK'
  <2> DEFINE n == newly_acked(sb, ack)
  <2>1. /\ n \in 1 .. send_inflight(sb) /\ sb' \in SendBuf
        /\ sb'.len = sb.len - n /\ send_inflight(sb') = send_inflight(sb) - n
        BY <1>3, AckedInFlight DEF Acknowledge
  <2>2. head' \in Index /\ buf' = buf
    <3>1. n \in 0 .. N
          BY <1>0, <2>1
    <3>2. slot(head + n) \in Index
          BY <1>0, <3>1, SlotType
    <3> QED
        BY <1>3, <3>2 DEF Acknowledge
  <2> QED
        BY <1>0, <2>1, <2>2 DEF RingTypeOK
<1>4. CASE UNCHANGED ringVars
      BY <1>4 DEF ringVars, RingTypeOK, send_inflight
<1> QED
    BY <1>1, <1>2, <1>3, <1>4 DEF RingNext

\* The ring stays well formed, and nothing counts as in flight that the buffer
\* does not hold: next_segment never refuses for ever to send what is held.
THEOREM RingTypeCorrect == RingSpec => []RingTypeOK
BY RingInitOK, RingStep, PTL DEF RingSpec
-----------------------------------------------------------------------------
(* The refinement, an operation at a time.                                 *)

\* The l bytes from index h on are a sequence of l bytes.
LEMMA RingContents ==
    ASSUME NEW b \in [Index -> Byte], NEW h \in Index, NEW l \in 0 .. N
    PROVE  LET r == [i \in 1 .. l |-> b[slot(h + i - 1)]]
           IN  /\ r \in Seq(Byte) /\ Len(r) = l
               /\ \A i \in 1 .. l : r[i] = b[slot(h + (i - 1))]
<1> DEFINE r == [i \in 1 .. l |-> b[slot(h + i - 1)]]
<1>1. \A i \in 1 .. l : slot(h + i - 1) \in Index /\ h + i - 1 = h + (i - 1)
      BY SendBufSizeAssumption DEF slot, Index, N
<1>2. r \in [1 .. l -> Byte] /\ \A i \in 1 .. l : r[i] = b[slot(h + (i - 1))]
      BY <1>1
<1>3. l \in Nat
      OBVIOUS
<1> HIDE DEF r
<1>4. r \in Seq(Byte) /\ Len(r) = l
      BY <1>2, <1>3, IsSequence
<1> QED
    BY <1>2, <1>4 DEF r

\* The bytes held are as many as the buffer counts.
LEMMA HeldType ==
    ASSUME RingTypeOK
    PROVE  /\ held \in Seq(Byte) /\ Len(held) = sb.len
           /\ \A i \in 1 .. sb.len : held[i] = buf[slot(head + (i - 1))]
BY RingContents DEF held, RingTypeOK, SendBuf, N

\* The initial states are those of the FIFO.
LEMMA FifoInitially ==
    ASSUME RingInit
    PROVE  Fifo!FifoInit
<1> USE HalfAssumption
<1>1. PICK iss \in SeqNum : sb = send_new(iss)
      BY DEF RingInit
<1>2. sb.una \in SeqNum /\ sb.nxt = sb.una /\ sb.len = 0
      BY <1>1 DEF send_new, wrapping_add, SeqNum, Modulus
<1>3. send_inflight(sb) = 0
      BY <1>2, ZeroDistance DEF send_inflight
<1>4. held = <<>>
  <2>1. held \in Seq(Byte) /\ Len(held) = 0
        BY <1>2, HeldType, RingInitOK
  <2> QED
        BY <2>1, EmptySeq
<1> QED
    BY <1>2, <1>3, <1>4 DEF RingInit, Fifo!FifoInit, Fifo!SeqNum, Fifo!Modulus, SeqNum, Modulus

\* write appends what finds room, or does nothing.
LEMMA WriteEnqueues ==
    ASSUME RingTypeOK, RingTypeOK', NEW k \in 1 .. MaxWrite, NEW data \in [1 .. k -> Byte], Write(data)
    PROVE  [Fifo!FifoNext]_(Fifo!fifoVars)
<1> USE SendBufSizeAssumption, SendRingAssumption DEF N
<1> DEFINE n == send_accepted(sb, k)
           tail == slot(head + sb.len)
           d == [i \in 1 .. n |-> data[i]]
<1>1. sb.len \in 0 .. N /\ head \in Index /\ buf \in [Index -> Byte]
      BY DEF RingTypeOK, SendBuf, N
<1>2. k \in Nat /\ data \in Seq(Byte) /\ Len(data) = k
      BY IsSequence
<1>3. sb' = send_write(sb, k) /\ head' = head /\ wire' = wire
      BY <1>2 DEF Write
<1>4. /\ n \in 0 .. k /\ sb.len + n \in 0 .. N
      /\ sb' = [una |-> sb.una, nxt |-> sb.nxt, len |-> sb.len + n]
      BY <1>2, <1>3, WriteCounts
<1>5. sb'.len = sb.len + n /\ sb'.una = sb.una /\ send_inflight(sb') = send_inflight(sb)
      BY <1>4 DEF send_inflight
<1>6. \A j \in Index : buf'[j] = IF ring_dist(tail, j) < n THEN data[ring_dist(tail, j) + 1] ELSE buf[j]
      BY <1>2 DEF Write
<1> HIDE DEF n, tail
<1>7. d \in [1 .. n -> Byte] /\ d \in Seq(Byte) /\ Len(d) = n
  <2>1. d \in [1 .. n -> Byte]
        BY <1>4
  <2> QED
        BY <1>4, <2>1, IsSequence
<1>8. held' = held \o d
  <2> HIDE DEF d
  <2>1. /\ held \in Seq(Byte) /\ Len(held) = sb.len
        /\ \A i \in 1 .. sb.len : held[i] = buf[slot(head + (i - 1))]
        BY HeldType
  <2>2. /\ held' \in Seq(Byte) /\ Len(held') = sb.len + n
        /\ \A i \in 1 .. (sb.len + n) : held'[i] = buf'[slot(head + (i - 1))]
    <3>1. /\ held' \in Seq(Byte) /\ Len(held') = sb'.len
          /\ \A i \in 1 .. sb'.len : held'[i] = buf'[slot(head' + (i - 1))]
          BY RingContents DEF held, RingTypeOK, SendBuf
    <3> QED
        BY <1>3, <1>5, <3>1
  <2>3. /\ held \o d \in Seq(Byte) /\ Len(held \o d) = sb.len + n
        /\ \A i \in 1 .. (sb.len + n) : (held \o d)[i] = IF i <= sb.len THEN held[i] ELSE d[i - sb.len]
    <3>1. /\ held \o d \in Seq(Byte) /\ Len(held \o d) = Len(held) + Len(d)
          /\ \A i \in 1 .. (Len(held) + Len(d)) :
                (held \o d)[i] = IF i <= Len(held) THEN held[i] ELSE d[i - Len(held)]
          BY <1>7, <2>1, ConcatProperties
    <3> QED
        BY <1>7, <2>1, <3>1
  <2>4. ASSUME NEW i \in 1 .. (sb.len + n)
        PROVE  held'[i] = (held \o d)[i]
    <3> DEFINE j == slot(head + (i - 1))
    <3>1. i - 1 \in 0 .. (N - 1) /\ j \in Index
          BY <1>1, <1>4, SlotType
    <3>2. ring_dist(tail, j) = IF i - 1 >= sb.len THEN i - 1 - sb.len ELSE i - 1 - sb.len + N
          BY <1>1, <3>1, SlotDistance DEF tail
    <3>3. CASE i <= sb.len
      <4>1. ~ (ring_dist(tail, j) < n)
            BY <1>1, <1>4, <3>2, <3>3
      <4>2. buf'[j] = buf[j]
            BY <1>6, <3>1, <4>1
      <4>3. (held \o d)[i] = held[i] /\ i \in 1 .. sb.len
            BY <1>1, <2>3, <3>3
      <4> QED
            BY <2>1, <2>2, <4>2, <4>3
    <3>4. CASE ~ (i <= sb.len)
      <4>1. ring_dist(tail, j) = i - 1 - sb.len /\ ring_dist(tail, j) < n
            BY <1>1, <1>4, <3>2, <3>4
      <4>2. ring_dist(tail, j) + 1 = i - sb.len /\ i - sb.len \in 1 .. n
            BY <1>1, <1>4, <3>4, <4>1
      <4>3. buf'[j] = data[i - sb.len]
            BY <1>6, <3>1, <4>1, <4>2
      <4>4. (held \o d)[i] = data[i - sb.len]
            BY <2>3, <3>4, <4>2 DEF d
      <4> QED
            BY <2>2, <4>3, <4>4
    <3> QED
          BY <3>3, <3>4
  <2> QED
        BY <2>2, <2>3, <2>4, SeqEqual
<1>9. CASE n = 0
  <2>1. held' = held
    <3>1. d = <<>>
          BY <1>7, <1>9, EmptySeq
    <3> QED
          BY <1>8, <3>1, HeldType, ConcatEmptySeq
  <2> QED
        BY <1>3, <1>5, <2>1 DEF Fifo!fifoVars
<1>10. CASE n # 0
  <2>1. n \in 1 .. (SEND_BUF_SIZE - Len(held))
        BY <1>1, <1>4, <1>10, HeldType DEF N
  <2>2. Fifo!Enqueue(d)
        BY <1>3, <1>5, <1>8 DEF Fifo!Enqueue
  <2> QED
        BY <1>7, <2>1, <2>2 DEF Fifo!FifoNext
<1> QED
    BY <1>9, <1>10

\* next_segment and advance_nxt emit the first bytes not yet transmitted.
LEMMA TransmitEmits ==
    ASSUME RingTypeOK, RingTypeOK', NEW m \in 1 .. MaxPayload, Transmit(m)
    PROVE  Fifo!FifoNext
<1> USE SendBufSizeAssumption, SendRingAssumption, HalfAssumption DEF N
<1> DEFINE n == next_segment_len(sb, m)
           f == send_inflight(sb)
           start == slot(head + f)
           data == [i \in 1 .. n |-> buf[slot(start + i - 1)]]
<1>1. /\ sb \in SendBuf /\ sb.una \in SeqNum /\ sb.nxt \in SeqNum /\ sb.len \in 0 .. N
      /\ f \in 0 .. N /\ f <= sb.len /\ head \in Index /\ buf \in [Index -> Byte]
      BY SendBufDistance DEF RingTypeOK, SeqNum, Modulus
<1>2. n > 0 /\ sb' = advance_nxt(sb, n) /\ wire' = [seq |-> sb.nxt, data |-> data] /\ UNCHANGED <<buf, head>>
      BY DEF Transmit
<1>3. /\ n \in Nat /\ n > 0 /\ f + n <= sb.len
      /\ sb' = [una |-> sb.una, nxt |-> wrapping_add(sb.nxt, n), len |-> sb.len]
      /\ send_inflight(sb') = f + n
      BY <1>1, <1>2, TransmitCounts
<1>4. held' = held /\ sb'.una = sb.una
      BY <1>2, <1>3 DEF held
<1>5. wrapping_add(sb.una, f) = sb.nxt
      BY <1>1 DEF send_inflight, wrapping_add, wrapping_sub, SeqNum, Modulus
<1> HIDE DEF n, f
<1>6. data = SubSeq(held, f + 1, f + n)
  <2>1. start \in Index /\ n \in 0 .. N
        BY <1>1, <1>3, SlotType
  <2>2. /\ held \in Seq(Byte) /\ Len(held) = sb.len
        /\ \A i \in 1 .. sb.len : held[i] = buf[slot(head + (i - 1))]
        BY HeldType
  <2>3. /\ data \in Seq(Byte) /\ Len(data) = n
        /\ \A i \in 1 .. n : data[i] = buf[slot(start + (i - 1))]
    <3> HIDE DEF start
    <3> QED
        BY <1>1, <2>1, RingContents
  <2> HIDE DEF data
  <2>4. /\ SubSeq(held, f + 1, f + n) \in Seq(Byte) /\ Len(SubSeq(held, f + 1, f + n)) = n
        /\ \A i \in 1 .. n : SubSeq(held, f + 1, f + n)[i] = held[f + i]
    <3>1. f + 1 \in Int /\ f + n \in Int /\ f + 1 <= f + n /\ (f + n) - (f + 1) + 1 = n
          BY <1>1, <1>3
    <3>2. \A i \in (f + 1) .. (f + n) : held[i] \in Byte
          BY <1>1, <1>3, <2>2
    <3>3. /\ SubSeq(held, f + 1, f + n) \in Seq(Byte) /\ Len(SubSeq(held, f + 1, f + n)) = n
          /\ \A i \in 1 .. n : SubSeq(held, f + 1, f + n)[i] = held[(f + 1) + i - 1]
          BY <3>1, <3>2, SubSeqProperties
    <3>4. \A i \in 1 .. n : (f + 1) + i - 1 = f + i
          BY <1>1, <1>3
    <3> QED
        BY <3>3, <3>4
  <2>5. ASSUME NEW i \in 1 .. n
        PROVE  data[i] = SubSeq(held, f + 1, f + n)[i]
    <3>1. slot(start + (i - 1)) = slot(head + (f + (i - 1)))
      <4>1. i - 1 \in 0 .. N /\ f + (i - 1) <= N
            BY <1>1, <1>3
      <4> QED
            BY <1>1, <4>1, SlotCompose
    <3>2. f + i \in 1 .. sb.len /\ (f + i) - 1 = f + (i - 1)
          BY <1>1, <1>3
    <3> QED
          BY <2>2, <2>3, <2>4, <3>1, <3>2
  <2> QED
        BY <2>3, <2>4, <2>5, SeqEqual
<1>7. Fifo!Emit(n)
  <2>1. Fifo!wrapping_add(sb.una, f) = sb.nxt
        BY <1>5 DEF Fifo!wrapping_add, Fifo!Modulus, wrapping_add, Modulus
  <2> HIDE DEF data
  <2> QED
        BY <1>2, <1>3, <1>4, <1>6, <2>1, HeldType DEF Fifo!Emit, f
<1>8. n \in 1 .. SEND_BUF_SIZE
      BY <1>1, <1>3
<1> QED
    BY <1>7, <1>8 DEF Fifo!FifoNext

\* acknowledge releases exactly the acknowledged prefix.
LEMMA AcknowledgeReleases ==
    ASSUME RingTypeOK, RingTypeOK', NEW ack \in SeqNum, Acknowledge(ack)
    PROVE  Fifo!FifoNext
<1> USE SendBufSizeAssumption, SendRingAssumption, HalfAssumption DEF N
<1> DEFINE n == newly_acked(sb, ack)
           f == send_inflight(sb)
<1>1. /\ sb \in SendBuf /\ sb.una \in SeqNum /\ sb.nxt \in SeqNum /\ sb.len \in 0 .. N
      /\ f \in 0 .. N /\ f <= sb.len /\ head \in Index /\ buf \in [Index -> Byte]
      BY SendBufDistance DEF RingTypeOK, SeqNum, Modulus
<1>2. head' = slot(head + n) /\ sb' = acknowledge(sb, ack) /\ UNCHANGED <<buf, wire>>
      BY DEF Acknowledge
<1>3. /\ n \in 1 .. f /\ n = wrapping_sub(ack, sb.una)
      /\ sb' = [una |-> ack, nxt |-> sb.nxt, len |-> sb.len - n]
      /\ send_inflight(sb') = f - n
      BY <1>2, AckedInFlight DEF Acknowledge
<1>4. sb'.una = ack /\ sb'.len = sb.len - n
      BY <1>3
<1>5. wrapping_add(sb.una, n) = ack
      BY <1>1, <1>3 DEF wrapping_add, wrapping_sub, SeqNum, Modulus
<1> HIDE DEF n, f
<1>6. held' = SubSeq(held, n + 1, Len(held))
  <2>1. /\ held \in Seq(Byte) /\ Len(held) = sb.len
        /\ \A i \in 1 .. sb.len : held[i] = buf[slot(head + (i - 1))]
        BY HeldType
  <2>2. n \in 0 .. N /\ n <= sb.len /\ sb.len - n \in 0 .. N
        BY <1>1, <1>3
  <2>3. head' \in Index /\ buf' = buf
        BY <1>1, <1>2, <2>2, SlotType
  <2>4. /\ held' \in Seq(Byte) /\ Len(held') = sb.len - n
        /\ \A i \in 1 .. (sb.len - n) : held'[i] = buf[slot(head' + (i - 1))]
    <3>1. /\ held' \in Seq(Byte) /\ Len(held') = sb'.len
          /\ \A i \in 1 .. sb'.len : held'[i] = buf'[slot(head' + (i - 1))]
          BY RingContents DEF held, RingTypeOK, SendBuf
    <3> QED
        BY <1>2, <1>4, <3>1
  <2> DEFINE t == SubSeq(held, n + 1, sb.len)
  <2>5. /\ t \in Seq(Byte) /\ Len(t) = sb.len - n
        /\ \A i \in 1 .. (sb.len - n) : t[i] = held[n + i]
    <3>1. n + 1 \in Int /\ sb.len \in Int /\ sb.len - (n + 1) + 1 = sb.len - n
          BY <2>2, <1>1
    <3>2. \A i \in (n + 1) .. sb.len : held[i] \in Byte
          BY <2>1, <2>2
    <3>3. /\ t \in Seq(Byte) /\ Len(t) = IF n + 1 <= sb.len THEN sb.len - n ELSE 0
          /\ \A i \in 1 .. (sb.len - n) : t[i] = held[(n + 1) + i - 1]
          BY <3>1, <3>2, SubSeqProperties
    <3>4. \A i \in 1 .. (sb.len - n) : (n + 1) + i - 1 = n + i
          BY <1>1, <2>2
    <3>5. (IF n + 1 <= sb.len THEN sb.len - n ELSE 0) = sb.len - n
          BY <1>1, <2>2
    <3> HIDE DEF t
    <3> QED
        BY <3>3, <3>4, <3>5
  <2> HIDE DEF t
  <2>6. ASSUME NEW i \in 1 .. (sb.len - n)
        PROVE  held'[i] = t[i]
    <3>1. slot(head' + (i - 1)) = slot(head + (n + (i - 1)))
      <4>1. i - 1 \in 0 .. N /\ n + (i - 1) <= N
            BY <1>1, <2>2
      <4> QED
            BY <1>1, <1>2, <2>2, <4>1, SlotCompose
    <3>2. n + i \in 1 .. sb.len /\ (n + i) - 1 = n + (i - 1)
          BY <1>1, <2>2
    <3> QED
          BY <2>1, <2>4, <2>5, <3>1, <3>2
  <2> QED
        BY <2>1, <2>4, <2>5, <2>6, SeqEqual DEF t
<1>7. Fifo!Release(n)
  <2>1. Fifo!wrapping_add(sb.una, n) = ack
        BY <1>5 DEF Fifo!wrapping_add, Fifo!Modulus, wrapping_add, Modulus
  <2> QED
        BY <1>1, <1>2, <1>3, <1>4, <1>6, <2>1 DEF Fifo!Release, f
<1>8. n \in 1 .. SEND_BUF_SIZE
      BY <1>1, <1>3
<1> QED
    BY <1>7, <1>8 DEF Fifo!FifoNext

\* SendBuffer implements the byte FIFO: every segment next_segment hands out
\* carries exactly the bytes written for its sequence numbers, and acknowledge
\* releases exactly the acknowledged prefix, whatever the size of the ring and
\* however its index and the sequence numbers wrap.
THEOREM RingImplementsFifo == RingSpec => ImplementsFifo
<1>1. RingInit => Fifo!FifoInit
      BY FifoInitially
<1>2. RingTypeOK /\ RingTypeOK' /\ [RingNext]_ringVars => [Fifo!FifoNext]_(Fifo!fifoVars)
  <2> SUFFICES ASSUME RingTypeOK, RingTypeOK', [RingNext]_ringVars
               PROVE  [Fifo!FifoNext]_(Fifo!fifoVars)
      OBVIOUS
  <2>1. CASE \E k \in 1 .. MaxWrite : \E data \in [1 .. k -> Byte] : Write(data)
        BY <2>1, WriteEnqueues
  <2>2. CASE \E max_len \in 1 .. MaxPayload : Transmit(max_len)
        BY <2>2, TransmitEmits
  <2>3. CASE \E ack \in SeqNum : Acknowledge(ack)
        BY <2>3, AcknowledgeReleases
  <2>4. CASE UNCHANGED ringVars
        BY <2>4 DEF ringVars, Fifo!fifoVars, held, send_inflight
  <2> QED
        BY <2>1, <2>2, <2>3, <2>4 DEF RingNext
<1> QED
    BY <1>1, <1>2, RingTypeCorrect, PTL DEF RingSpec, ImplementsFifo, Fifo!FifoSpec
-----------------------------------------------------------------------------
(* The receive buffer.                                                     *)

\* The sequence number of byte p of the stream that starts after x.
At(x, p) == wrapping_add(x, 1 + p)

\* d holds the bytes of the stream from p on.
Piece(d, p) == p + Len(d) <= MaxStream /\ \A i \in 1 .. Len(d) : d[i] = p + i - 1

\* The buffer holds the bytes from position g on, in order, and nxt is the
\* sequence number of the byte that follows them.
Holds(x, g, r) ==
    /\ Len(r.buf) <= RECV_BUF_SIZE
    /\ Piece(r.buf, g)
    /\ r.nxt = At(x, g + Len(r.buf))

\* Every staged segment is a piece of the stream at the place it is filed under.
Staged(x, r) ==
    \A k \in DOMAIN r.ooo :
        /\ Len(r.ooo[k]) \in 1 .. MaxSegment
        /\ \E p \in 0 .. MaxStream : k = At(x, p) /\ Piece(r.ooo[k], p)

Good(x, g) == {r \in RecvBuf(Nat) : Holds(x, g, r) /\ Staged(x, r)}

Inv == irs \in SeqNum /\ got \in 0 .. MaxStream /\ rb \in Good(irs, got)
-----------------------------------------------------------------------------
(* Positions and their sequence numbers.                                   *)

\* A position has a sequence number of its own.
LEMMA AtProperties ==
    ASSUME NEW x \in SeqNum, NEW p \in 0 .. MaxStream
    PROVE  /\ At(x, p) \in SeqNum
           /\ \A q \in 0 .. MaxStream : At(x, p) = At(x, q) => p = q
BY HalfAssumption, ReassemblyAssumption DEF At, wrapping_add, SeqNum, Modulus

\* Advancing a sequence number advances the position.
LEMMA AtAdvance ==
    ASSUME NEW x \in SeqNum, NEW p \in Nat, NEW n \in Nat, p + n <= MaxStream
    PROVE  wrapping_add(At(x, p), n) = At(x, p + n)
BY HalfAssumption, ReassemblyAssumption DEF At, wrapping_add, SeqNum, Modulus

\* The part of a segment from p that lies before nxt is found right, however
\* the two lie around the wrap, within half the sequence space.
LEMMA PastIs ==
    ASSUME NEW x \in SeqNum, NEW a \in 0 .. MaxStream, NEW p \in 0 .. MaxStream,
           NEW r, r.nxt = At(x, a), a - p < Half, p - a < Half
    PROVE  past(r, At(x, p)) = IF p < a THEN a - p ELSE 0
<1> USE HalfAssumption, ReassemblyAssumption
<1>1. CASE p < a
  <2>1. wrapping_sub(At(x, a), At(x, p)) = a - p /\ At(x, a) # At(x, p)
        BY <1>1 DEF At, wrapping_add, wrapping_sub, SeqNum, Modulus
  <2> QED
        BY <1>1, <2>1 DEF past, seq_lt
<1>2. CASE p = a
  <2>1. ~ seq_lt(At(x, p), At(x, a))
        BY <1>2 DEF seq_lt
  <2> QED
        BY <1>2, <2>1 DEF past
<1>3. CASE p > a
  <2>1. ~ (wrapping_sub(At(x, a), At(x, p)) < Half)
        BY <1>3 DEF At, wrapping_add, wrapping_sub, SeqNum, Modulus
  <2> QED
        BY <1>3, <2>1 DEF past, seq_lt
<1> QED
    BY <1>1, <1>2, <1>3
-----------------------------------------------------------------------------
(* The operations.                                                         *)

\* The numbers in a good buffer, in the form the steps below need.
LEMMA GoodTypes ==
    ASSUME NEW x \in SeqNum, NEW g \in Nat, NEW r \in Good(x, g)
    PROVE  /\ r \in RecvBuf(Nat) /\ r.buf \in Seq(Nat) /\ r.nxt \in SeqNum /\ r.ooo \in Staging(Nat)
           /\ Len(r.buf) \in Nat /\ Len(r.buf) <= RECV_BUF_SIZE
           /\ g + Len(r.buf) \in 0 .. MaxStream
           /\ \A i \in 1 .. Len(r.buf) : r.buf[i] = g + i - 1
           /\ r.nxt = At(x, g + Len(r.buf))
           /\ Staged(x, r)
<1>1. r \in RecvBuf(Nat) /\ r.buf \in Seq(Nat) /\ r.nxt \in SeqNum /\ r.ooo \in Staging(Nat)
      BY DEF Good, RecvBuf
<1>2. Len(r.buf) \in Nat
      BY <1>1
<1> QED
    BY <1>1, <1>2, ReassemblyAssumption DEF Good, Holds, Piece

\* Committing the bytes that come next, with any part of the staging map left.
LEMMA CommitGood ==
    ASSUME NEW x \in SeqNum, NEW g \in Nat, NEW r \in Good(x, g), NEW data \in Seq(Nat),
           Piece(data, g + Len(r.buf))
    PROVE  commit(r, data) \in Good(x, g)
<1> USE ReassemblyAssumption, RecvBufSizeAssumption
<1> DEFINE l == Len(r.buf)
           n == min(Len(data), RECV_BUF_SIZE - Len(r.buf))
           c == commit(r, data)
<1>1. /\ r \in RecvBuf(Nat) /\ l \in Nat /\ l <= RECV_BUF_SIZE
      /\ \A i \in 1 .. l : r.buf[i] = g + i - 1
      /\ r.nxt = At(x, g + l)
      /\ Staged(x, r)
      BY GoodTypes
<1>2. Len(data) \in Nat /\ g + l + Len(data) <= MaxStream
      /\ \A i \in 1 .. Len(data) : data[i] = g + l + i - 1
      BY DEF Piece
<1>3. /\ n \in Nat /\ n <= Len(data)
      /\ c \in RecvBuf(Nat)
      /\ c.nxt = wrapping_add(r.nxt, n)
      /\ c.ooo = r.ooo
      /\ Len(c.buf) = l + n
      /\ l + n <= RECV_BUF_SIZE
      /\ \A i \in 1 .. l : c.buf[i] = r.buf[i]
      /\ \A i \in 1 .. n : c.buf[l + i] = data[i]
      BY <1>1, CommitProperties
<1> HIDE DEF l, n, c
<1>4. g + l + n <= MaxStream /\ c.nxt = At(x, g + l + n)
  <2>1. g + l + n <= MaxStream /\ g + l \in Nat
        BY <1>1, <1>2, <1>3
  <2> QED
        BY <1>1, <1>3, <2>1, AtAdvance
<1>5. \A i \in 1 .. (l + n) : c.buf[i] = g + i - 1
  <2> TAKE i \in 1 .. (l + n)
  <2>1. CASE i <= l
        BY <1>1, <1>3, <2>1
  <2>2. CASE i > l
    <3>0. l \in Nat /\ n \in Nat /\ Len(data) \in Nat /\ n <= Len(data)
          BY <1>1, <1>2, <1>3
    <3>1. i - l \in 1 .. n /\ i - l \in 1 .. Len(data) /\ i = l + (i - l)
          BY <2>2, <3>0
    <3>2. c.buf[i] = data[i - l]
          BY <1>3, <3>1
    <3>3. data[i - l] = g + l + (i - l) - 1
          BY <1>2, <3>1
    <3> QED
          BY <1>1, <3>2, <3>3
  <2> QED
        BY <1>1, <2>1, <2>2
<1>6. Holds(x, g, c)
  <2>1. g + (l + n) = g + l + n
        BY <1>1, <1>3
  <2> QED
        BY <1>3, <1>4, <1>5, <2>1 DEF Holds, Piece
<1>7. Staged(x, c)
      BY <1>1, <1>3 DEF Staged
<1> QED
    BY <1>3, <1>6, <1>7 DEF Good, c

\* Forgetting a staged segment does no harm.
LEMMA UnstageGood ==
    ASSUME NEW x \in SeqNum, NEW g \in Nat, NEW r \in Good(x, g), NEW k
    PROVE  unstage(r, k) \in Good(x, g)
<1> DEFINE u == unstage(r, k)
<1>1. r \in RecvBuf(Nat) /\ Holds(x, g, r) /\ Staged(x, r)
      BY DEF Good
<1>2. /\ u \in RecvBuf(Nat) /\ u.nxt = r.nxt /\ u.buf = r.buf
      /\ DOMAIN u.ooo = DOMAIN r.ooo \ {k}
      /\ \A j \in DOMAIN r.ooo \ {k} : u.ooo[j] = r.ooo[j]
      BY <1>1, UnstageProperties
<1> HIDE DEF u
<1>3. Holds(x, g, u)
      BY <1>1, <1>2 DEF Holds
<1>4. Staged(x, u)
      BY <1>1, <1>2 DEF Staged
<1> QED
    BY <1>2, <1>3, <1>4 DEF Good, u

\* The segment staged at nxt is the one that comes next.
LEMMA DrainStepGood ==
    ASSUME NEW x \in SeqNum, NEW g \in Nat, NEW r \in Good(x, g)
    PROVE  drain_step(r) \in Good(x, g)
<1>1. CASE DOMAIN r.ooo # {} /\ first_key(r.ooo) = r.nxt
  <2> DEFINE u == unstage(r, r.nxt)
             d == r.ooo[r.nxt]
  <2>1. r.nxt \in DOMAIN r.ooo
    <3>1. /\ r.ooo \in Staging(Nat) /\ DOMAIN r.ooo \in SUBSET Nat
      <4>1. r.ooo \in Staging(Nat)
            BY GoodTypes
      <4> QED
            BY <4>1, StagingType, HalfAssumption DEF SeqNum, Modulus
    <3>2. \E k \in DOMAIN r.ooo : \A j \in DOMAIN r.ooo : k <= j
          BY <1>1, <3>1, LeastNat
    <3> QED
          BY <1>1, <3>2 DEF first_key
  <2>2. PICK p \in 0 .. MaxStream : r.nxt = At(x, p) /\ Piece(d, p)
        BY <2>1, GoodTypes DEF Staged
  <2>3. p = g + Len(r.buf)
    <3>1. g + Len(r.buf) \in 0 .. MaxStream /\ r.nxt = At(x, g + Len(r.buf))
          BY GoodTypes
    <3> QED
          BY <2>2, <3>1, AtProperties
  <2>4. u \in Good(x, g)
        BY UnstageGood
  <2>5. u.buf = r.buf
        BY UnstageProperties, GoodTypes
  <2>6. d \in Seq(Nat)
        BY <2>1, GoodTypes, StagingType
  <2>7. drain_step(r) = commit(u, d)
        BY <1>1 DEF drain_step
  <2> HIDE DEF u, d
  <2> QED
        BY <2>2, <2>3, <2>4, <2>5, <2>6, <2>7, CommitGood
<1>2. CASE ~ (DOMAIN r.ooo # {} /\ first_key(r.ooo) = r.nxt)
      BY <1>2 DEF drain_step
<1> QED
    BY <1>1, <1>2

\* The whole loop.
LEMMA DrainGood ==
    ASSUME NEW x \in SeqNum, NEW g \in Nat, NEW r \in Good(x, g)
    PROVE  drain_ooo(r) \in Good(x, g)
<1> DEFINE D == Good(x, g)
<1>1. IsFiniteSet(DOMAIN r.ooo)
      BY GoodTypes, StagingType
<1>2. \A q \in D : drain_step(q) \in D
      BY DrainStepGood
<1> HIDE DEF D
<1> QED
    BY <1>1, <1>2, DrainKeeps DEF D

\* A piece of the stream is staged where it belongs.
LEMMA StageGood ==
    ASSUME NEW x \in SeqNum, NEW g \in Nat, NEW r \in Good(x, g), NEW p \in 0 .. MaxStream,
           NEW data \in Seq(Nat), Piece(data, p), Len(data) \in 1 .. MaxSegment
    PROVE  stage(r, At(x, p), data) \in Good(x, g)
<1> DEFINE k == At(x, p)
           s == stage(r, k, data)
<1>1. r \in RecvBuf(Nat) /\ Holds(x, g, r) /\ Staged(x, r)
      BY DEF Good
<1>2. k \in SeqNum
      BY AtProperties
<1>3. /\ s \in RecvBuf(Nat) /\ s.nxt = r.nxt /\ s.buf = r.buf
      /\ DOMAIN s.ooo = DOMAIN r.ooo \cup {k}
      /\ \A j \in DOMAIN r.ooo : s.ooo[j] = r.ooo[j]
      /\ k \notin DOMAIN r.ooo => s.ooo[k] = data
  <2> HIDE DEF k
  <2> QED
      BY <1>1, <1>2, StageProperties
<1>4. Holds(x, g, s)
  <2> HIDE DEF s
  <2> QED
      BY <1>1, <1>3 DEF Holds
<1>5. Staged(x, s)
  <2> HIDE DEF s
  <2> SUFFICES ASSUME NEW j \in DOMAIN s.ooo
               PROVE  /\ Len(s.ooo[j]) \in 1 .. MaxSegment
                      /\ \E q \in 0 .. MaxStream : j = At(x, q) /\ Piece(s.ooo[j], q)
      BY DEF Staged
  <2>1. CASE j \in DOMAIN r.ooo
        BY <1>1, <1>3, <2>1 DEF Staged
  <2>2. CASE j \notin DOMAIN r.ooo
    <3>1. j = k /\ s.ooo[j] = data
          BY <1>3, <2>2
    <3> QED
          BY <3>1
  <2> QED
        BY <2>1, <2>2
<1> QED
    BY <1>3, <1>4, <1>5 DEF Good

\* insert, on a piece of the stream that starts within half the sequence space
\* of what is expected.
LEMMA InsertGood ==
    ASSUME NEW x \in SeqNum, NEW g \in Nat, NEW r \in Good(x, g), NEW p \in 0 .. MaxStream,
           NEW data \in Seq(Nat), Piece(data, p), Len(data) \in 1 .. MaxSegment,
           (g + Len(r.buf)) - p < Half, p - (g + Len(r.buf)) < Half
    PROVE  insert(r, At(x, p), data) \in Good(x, g)
<1> USE ReassemblyAssumption, HalfAssumption
<1> DEFINE a == g + Len(r.buf)
           t == past(r, At(x, p))
           e == wrapping_add(At(x, p), t)
           d == SubSeq(data, t + 1, Len(data))
<1>0. a \in 0 .. MaxStream /\ r.nxt = At(x, a)
      BY GoodTypes
<1>1. t = IF p < a THEN a - p ELSE 0
  <2> HIDE DEF a
  <2>1. a - p < Half /\ p - a < Half
        BY DEF a
  <2> QED
        BY <1>0, <2>1, PastIs
<1>2. t \in Nat /\ p + t >= a
      BY <1>0, <1>1
<1>3. insert(r, At(x, p), data) =
          IF t >= Len(data) THEN r
          ELSE IF e = r.nxt THEN drain_ooo(commit(r, d)) ELSE stage(r, e, d)
      BY DEF insert
<1> HIDE DEF a, t, e, d
<1>4. CASE t >= Len(data)
      BY <1>3, <1>4
<1>5. CASE ~ t >= Len(data)
  <2> DEFINE q == p + t
  <2>1. Len(data) \in Nat /\ p + Len(data) <= MaxStream /\ t < Len(data)
        BY <1>2, <1>5 DEF Piece
  <2>2. q \in 0 .. MaxStream
        BY <1>2, <2>1
  <2>3. e = At(x, q)
        BY <1>2, <2>1, <2>2, AtAdvance DEF e
  <2>4. d \in Seq(Nat) /\ Len(d) = Len(data) - t
        /\ \A i \in 1 .. (Len(data) - t) : d[i] = data[t + i]
    <3>1. /\ d \in Seq(Nat) /\ Len(d) = Len(data) - (t + 1) + 1
          /\ \A i \in 1 .. (Len(data) - (t + 1) + 1) : d[i] = data[(t + 1) + i - 1]
          BY <1>2, <2>1, SubSeqProperties DEF d
    <3>2. Len(data) - (t + 1) + 1 = Len(data) - t /\ \A i \in Int : (t + 1) + i - 1 = t + i
          BY <1>2, <2>1
    <3>3. ASSUME NEW i \in 1 .. (Len(data) - t) PROVE d[i] = data[t + i]
      <4>1. i \in 1 .. (Len(data) - (t + 1) + 1) /\ (t + 1) + i - 1 = t + i
            BY <3>2
      <4> QED
            BY <3>1, <4>1
    <3> QED
          BY <3>1, <3>2, <3>3
  <2>5. Len(d) \in 1 .. MaxSegment /\ Piece(d, q)
    <3>1. ASSUME NEW i \in 1 .. Len(d)
          PROVE  t + i \in 1 .. Len(data) /\ d[i] = data[t + i]
      <4>1. i \in 1 .. (Len(data) - t)
            BY <2>4
      <4>2. d[i] = data[t + i]
            BY <2>4, <4>1
      <4>3. t + i \in 1 .. Len(data)
            BY <1>2, <2>1, <4>1
      <4> QED
            BY <4>2, <4>3
    <3>2. \A i \in 1 .. Len(d) : d[i] = p + (t + i) - 1
          BY <3>1 DEF Piece
    <3>3. \A i \in 1 .. Len(d) : p + (t + i) - 1 = q + i - 1
          BY <1>2, <2>4
    <3>4. Len(d) \in 1 .. MaxSegment /\ q + Len(d) <= MaxStream
          BY <1>2, <2>1, <2>4
    <3> QED
          BY <3>2, <3>3, <3>4 DEF Piece
  <2> HIDE DEF q
  <2>6. CASE e = r.nxt
    <3>1. q = a
          BY <1>0, <2>2, <2>3, <2>6, AtProperties
    <3>2. commit(r, d) \in Good(x, g)
          BY <2>4, <2>5, <3>1, CommitGood DEF a
    <3>3. drain_ooo(commit(r, d)) \in Good(x, g)
          BY <3>2, DrainGood
    <3> QED
          BY <1>3, <1>5, <2>6, <3>3
  <2>7. CASE e # r.nxt
    <3>1. stage(r, e, d) \in Good(x, g)
          BY <2>2, <2>3, <2>4, <2>5, StageGood
    <3> QED
          BY <1>3, <1>5, <2>7, <3>1
  <2> QED
        BY <2>6, <2>7
<1> QED
    BY <1>4, <1>5
\* Reading moves the position the buffer starts at.
LEMMA ReadGood ==
    ASSUME NEW x \in SeqNum, NEW g \in Nat, NEW r \in Good(x, g), NEW n \in 1 .. Len(r.buf)
    PROVE  recv_read(r, n) \in Good(x, g + n) /\ g + n \in 0 .. MaxStream
<1> USE ReassemblyAssumption, RecvBufSizeAssumption
<1> DEFINE l == Len(r.buf)
           b == SubSeq(r.buf, n + 1, l)
           q == [nxt |-> r.nxt, buf |-> b, ooo |-> r.ooo]
<1>1. /\ r \in RecvBuf(Nat) /\ r.buf \in Seq(Nat) /\ r.nxt \in SeqNum /\ r.ooo \in Staging(Nat)
      /\ l \in Nat /\ l <= RECV_BUF_SIZE /\ g + l \in 0 .. MaxStream
      /\ \A i \in 1 .. l : r.buf[i] = g + i - 1
      /\ r.nxt = At(x, g + l)
      /\ Staged(x, r)
      BY GoodTypes
<1>2. recv_read(r, n) = q
  <2>1. recv_read(r, n) = [r EXCEPT !.buf = b]
        BY DEF recv_read
  <2>2. r = [nxt |-> r.nxt, buf |-> r.buf, ooo |-> r.ooo]
        BY <1>1 DEF RecvBuf
  <2> HIDE DEF b
  <2> QED
        BY <2>1, <2>2
<1> HIDE DEF l
<1>3. /\ b \in Seq(Nat) /\ Len(b) = l - (n + 1) + 1
      /\ \A i \in 1 .. (l - (n + 1) + 1) : b[i] = r.buf[(n + 1) + i - 1]
  <2> DEFINE m == n + 1
  <2>1. m \in Int /\ l \in Int /\ m <= l + 1 /\ m >= 1
        BY <1>1 DEF l
  <2> HIDE DEF m
  <2>2. ASSUME NEW i \in m .. l PROVE r.buf[i] \in Nat
    <3>1. i \in 1 .. l
          BY <2>1
    <3> QED
          BY <1>1, <3>1 DEF l
  <2>3. /\ SubSeq(r.buf, m, l) \in Seq(Nat)
        /\ Len(SubSeq(r.buf, m, l)) = IF m <= l THEN l - m + 1 ELSE 0
        /\ \A i \in 1 .. (l - m + 1) : SubSeq(r.buf, m, l)[i] = r.buf[m + i - 1]
        BY <2>1, <2>2, SubSeqProperties
  <2>4. (IF m <= l THEN l - m + 1 ELSE 0) = l - m + 1
        BY <2>1
  <2> QED
        BY <2>3, <2>4 DEF m
<1>4. l - (n + 1) + 1 = l - n /\ n \in 1 .. l
      BY <1>1 DEF l
<1> HIDE DEF b
<1>5. ASSUME NEW i \in 1 .. (l - n) PROVE b[i] = (g + n) + i - 1
  <2>1. (n + 1) + i - 1 = n + i /\ n + i \in 1 .. l
        BY <1>1, <1>4
  <2>2. b[i] = r.buf[n + i]
        BY <1>3, <1>4, <2>1
  <2>3. r.buf[n + i] = g + (n + i) - 1
        BY <1>1, <2>1
  <2> QED
        BY <1>1, <1>4, <2>2, <2>3
<1>6. (g + n) + (l - n) = g + l /\ g + n \in 0 .. MaxStream /\ l - n <= RECV_BUF_SIZE
      BY <1>1, <1>4
<1>7. Holds(x, g + n, q)
  <2>1. q.buf = b /\ q.nxt = r.nxt /\ Len(b) = l - n
        BY <1>3, <1>4
  <2> HIDE DEF q
  <2>2. (g + n) + Len(q.buf) = g + l /\ g + l <= MaxStream /\ Len(q.buf) <= RECV_BUF_SIZE
        BY <1>1, <1>6, <2>1
  <2>3. q.nxt = At(x, (g + n) + Len(q.buf))
        BY <1>1, <2>1, <2>2
  <2>4. Piece(q.buf, g + n)
        BY <1>5, <2>1, <2>2 DEF Piece
  <2> QED
        BY <2>2, <2>3, <2>4 DEF Holds
<1>8. Staged(x, q)
      BY <1>1 DEF Staged
<1>9. q \in RecvBuf(Nat)
      BY <1>1, <1>3 DEF RecvBuf
<1> QED
    BY <1>2, <1>6, <1>7, <1>8, <1>9 DEF Good
-----------------------------------------------------------------------------
(* The invariant.                                                          *)

\* Nothing has arrived at first.
LEMMA InitInv == Init => Inv
<1> USE HalfAssumption, ReassemblyAssumption, RecvBufSizeAssumption
<1> SUFFICES ASSUME Init PROVE Inv
    OBVIOUS
<1> DEFINE r == recv_new(irs)
<1>1. irs \in SeqNum /\ got = 0 /\ rb = r
      BY DEF Init
<1>2. no_staging \in Staging(Nat) /\ DOMAIN no_staging = {}
  <2>1. {} \in SUBSET SeqNum /\ no_staging \in [{} -> Seq(Nat)]
        BY DEF no_staging
  <2> QED
        BY <2>1, StagingIntro DEF no_staging
<1>3. r = [nxt |-> wrapping_add(irs, 1), buf |-> <<>>, ooo |-> no_staging]
      BY DEF recv_new
<1>4. wrapping_add(irs, 1) \in SeqNum
      BY <1>1 DEF wrapping_add, SeqNum, Modulus
<1>5. r \in RecvBuf(Nat)
      BY <1>2, <1>3, <1>4 DEF RecvBuf
<1>6. Holds(irs, 0, r)
  <2>1. Len(r.buf) = 0 /\ r.nxt = wrapping_add(irs, 1)
        BY <1>3
  <2> HIDE DEF r
  <2> QED
        BY <2>1 DEF Holds, Piece, At
<1>7. Staged(irs, r)
      BY <1>2, <1>3 DEF Staged
<1> QED
    BY <1>1, <1>5, <1>6, <1>7 DEF Inv, Good

\* A segment of the stream arrives, not far beyond the window and not too old.
LEMMA ArriveInv ==
    ASSUME Inv, NEW p \in 0 .. MaxStream, NEW n \in 1 .. MaxSegment, Arrive(p, n)
    PROVE  Inv'
<1> USE HalfAssumption, ReassemblyAssumption, RecvBufSizeAssumption
<1> DEFINE data == [i \in 1 .. n |-> p + i - 1]
           a == got + Len(rb.buf)
<1>1. irs \in SeqNum /\ got \in Nat /\ got \in 0 .. MaxStream /\ rb \in Good(irs, got)
      BY DEF Inv
<1>2. Len(rb.buf) \in Nat /\ Len(rb.buf) <= RECV_BUF_SIZE
      BY <1>1, GoodTypes
<1>3. data \in Seq(Nat) /\ Len(data) = n /\ \A i \in 1 .. n : data[i] = p + i - 1
  <2>1. data \in [1 .. n -> Nat] /\ n \in Nat
        OBVIOUS
  <2>2. \A i \in 1 .. n : data[i] = p + i - 1
        OBVIOUS
  <2> HIDE DEF data
  <2>3. data \in Seq(Nat) /\ Len(data) = n
        BY <2>1, LenProperties, SeqDef
  <2> QED
        BY <2>2, <2>3
<1> HIDE DEF data
<1>4. a - p < Half /\ p - a < Half
  <2>1. window(rb) \in Nat /\ window(rb) <= RECV_BUF_SIZE
        BY <1>2 DEF window, min
  <2>2. p + n <= a + window(rb) + MaxBeyond /\ a - p <= MaxAge
        BY DEF Arrive, accepted
  <2>3. a \in Nat
        BY <1>1, <1>2
  <2> HIDE DEF a
  <2> QED
        BY <2>1, <2>2, <2>3, MaxBeyondAssumption
<1>5. Piece(data, p) /\ Len(data) \in 1 .. MaxSegment
      BY <1>3 DEF Piece, Arrive
<1>6. insert(rb, At(irs, p), data) \in Good(irs, got)
      BY <1>1, <1>3, <1>4, <1>5, InsertGood
<1>7. rb' = insert(rb, At(irs, p), data) /\ irs' = irs /\ got' = got
      BY DEF Arrive, seq_of, At, data
<1> QED
    BY <1>1, <1>6, <1>7 DEF Inv

\* The application reads.
LEMMA ReadInv ==
    ASSUME Inv, NEW n \in 1 .. RECV_BUF_SIZE, Read(n)
    PROVE  Inv'
<1> USE ReassemblyAssumption, RecvBufSizeAssumption
<1>1. irs \in SeqNum /\ got \in Nat /\ rb \in Good(irs, got)
      BY DEF Inv
<1>2. n \in 1 .. Len(rb.buf)
  <2>1. Len(rb.buf) \in Nat
        BY <1>1, GoodTypes
  <2> QED
        BY <2>1 DEF Read
<1>3. recv_read(rb, n) \in Good(irs, got + n) /\ got + n \in 0 .. MaxStream
      BY <1>1, <1>2, ReadGood
<1> QED
    BY <1>1, <1>3 DEF Inv, Read

\* Every arrival and every read keeps the pieces.
LEMMA StepInv == Inv /\ [Next]_vars => Inv'
<1> SUFFICES ASSUME Inv, [Next]_vars PROVE Inv'
    OBVIOUS
<1>1. CASE UNCHANGED vars
      BY <1>1 DEF Inv, vars
<1>2. ASSUME NEW p \in 0 .. MaxStream, NEW n \in 1 .. MaxSegment, Arrive(p, n)
      PROVE  Inv'
      BY <1>2, ArriveInv
<1>3. ASSUME NEW n \in 1 .. RECV_BUF_SIZE, Read(n)
      PROVE  Inv'
      BY <1>3, ReadInv
<1> QED
    BY <1>1, <1>2, <1>3 DEF Next

\* The buffer and the staging map hold pieces of the stream, each where it
\* belongs (RecvBuffer::insert, drain_ooo and read keep it so).
THEOREM PiecesOfTheStream == Spec => []Inv
BY InitInv, StepInv, PTL DEF Spec
-----------------------------------------------------------------------------
(* What follows from it.                                                   *)

\* What the invariant says of types,
LEMMA InvTypes == Inv => TypeOK
<1> SUFFICES ASSUME Inv PROVE TypeOK
    OBVIOUS
<1>1. irs \in SeqNum /\ got \in Nat /\ got \in 0 .. MaxStream /\ rb \in Good(irs, got)
      BY ReassemblyAssumption DEF Inv
<1>2. rb.nxt \in SeqNum /\ Len(rb.buf) <= RECV_BUF_SIZE /\ rb.ooo \in Staging(Nat) /\ Staged(irs, rb)
      BY <1>1, GoodTypes
<1>3. DOMAIN rb.ooo \subseteq SeqNum
      BY <1>2, StagingType
<1> QED
    BY <1>1, <1>2, <1>3 DEF TypeOK, Staged

\* of what the application reads,
LEMMA InvOrder == Inv => InOrder
<1> SUFFICES ASSUME Inv PROVE InOrder
    OBVIOUS
<1>1. irs \in SeqNum /\ got \in Nat /\ rb \in Good(irs, got)
      BY ReassemblyAssumption DEF Inv
<1>2. (\A i \in 1 .. Len(rb.buf) : rb.buf[i] = got + i - 1) /\ rb.nxt = At(irs, got + Len(rb.buf))
      BY <1>1, GoodTypes
<1> QED
    BY <1>2 DEF InOrder, accepted, seq_of, At

\* and of the staging map.
LEMMA InvStaged == Inv => StagedFaithful
<1> SUFFICES ASSUME Inv, NEW k \in DOMAIN rb.ooo, NEW i \in 1 .. Len(rb.ooo[k])
             PROVE  seq_of(rb.ooo[k][i]) = wrapping_add(k, i - 1)
    BY DEF StagedFaithful
<1> USE ReassemblyAssumption
<1>1. irs \in SeqNum /\ got \in Nat /\ rb \in Good(irs, got)
      BY DEF Inv
<1>2. Staged(irs, rb)
      BY <1>1, GoodTypes
<1>3. PICK p \in 0 .. MaxStream : k = At(irs, p) /\ Piece(rb.ooo[k], p)
      BY <1>2 DEF Staged
<1>4. Len(rb.ooo[k]) \in 1 .. MaxSegment
      BY <1>2 DEF Staged
<1>5. rb.ooo[k][i] = p + i - 1 /\ p + Len(rb.ooo[k]) <= MaxStream
      BY <1>3 DEF Piece
<1>6. i - 1 \in Nat /\ p + (i - 1) <= MaxStream /\ p + (i - 1) = p + i - 1
      BY <1>4, <1>5
<1>7. wrapping_add(At(irs, p), i - 1) = At(irs, p + (i - 1))
      BY <1>1, <1>6, AtAdvance
<1> QED
    BY <1>3, <1>5, <1>6, <1>7 DEF seq_of, At

\* nxt and the staged sequence numbers stay in u32, the ring never holds more
\* than RECV_BUF_SIZE bytes and no staged segment is empty: no commit, drain or
\* read of recv_buffer.rs leaves its types.
THEOREM RecvTypeCorrect == Spec => []TypeOK
BY PiecesOfTheStream, InvTypes, PTL

\* Whatever the cuts, overlaps, repetitions and reordering of the segments, the
\* application is handed the stream, and the acknowledgement number covers
\* exactly the bytes accepted.
THEOREM DeliveredInOrder == Spec => []InOrder
BY PiecesOfTheStream, InvOrder, PTL

\* Every staged segment holds the bytes of the sequence numbers it is filed
\* under, trimmed at the front or not, across the wrap.
THEOREM StagedWhereItBelongs == Spec => []StagedFaithful
BY PiecesOfTheStream, InvStaged, PTL
-----------------------------------------------------------------------------
(* The channels between the event loop, the tasks and the applications.    *)

TaskRecord ==
    [key : Key, alive : BOOLEAN, conn : Phase, inbox : Seq(Kind), todo : Seq({"out", "data"}),
     data : 0 .. DATA, send : 0 .. SEND, close : 0 .. 1, close_initiated : BOOLEAN]

AppRecord == [pc : {"recv", "send", "close", "done"}, responded : BOOLEAN]

\* The map leads to the task of the same four-tuple: no segment reaches the
\* task of another connection, not even one whose slot is used again.
OwnSegments == \A k \in Key : channels[k] # None => task[channels[k]].key = k

\* An application outlives its task, not the other way round, and closes only
\* then: nothing ever arrives on close_rx, and no connection of the server
\* gets to the states behind initiate_close.
CloseArmIdle ==
    \A t \in Slot : /\ task[t].alive => app[t].pc \in {"recv", "send"}
                    /\ task[t].close = 0 /\ task[t].conn # "Closing"

\* It writes one answer, for which there is room: the await of send_tx never
\* waits.
AnswerHasRoom ==
    \A t \in Slot : /\ app[t].pc = "send" => ~ app[t].responded
                    /\ ~ app[t].responded \/ ~ task[t].alive => task[t].send = 0

Shape ==
    /\ channels \in [Key -> Slot \cup {None}]
    /\ task \in [Slot -> TaskRecord]
    /\ app \in [Slot -> AppRecord]
    /\ outbound \in 0 .. OUT
    /\ \A t \in Slot : Len(task[t].inbox) <= INBOX

Channels == Shape /\ OwnSegments /\ CloseArmIdle /\ AnswerHasRoom

\* What a step of one task or of its application, or a segment for it, changes
\* of one slot, the map and the outbound channel staying within their types.
SlotStep(t, r, a) ==
    /\ r \in TaskRecord /\ a \in AppRecord
    /\ task' = [task EXCEPT ![t] = r] /\ app' = [app EXCEPT ![t] = a] /\ channels' = channels
    /\ outbound' \in 0 .. OUT
    /\ r.key = task[t].key /\ Len(r.inbox) <= INBOX
    /\ r.alive => a.pc \in {"recv", "send"}
    /\ r.close = 0 /\ r.conn # "Closing"
    /\ a.pc = "send" => ~ a.responded
    /\ ~ a.responded \/ ~ r.alive => r.send = 0

\* Such a step keeps the invariant.
LEMMA OneSlot ==
    ASSUME Channels, NEW t \in Slot, NEW r, NEW a, SlotStep(t, r, a)
    PROVE  Channels'
<1>1. Shape /\ OwnSegments /\ CloseArmIdle /\ AnswerHasRoom
      BY DEF Channels
<1>2. /\ task' \in [Slot -> TaskRecord] /\ app' \in [Slot -> AppRecord]
      /\ task'[t] = r /\ app'[t] = a
      /\ \A u \in Slot : u # t => task'[u] = task[u] /\ app'[u] = app[u]
      BY <1>1 DEF Shape, SlotStep
<1>3. Shape'
      BY <1>1, <1>2 DEF Shape, SlotStep
<1>4. OwnSegments'
      BY <1>1, <1>2 DEF OwnSegments, Shape, SlotStep
<1>5. CloseArmIdle'
      BY <1>1, <1>2 DEF CloseArmIdle, SlotStep
<1>6. AnswerHasRoom'
      BY <1>1, <1>2 DEF AnswerHasRoom, SlotStep
<1> QED
    BY <1>3, <1>4, <1>5, <1>6 DEF Channels

\* What is known of one slot.
LEMMA OfSlot ==
    ASSUME Channels, NEW t \in Slot
    PROVE  /\ task[t] \in TaskRecord /\ app[t] \in AppRecord
           /\ Len(task[t].inbox) <= INBOX /\ task[t].close = 0 /\ task[t].conn # "Closing"
           /\ task[t].alive => app[t].pc \in {"recv", "send"}
           /\ app[t].pc = "send" => ~ app[t].responded
           /\ ~ app[t].responded \/ ~ task[t].alive => task[t].send = 0
           /\ app = [app EXCEPT ![t] = app[t]] /\ task = [task EXCEPT ![t] = task[t]]
           /\ outbound \in 0 .. OUT
BY DEF Channels, Shape, CloseArmIdle, AnswerHasRoom

\* A task as it starts and as it ends.
LEMMA NewSlot ==
    ASSUME NEW k \in Key
    PROVE  /\ Spawned(k) \in TaskRecord /\ NewApp \in AppRecord
           /\ Gone(k) \in TaskRecord /\ [NewApp EXCEPT !.pc = "done"] \in AppRecord
           /\ Gone(k).key = k /\ Gone(k).alive = FALSE /\ Gone(k).close = 0
           /\ Gone(k).conn = "Listen" /\ Gone(k).inbox = <<>> /\ Gone(k).send = 0
           /\ [NewApp EXCEPT !.pc = "done"].pc = "done"
           /\ [NewApp EXCEPT !.pc = "done"].responded = FALSE
<1>1. /\ 0 \in 0 .. DATA /\ 0 \in 0 .. SEND /\ 0 \in 0 .. 1
      /\ <<>> \in Seq(Kind) /\ <<>> \in Seq({"out", "data"}) /\ "Listen" \in Phase
      BY DispatchAssumption DEF Phase
<1>2. Spawned(k) \in TaskRecord
      BY <1>1 DEF Spawned, TaskRecord
<1>3. Gone(k) \in TaskRecord
      BY <1>2 DEF Gone, TaskRecord
<1>4. /\ Gone(k).key = k /\ Gone(k).alive = FALSE /\ Gone(k).close = 0
      /\ Gone(k).conn = "Listen" /\ Gone(k).inbox = <<>> /\ Gone(k).send = 0
      BY DEF Gone, Spawned
<1>5. NewApp \in AppRecord
      BY DEF NewApp, AppRecord
<1>6. [NewApp EXCEPT !.pc = "done"] \in AppRecord
      BY <1>5 DEF AppRecord
<1>7. [NewApp EXCEPT !.pc = "done"].pc = "done" /\ [NewApp EXCEPT !.pc = "done"].responded = FALSE
      BY DEF NewApp
<1> QED
    BY <1>2, <1>3, <1>4, <1>5, <1>6, <1>7

\* Nothing runs at first.
LEMMA ChannelsInit == DispatchInit => Channels
<1> SUFFICES ASSUME DispatchInit PROVE Channels
    OBVIOUS
<1>1. PICK k \in Key : task = [t \in Slot |-> Gone(k)]
      BY DEF DispatchInit
<1>2. /\ channels = [j \in Key |-> None] /\ app = [t \in Slot |-> [NewApp EXCEPT !.pc = "done"]]
      /\ outbound = 0
      BY DEF DispatchInit
<1> DEFINE a == [NewApp EXCEPT !.pc = "done"]
           g == Gone(k)
<1>3. /\ g \in TaskRecord /\ a \in AppRecord /\ g.alive = FALSE /\ g.close = 0
      /\ g.conn = "Listen" /\ g.inbox = <<>> /\ g.send = 0
      /\ a.pc = "done" /\ a.responded = FALSE
      BY NewSlot
<1> HIDE DEF a, g
<1>4. task = [t \in Slot |-> g] /\ app = [t \in Slot |-> a]
      BY <1>1, <1>2 DEF a, g
<1>5. \A t \in Slot : task[t] = g /\ app[t] = a
      BY <1>4
<1>7. Shape
  <2>1. task \in [Slot -> TaskRecord] /\ app \in [Slot -> AppRecord]
        BY <1>3, <1>4
  <2>2. \A t \in Slot : Len(task[t].inbox) <= INBOX
        BY <1>3, <1>5, DispatchAssumption
  <2> QED
        BY <1>2, <2>1, <2>2, DispatchAssumption DEF Shape
<1>8. OwnSegments
      BY <1>2 DEF OwnSegments
<1>9. CloseArmIdle /\ AnswerHasRoom
      BY <1>3, <1>5 DEF CloseArmIdle, AnswerHasRoom
<1> QED
    BY <1>7, <1>8, <1>9 DEF Channels
\* A segment for a known connection.
LEMMA DeliverKeeps == ASSUME Channels, NEW k \in Key, NEW kind \in Arriving, Deliver(k, kind) PROVE Channels'
<1> DEFINE t == channels[k]
           r == [task[t] EXCEPT !.inbox = Append(@, kind)]
<1>1. t \in Slot /\ Len(task[t].inbox) < INBOX
      BY DEF Deliver, Accepts, Channels, Shape
<1>2. task' = [task EXCEPT ![t] = r]
      BY DEF Deliver
<1>3. channels' = channels /\ app' = app /\ outbound' = outbound
      BY DEF Deliver
<1> HIDE DEF t
<1>4. kind \in Kind
      BY DispatchAssumption
<1> DEFINE q == task[t]
<1>5. /\ q \in TaskRecord /\ app[t] \in AppRecord
      /\ Len(q.inbox) <= INBOX /\ q.close = 0 /\ q.conn # "Closing"
      /\ q.alive => app[t].pc \in {"recv", "send"}
      /\ app[t].pc = "send" => ~ app[t].responded
      /\ ~ app[t].responded \/ ~ q.alive => q.send = 0
      /\ app = [app EXCEPT ![t] = app[t]]
      /\ outbound \in 0 .. OUT
      BY <1>1, OfSlot
<1> DEFINE i == Append(q.inbox, kind)
<1>6. i \in Seq(Kind) /\ Len(i) = Len(q.inbox) + 1 /\ Len(q.inbox) \in Nat
      BY <1>4, <1>5 DEF TaskRecord
<1> HIDE DEF i, q
<1>7. r = [q EXCEPT !.inbox = i]
      BY DEF i, q
<1>8. /\ r \in TaskRecord /\ r.key = q.key /\ r.inbox = i /\ r.alive = q.alive /\ r.close = q.close
      /\ r.conn = q.conn /\ r.send = q.send
      BY <1>5, <1>6, <1>7 DEF TaskRecord
<1>9. Len(r.inbox) <= INBOX
      BY <1>1, <1>6, <1>8, DispatchAssumption DEF q
<1> HIDE DEF r
<1>10. SlotStep(t, r, app[t])
      BY <1>2, <1>3, <1>5, <1>8, <1>9 DEF SlotStep, q
<1> QED
    BY <1>1, <1>10, OneSlot

\* An entry removed.
LEMMA EvictKeeps == ASSUME Channels, NEW k \in Key, NEW kind, Evict(k, kind) PROVE Channels'
<1>1. /\ channels' = [channels EXCEPT ![k] = None] /\ task' = task /\ app' = app
      /\ outbound' = outbound
      BY DEF Evict
<1>2. Shape /\ OwnSegments /\ CloseArmIdle /\ AnswerHasRoom
      BY DEF Channels
<1>3. Shape'
      BY <1>1, <1>2 DEF Shape
<1>4. OwnSegments'
      BY <1>1, <1>2 DEF OwnSegments, Shape
<1>5. CloseArmIdle' /\ AnswerHasRoom'
      BY <1>1, <1>2 DEF CloseArmIdle, AnswerHasRoom
<1> QED
    BY <1>3, <1>4, <1>5 DEF Channels

\* A slot used again: nothing leads to it any more.
LEMMA SpawnKeeps ==
    ASSUME Channels, NEW k \in Key, NEW kind, NEW t \in Slot, Spawn(k, kind, t) PROVE Channels'
<1>1. /\ channels[k] = None /\ \A j \in Key : channels[j] # t
      /\ task' = [task EXCEPT ![t] = Spawned(k)] /\ app' = [app EXCEPT ![t] = NewApp]
      /\ channels' = [channels EXCEPT ![k] = t] /\ outbound' = outbound
      BY DEF Spawn, Free
<1>2. Shape /\ OwnSegments /\ CloseArmIdle /\ AnswerHasRoom
      BY DEF Channels
<1>3. /\ Spawned(k) \in TaskRecord /\ NewApp \in AppRecord
      /\ Spawned(k).key = k /\ Spawned(k).close = 0 /\ Spawned(k).conn = "Listen"
      /\ Spawned(k).inbox = <<>> /\ Spawned(k).send = 0
      /\ NewApp.pc = "recv" /\ NewApp.responded = FALSE
      BY NewSlot DEF Spawned, NewApp
<1>4. /\ task' \in [Slot -> TaskRecord] /\ app' \in [Slot -> AppRecord]
      /\ task'[t] = Spawned(k) /\ app'[t] = NewApp
      /\ \A u \in Slot : u # t => task'[u] = task[u] /\ app'[u] = app[u]
      BY <1>1, <1>2, <1>3 DEF Shape
<1>5. Shape'
  <2>1. Len(Spawned(k).inbox) <= INBOX
        BY <1>3, DispatchAssumption
  <2> QED
        BY <1>1, <1>2, <1>4, <2>1 DEF Shape
<1>6. OwnSegments'
      BY <1>1, <1>2, <1>3, <1>4 DEF OwnSegments, Shape
<1>7. CloseArmIdle' /\ AnswerHasRoom'
      BY <1>2, <1>3, <1>4 DEF CloseArmIdle, AnswerHasRoom
<1> QED
    BY <1>5, <1>6, <1>7 DEF Channels

\* What a segment makes of a connection that is not closing.
LEMMA OutcomeType ==
    ASSUME NEW c \in Phase, NEW kind \in Kind, c # "Closing", NEW o \in Outcome(c, kind)
    PROVE  o[1] \in Phase \ {"Closing"} /\ o[2] \in Seq({"out", "data"})
<1> DEFINE T == {"out", "data"}
<1>1. <<>> \in Seq(T) /\ <<"out">> \in Seq(T) /\ <<"out", "data">> \in Seq(T)
      OBVIOUS
<1>2. o \in (Phase \ {"Closing"}) \X {<<>>, <<"out">>, <<"out", "data">>}
      BY DEF Outcome, Phase, Kind
<1> QED
    BY <1>1, <1>2

\* The task reads a segment.
LEMMA TaskInboundKeeps == ASSUME Channels, NEW t \in Slot, TaskInbound(t) PROVE Channels'
<1> DEFINE q == task[t]
           a == app[t]
           h == Head(q.inbox)
           i == Tail(q.inbox)
<1>1. /\ q \in TaskRecord /\ a \in AppRecord
      /\ Len(q.inbox) <= INBOX /\ q.close = 0 /\ q.conn # "Closing"
      /\ q.alive => a.pc \in {"recv", "send"}
      /\ a.pc = "send" => ~ a.responded
      /\ ~ a.responded \/ ~ q.alive => q.send = 0
      /\ app = [app EXCEPT ![t] = a]
      /\ outbound \in 0 .. OUT
      BY OfSlot
<1>2. PICK o \in Outcome(q.conn, h), f \in Flushed(t) :
         task' = [task EXCEPT ![t].inbox = Tail(@), ![t].conn = o[1], ![t].todo = o[2] \o f]
      BY DEF TaskInbound
<1>3. channels' = channels /\ app' = app /\ outbound' = outbound /\ q.inbox # <<>>
      BY DEF TaskInbound
<1> DEFINE d == o[2] \o f
           r == [q EXCEPT !.inbox = i, !.conn = o[1], !.todo = d]
<1>4. task' = [task EXCEPT ![t] = r]
      BY <1>2
<1>5. h \in Kind /\ i \in Seq(Kind) /\ Len(i) <= INBOX
  <2>1. q.inbox \in Seq(Kind)
        BY <1>1 DEF TaskRecord
  <2> QED
        BY <1>1, <1>3, <2>1, DispatchAssumption
<1>6. o[1] \in Phase /\ o[1] # "Closing" /\ o[2] \in Seq({"out", "data"})
      BY <1>1, <1>5, OutcomeType DEF TaskRecord
<1>7. d \in Seq({"out", "data"})
  <2>1. f \in Seq({"out", "data"})
    <3>1. <<>> \in Seq({"out", "data"}) /\ <<"out">> \in Seq({"out", "data"})
          OBVIOUS
    <3>2. f = <<>> \/ f = <<"out">>
          BY <1>2 DEF Flushed
    <3> QED
          BY <3>1, <3>2
  <2> QED
        BY <1>6, <2>1
<1> DEFINE c == o[1]
<1> HIDE DEF q, a, i, d, c
<1>8. r = [q EXCEPT !.inbox = i, !.conn = c, !.todo = d]
      BY DEF c
<1>9. /\ r \in TaskRecord /\ r.key = q.key /\ r.inbox = i /\ r.alive = q.alive /\ r.close = q.close
      /\ r.conn = c /\ r.send = q.send
      BY <1>1, <1>5, <1>6, <1>7, <1>8 DEF TaskRecord, c
<1> HIDE DEF r
<1>10. SlotStep(t, r, a)
      BY <1>1, <1>3, <1>4, <1>5, <1>6, <1>9 DEF SlotStep, q, c
<1> QED
    BY <1>10, OneSlot
\* A timer, a write or a close of the application, of which the last cannot be.
LEMMA TaskOwnKeeps == ASSUME Channels, NEW t \in Slot, TaskTick(t) \/ TaskApp(t) PROVE Channels'
<1> DEFINE q == task[t]
           a == app[t]
<1>1. /\ q \in TaskRecord /\ a \in AppRecord
      /\ Len(q.inbox) <= INBOX /\ q.close = 0 /\ q.conn # "Closing"
      /\ q.alive => a.pc \in {"recv", "send"}
      /\ a.pc = "send" => ~ a.responded
      /\ ~ a.responded \/ ~ q.alive => q.send = 0
      /\ app = [app EXCEPT ![t] = a]
      /\ outbound \in 0 .. OUT
      BY OfSlot
<1>2. channels' = channels /\ app' = app /\ outbound' = outbound
      BY DEF TaskTick, TaskApp
<1>3. <<>> \in Seq({"out", "data"}) /\ <<"out">> \in Seq({"out", "data"})
      OBVIOUS
<1>4. CASE TaskTick(t)
  <2> DEFINE d == <<"out">>
             r == [q EXCEPT !.todo = d]
  <2>1. task' = [task EXCEPT ![t] = r]
        BY <1>4 DEF TaskTick
  <2> HIDE DEF q, a, d
  <2>2. /\ r \in TaskRecord /\ r.key = q.key /\ r.inbox = q.inbox /\ r.alive = q.alive
        /\ r.close = q.close /\ r.conn = q.conn /\ r.send = q.send
        BY <1>1, <1>3 DEF TaskRecord, d
  <2> HIDE DEF r
  <2>3. SlotStep(t, r, a)
        BY <1>1, <1>2, <2>1, <2>2 DEF SlotStep, q
  <2> QED
        BY <2>3, OneSlot
<1>5. CASE TaskApp(t)
  <2>1. q.send > 0
        BY <1>1, <1>5 DEF TaskApp
  <2>2. PICK d \in Flushed(t) : task' = [task EXCEPT ![t].send = @ - 1, ![t].todo = d]
        BY <1>5, <2>1 DEF TaskApp
  <2>3. d \in Seq({"out", "data"})
    <3>1. d = <<>> \/ d = <<"out">>
          BY <2>2 DEF Flushed
    <3> QED
          BY <1>3, <3>1
  <2> DEFINE n == q.send - 1
             r == [q EXCEPT !.send = n, !.todo = d]
  <2>4. task' = [task EXCEPT ![t] = r]
        BY <2>2
  <2>5. n \in 0 .. SEND /\ a.responded /\ q.alive
        BY <1>1, <2>1, DispatchAssumption DEF TaskRecord, AppRecord
  <2> HIDE DEF q, a, n
  <2>6. /\ r \in TaskRecord /\ r.key = q.key /\ r.inbox = q.inbox /\ r.alive = q.alive
        /\ r.close = q.close /\ r.conn = q.conn
        BY <1>1, <2>3, <2>5 DEF TaskRecord
  <2> HIDE DEF r
  <2>7. SlotStep(t, r, a)
        BY <1>1, <1>2, <2>4, <2>5, <2>6 DEF SlotStep, q
  <2> QED
        BY <2>7, OneSlot
<1> QED
    BY <1>4, <1>5

\* What is awaited goes out.
LEMMA TaskAwaitKeeps == ASSUME Channels, NEW t \in Slot, TaskSend(t) \/ TaskForward(t) PROVE Channels'
<1> DEFINE q == task[t]
           a == app[t]
           d == Tail(q.todo)
<1>1. /\ q \in TaskRecord /\ a \in AppRecord
      /\ Len(q.inbox) <= INBOX /\ q.close = 0 /\ q.conn # "Closing"
      /\ q.alive => a.pc \in {"recv", "send"}
      /\ a.pc = "send" => ~ a.responded
      /\ ~ a.responded \/ ~ q.alive => q.send = 0
      /\ app = [app EXCEPT ![t] = a]
      /\ outbound \in 0 .. OUT
      BY OfSlot
<1>2. channels' = channels /\ app' = app /\ q.todo # <<>>
      BY DEF TaskSend, TaskForward
<1>3. d \in Seq({"out", "data"})
  <2>1. q.todo \in Seq({"out", "data"})
        BY <1>1 DEF TaskRecord
  <2> QED
        BY <1>2, <2>1
<1>4. CASE TaskSend(t)
  <2> DEFINE r == [q EXCEPT !.todo = d]
  <2>1. task' = [task EXCEPT ![t] = r]
        BY <1>4 DEF TaskSend
  <2>2. outbound' \in 0 .. OUT
        BY <1>1, <1>4, DispatchAssumption DEF TaskSend
  <2> HIDE DEF q, a, d
  <2>3. /\ r \in TaskRecord /\ r.key = q.key /\ r.inbox = q.inbox /\ r.alive = q.alive
        /\ r.close = q.close /\ r.conn = q.conn /\ r.send = q.send
        BY <1>1, <1>3 DEF TaskRecord
  <2> HIDE DEF r
  <2>4. SlotStep(t, r, a)
        BY <1>1, <1>2, <2>1, <2>2, <2>3 DEF SlotStep, q
  <2> QED
        BY <2>4, OneSlot
<1>5. CASE TaskForward(t)
  <2> DEFINE n == q.data + 1
             r == [q EXCEPT !.data = n, !.todo = d]
  <2>1. task' = [task EXCEPT ![t] = r] /\ outbound' = outbound
        BY <1>5 DEF TaskForward
  <2>2. n \in 0 .. DATA
        BY <1>1, <1>5, DispatchAssumption DEF TaskForward, TaskRecord
  <2> HIDE DEF q, a, d, n
  <2>3. /\ r \in TaskRecord /\ r.key = q.key /\ r.inbox = q.inbox /\ r.alive = q.alive
        /\ r.close = q.close /\ r.conn = q.conn /\ r.send = q.send
        BY <1>1, <1>3, <2>2 DEF TaskRecord
  <2> HIDE DEF r
  <2>4. SlotStep(t, r, a)
        BY <1>1, <1>2, <2>1, <2>3 DEF SlotStep, q
  <2> QED
        BY <2>4, OneSlot
<1> QED
    BY <1>4, <1>5

\* The task ends.
LEMMA TaskExitKeeps == ASSUME Channels, NEW t \in Slot, TaskExit(t) PROVE Channels'
<1> DEFINE q == task[t]
           a == app[t]
           g == Gone(q.key)
           n == q.data
           r == [g EXCEPT !.data = n]
<1>1. /\ q \in TaskRecord /\ a \in AppRecord
      /\ a.pc = "send" => ~ a.responded
      /\ app = [app EXCEPT ![t] = a]
      /\ outbound \in 0 .. OUT
      BY OfSlot
<1>2. channels' = channels /\ app' = app /\ outbound' = outbound /\ task' = [task EXCEPT ![t] = r]
      BY DEF TaskExit
<1>3. q.key \in Key /\ n \in 0 .. DATA
      BY <1>1 DEF TaskRecord
<1>4. /\ g \in TaskRecord /\ g.key = q.key /\ g.alive = FALSE /\ g.close = 0 /\ g.conn = "Listen"
      /\ g.inbox = <<>> /\ g.send = 0
      BY <1>3, NewSlot
<1> HIDE DEF q, a, g, n
<1>5. /\ r \in TaskRecord /\ r.key = g.key /\ r.inbox = g.inbox /\ r.alive = g.alive
      /\ r.close = g.close /\ r.conn = g.conn /\ r.send = g.send
      BY <1>3, <1>4 DEF TaskRecord
<1> HIDE DEF r
<1>6. Len(r.inbox) <= INBOX
      BY <1>4, <1>5, DispatchAssumption
<1>7. SlotStep(t, r, a)
      BY <1>1, <1>2, <1>4, <1>5, <1>6 DEF SlotStep, q
<1> QED
    BY <1>7, OneSlot

\* The application reads, answers and ends.
LEMMA AppKeeps == ASSUME Channels, NEW t \in Slot, AppStep(t) PROVE Channels'
<1> DEFINE q == task[t]
           a == app[t]
<1>1. /\ q \in TaskRecord /\ a \in AppRecord
      /\ Len(q.inbox) <= INBOX /\ q.close = 0 /\ q.conn # "Closing"
      /\ q.alive => a.pc \in {"recv", "send"}
      /\ a.pc = "send" => ~ a.responded
      /\ ~ a.responded \/ ~ q.alive => q.send = 0
      /\ app = [app EXCEPT ![t] = a] /\ task = [task EXCEPT ![t] = q]
      /\ outbound \in 0 .. OUT
      BY OfSlot
<1>2. channels' = channels /\ outbound' = outbound
      BY DEF AppStep, AppRecv, AppSend, AppEnd, AppClose
<1>3. CASE AppRecv(t)
  <2> DEFINE n == q.data - 1
             r == [q EXCEPT !.data = n]
             b == [a EXCEPT !.pc = "send"]
  <2>1. a.pc = "recv" /\ task' = [task EXCEPT ![t] = r]
        BY <1>3 DEF AppRecv
  <2>2. n \in 0 .. DATA
        BY <1>1, <1>3, DispatchAssumption DEF AppRecv, TaskRecord
  <2>3. b \in AppRecord /\ b.pc = "send" /\ b.responded = a.responded
        BY <1>1 DEF AppRecord
  <2>4. (~ a.responded /\ app' = [app EXCEPT ![t] = b]) \/ app' = app
        BY <1>3 DEF AppRecv
  <2> HIDE DEF q, a, n, b
  <2>5. /\ r \in TaskRecord /\ r.key = q.key /\ r.inbox = q.inbox /\ r.alive = q.alive
        /\ r.close = q.close /\ r.conn = q.conn /\ r.send = q.send
        BY <1>1, <2>2 DEF TaskRecord
  <2> HIDE DEF r
  <2>6. SlotStep(t, r, b) \/ SlotStep(t, r, a)
        BY <1>1, <1>2, <2>1, <2>3, <2>4, <2>5 DEF SlotStep, q
  <2> QED
        BY <2>6, OneSlot
<1>4. CASE AppSend(t)
  <2> DEFINE n == q.send + 1
             r == [q EXCEPT !.send = n]
             b == [a EXCEPT !.pc = "recv", !.responded = TRUE]
  <2>1. app' = [app EXCEPT ![t] = b]
        BY <1>4 DEF AppSend
  <2>2. (q.alive /\ q.send < SEND /\ task' = [task EXCEPT ![t] = r]) \/ (~ q.alive /\ task' = task)
        BY <1>4 DEF AppSend
  <2>3. q.send < SEND => n \in 0 .. SEND
        BY <1>1, DispatchAssumption DEF TaskRecord
  <2>4. b \in AppRecord /\ b.pc = "recv" /\ b.responded = TRUE
        BY <1>1 DEF AppRecord
  <2> HIDE DEF q, a, n, b
  <2>5. q.send < SEND =>
           /\ r \in TaskRecord /\ r.key = q.key /\ r.inbox = q.inbox /\ r.alive = q.alive
           /\ r.close = q.close /\ r.conn = q.conn
        BY <1>1, <2>3 DEF TaskRecord
  <2> HIDE DEF r
  <2>6. SlotStep(t, r, b) \/ SlotStep(t, q, b)
        BY <1>1, <1>2, <2>1, <2>2, <2>4, <2>5 DEF SlotStep, q
  <2> QED
        BY <2>6, OneSlot
<1>5. CASE AppEnd(t)
  <2> DEFINE b == [a EXCEPT !.pc = "close"]
  <2>1. app' = [app EXCEPT ![t] = b] /\ task' = task /\ ~ q.alive
        BY <1>5 DEF AppEnd
  <2>2. b \in AppRecord /\ b.pc = "close" /\ b.responded = a.responded
        BY <1>1 DEF AppRecord
  <2> HIDE DEF q, a, b
  <2>3. SlotStep(t, q, b)
        BY <1>1, <1>2, <2>1, <2>2 DEF SlotStep, q
  <2> QED
        BY <2>3, OneSlot
<1>6. CASE AppClose(t)
  <2> DEFINE b == [NewApp EXCEPT !.pc = "done"]
  <2>1. a.pc = "close" /\ app' = [app EXCEPT ![t] = b]
        BY <1>6 DEF AppClose
  <2>2. ~ q.alive
        BY <1>1, <2>1
  <2>3. task' = task
        BY <1>1, <1>6, <2>2 DEF AppClose, Channels, Shape, TaskRecord
  <2>4. b \in AppRecord /\ b.pc = "done" /\ b.responded = FALSE
        BY DEF NewApp, AppRecord
  <2> HIDE DEF q, a, b
  <2>5. SlotStep(t, q, b)
        BY <1>1, <1>2, <2>1, <2>2, <2>3, <2>4 DEF SlotStep, q
  <2> QED
        BY <2>5, OneSlot
<1> QED
    BY <1>3, <1>4, <1>5, <1>6 DEF AppStep
\* The event loop writes a message to the device.
LEMMA DrainKeepsChannels == ASSUME Channels, Drain PROVE Channels'
<1>1. channels' = channels /\ task' = task /\ app' = app /\ outbound > 0 /\ outbound' = outbound - 1
      BY DEF Drain
<1>2. outbound \in 0 .. OUT
      BY DEF Channels, Shape
<1>3. outbound' \in 0 .. OUT
      BY <1>1, <1>2, DispatchAssumption
<1> QED
    BY <1>1, <1>3 DEF Channels, Shape, OwnSegments, CloseArmIdle, AnswerHasRoom

\* The invariant is inductive: no channel between the event loop, the tasks and
\* the applications overflows, the map leads to a four-tuple's own task, nothing
\* is ever sent to close_rx and an answer always finds room.
THEOREM ChannelsInvariant == DispatchSpec => []Channels
<1>1. Channels /\ [DispatchNext]_dispatchVars => Channels'
  <2> SUFFICES ASSUME Channels, [DispatchNext]_dispatchVars PROVE Channels'
      OBVIOUS
  <2>1. ASSUME NEW k \in Key, NEW kind \in Arriving, dispatch(k, kind) PROVE Channels'
    <3>1. CASE UNCHANGED dispatchVars
          BY <3>1 DEF dispatchVars, Channels, Shape, OwnSegments, CloseArmIdle, AnswerHasRoom
    <3>2. DropUnknown(k, kind) => UNCHANGED dispatchVars
          BY DEF DropUnknown
    <3> QED
          BY <2>1, <3>1, <3>2, DeliverKeeps, EvictKeeps, SpawnKeeps DEF dispatch
  <2>2. ASSUME NEW t \in Slot, TaskStep(t) PROVE Channels'
        BY <2>2, TaskInboundKeeps, TaskOwnKeeps, TaskAwaitKeeps, TaskExitKeeps DEF TaskStep
  <2>3. CASE UNCHANGED dispatchVars
        BY <2>3 DEF dispatchVars, Channels, Shape, OwnSegments, CloseArmIdle, AnswerHasRoom
  <2> QED
        BY <2>1, <2>2, <2>3, AppKeeps, DrainKeepsChannels DEF DispatchNext
<1> QED
    BY <1>1, ChannelsInit, PTL DEF DispatchSpec

\* No channel holds more than its capacity, for all capacities and any number
\* of connections (try_send in AsyncDispatch::dispatch, the awaits of
\* run_connection_task and handle_connection).
THEOREM DispatchTypeCorrect == DispatchSpec => []DispatchTypeOK
<1>1. Channels => DispatchTypeOK
  <2> SUFFICES ASSUME Channels PROVE DispatchTypeOK
      OBVIOUS
  <2>1. Shape
        BY DEF Channels
  <2>2. ASSUME NEW t \in Slot
        PROVE  /\ task[t].key \in Key /\ task[t].alive \in BOOLEAN /\ task[t].conn \in Phase
               /\ task[t].data \in 0 .. DATA /\ task[t].send \in 0 .. SEND /\ task[t].close \in 0 .. 1
               /\ Len(task[t].inbox) <= INBOX
               /\ \A i \in DOMAIN task[t].inbox : task[t].inbox[i] \in Kind
               /\ app[t].pc \in {"recv", "send", "close", "done"} /\ app[t].responded \in BOOLEAN
        BY <2>1 DEF Shape, TaskRecord, AppRecord
  <2> QED
        BY <2>1, <2>2 DEF DispatchTypeOK, Shape
<1> QED
    BY <1>1, ChannelsInvariant, PTL

\* A segment reaches the task of its own four-tuple or none.
THEOREM RoutedToItsOwn == DispatchSpec => []OwnSegments
<1>1. Channels => OwnSegments
      BY DEF Channels
<1> QED
    BY <1>1, ChannelsInvariant, PTL

\* The close arm of run_connection_task is never taken: the application sends
\* on close_tx only when its task is gone.
THEOREM CloseArmNeverTaken == DispatchSpec => []CloseArmIdle
<1>1. Channels => CloseArmIdle
      BY DEF Channels
<1> QED
    BY <1>1, ChannelsInvariant, PTL
=============================================================================
