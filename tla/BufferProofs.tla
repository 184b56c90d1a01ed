---------------------------- MODULE BufferProofs ----------------------------
(***************************************************************************)
(* What the comparisons of tcb.rs mean, and what the operations of the two *)
(* buffers do: the facts that let the proofs about SendRing, Reassembly    *)
(* and Connection reason with distances and positions instead of wrapped   *)
(* numbers.                                                                *)
(***************************************************************************)
EXTENDS SendBuffer, RecvBuffer, Induction, FiniteSetTheorems, SequenceTheorems

\* Both wrapping operations stay inside u32 (tcb.rs uses no other).
LEMMA WrapType ==
    ASSUME NEW a \in SeqNum, NEW b \in SeqNum
    PROVE  wrapping_add(a, b) \in SeqNum /\ wrapping_sub(a, b) \in SeqNum
BY HalfAssumption DEF wrapping_add, wrapping_sub, SeqNum, Modulus

\* The distance from a number to itself is zero, and only to itself.
LEMMA ZeroDistance ==
    ASSUME NEW a \in SeqNum, NEW b \in SeqNum
    PROVE  wrapping_sub(a, b) = 0 <=> a = b
BY HalfAssumption DEF wrapping_sub, SeqNum, Modulus

\* Advancing a number by n takes it n further from any base, short of a lap.
LEMMA AdvanceDistance ==
    ASSUME NEW x \in SeqNum, NEW base \in SeqNum, NEW n \in Nat,
           wrapping_sub(x, base) + n < Modulus
    PROVE  /\ wrapping_add(x, n) \in SeqNum
           /\ wrapping_sub(wrapping_add(x, n), base) = wrapping_sub(x, base) + n
BY HalfAssumption DEF wrapping_add, wrapping_sub, SeqNum, Modulus

\* Moving the base forward shortens the distance to everything beyond it.
LEMMA RebaseDistance ==
    ASSUME NEW x \in SeqNum, NEW base \in SeqNum, NEW next \in SeqNum,
           wrapping_sub(next, base) <= wrapping_sub(x, base)
    PROVE  wrapping_sub(x, next) = wrapping_sub(x, base) - wrapping_sub(next, base)
BY HalfAssumption DEF wrapping_sub, SeqNum, Modulus

\* Distances add up, short of a lap.
LEMMA ComposeDistance ==
    ASSUME NEW x \in SeqNum, NEW base \in SeqNum, NEW next \in SeqNum,
           wrapping_sub(next, base) + wrapping_sub(x, next) < Modulus
    PROVE  wrapping_sub(x, base) = wrapping_sub(next, base) + wrapping_sub(x, next)
BY HalfAssumption DEF wrapping_sub, SeqNum, Modulus

\* No number is closer to a base than the base itself.
LEMMA SelfDistance ==
    ASSUME NEW x \in SeqNum, NEW base \in SeqNum
    PROVE  wrapping_sub(base, base) <= wrapping_sub(x, base)
BY HalfAssumption DEF wrapping_sub, SeqNum, Modulus

\* Two numbers at the same distance from a base are the same number.
LEMMA DistanceInjective ==
    ASSUME NEW x \in SeqNum, NEW y \in SeqNum, NEW base \in SeqNum,
           wrapping_sub(x, base) = wrapping_sub(y, base)
    PROVE  x = y
BY HalfAssumption DEF wrapping_sub, SeqNum, Modulus

\* Among numbers less than half the space after a base, seq_le orders them by
\* their distance from it.
LEMMA OrderIsDistance ==
    ASSUME NEW x \in SeqNum, NEW y \in SeqNum, NEW base \in SeqNum,
           wrapping_sub(x, base) < Half, wrapping_sub(y, base) < Half
    PROVE  seq_le(x, y) <=> wrapping_sub(x, base) <= wrapping_sub(y, base)
BY HalfAssumption DEF seq_le, seq_lt, wrapping_sub, SeqNum, Modulus

\* ack_acceptable is the RFC 793 test SND.UNA < SEG.ACK <= SND.NXT for every
\* placement of the three numbers around the wrap, provided that less than half
\* the sequence space is in flight.
THEOREM AckAcceptable ==
    ASSUME NEW una \in SeqNum, NEW ack \in SeqNum, NEW nxt \in SeqNum,
           wrapping_sub(nxt, una) < Half
    PROVE  ack_acceptable(una, ack, nxt) <=>
               /\ 0 < wrapping_sub(ack, una)
               /\ wrapping_sub(ack, una) <= wrapping_sub(nxt, una)
BY HalfAssumption DEF ack_acceptable, seq_le, seq_lt, wrapping_sub, SeqNum, Modulus
-----------------------------------------------------------------------------
(* The send buffer's operations.                                           *)

\* The fields of a send buffer and the distance between them are sequence numbers.
LEMMA SendBufDistance ==
    ASSUME NEW b \in SendBuf
    PROVE  /\ b.una \in SeqNum /\ b.nxt \in SeqNum /\ b.len \in 0 .. SEND_BUF_SIZE
           /\ send_inflight(b) \in SeqNum
           /\ wrapping_add(b.nxt, 1) \in SeqNum
BY HalfAssumption DEF SendBuf, send_inflight, wrapping_sub, wrapping_add, SeqNum, Modulus

\* next_segment never hands out more than is held, and advance_nxt counts it.
LEMMA TransmitCounts ==
    ASSUME NEW b \in SendBuf, send_inflight(b) <= b.len, NEW m \in Nat,
           NEW n, n = next_segment_len(b, m), n > 0
    PROVE  /\ n \in Nat /\ n <= m
           /\ advance_nxt(b, n) = [una |-> b.una, nxt |-> wrapping_add(b.nxt, n), len |-> b.len]
           /\ advance_nxt(b, n) \in SendBuf
           /\ send_inflight(advance_nxt(b, n)) = send_inflight(b) + n
           /\ send_inflight(b) + n <= b.len
<1> USE HalfAssumption, SendBufSizeAssumption
<1>0. /\ b.una \in SeqNum /\ b.nxt \in SeqNum /\ b.len \in 0 .. SEND_BUF_SIZE
      /\ send_inflight(b) \in SeqNum
      BY SendBufDistance
<1>1. n \in Nat /\ n <= m /\ send_inflight(b) + n <= b.len
      BY <1>0 DEF next_segment_len, min, SeqNum, Modulus
<1>2. advance_nxt(b, n) = [una |-> b.una, nxt |-> wrapping_add(b.nxt, n), len |-> b.len]
      BY DEF advance_nxt, SendBuf
<1>3. wrapping_add(b.nxt, n) \in SeqNum
      /\ wrapping_sub(wrapping_add(b.nxt, n), b.una) = wrapping_sub(b.nxt, b.una) + n
  <2>1. wrapping_sub(b.nxt, b.una) + n < Modulus
        BY <1>0, <1>1 DEF send_inflight, Modulus, SeqNum
  <2> QED
        BY <1>0, <1>1, <2>1, AdvanceDistance
<1> QED
    BY <1>0, <1>1, <1>2, <1>3 DEF SendBuf, send_inflight

\* SendBuffer::acknowledge on an acknowledgement of bytes in flight.
LEMMA AcknowledgeSent ==
    ASSUME NEW b \in SendBuf, send_inflight(b) <= b.len, NEW ack \in SeqNum,
           0 < wrapping_sub(ack, b.una), wrapping_sub(ack, b.una) <= send_inflight(b)
    PROVE  /\ acknowledge(b, ack) \in SendBuf
           /\ acknowledge(b, ack).una = ack
           /\ acknowledge(b, ack).nxt = b.nxt
           /\ send_inflight(acknowledge(b, ack)) = send_inflight(b) - wrapping_sub(ack, b.una)
           /\ acknowledge(b, ack).len = b.len - wrapping_sub(ack, b.una)
<1> USE HalfAssumption, SendBufSizeAssumption
<1> DEFINE k == wrapping_sub(ack, b.una)
<1>0. /\ b.una \in SeqNum /\ b.nxt \in SeqNum /\ b.len \in 0 .. SEND_BUF_SIZE
      /\ send_inflight(b) \in SeqNum
      BY SendBufDistance
<1>1. k \in SeqNum /\ k <= b.len
  <2>1. k \in SeqNum
        BY <1>0, WrapType
  <2> QED
        BY <1>0, <2>1 DEF SeqNum, Modulus
<1>2. newly_acked(b, ack) = k
      BY <1>0, <1>1 DEF newly_acked, SeqNum, Modulus
<1>3. acknowledge(b, ack) = [una |-> ack, nxt |-> b.nxt, len |-> b.len - k]
      BY <1>0, <1>1, <1>2 DEF acknowledge, SendBuf, SeqNum, Modulus
<1>4. wrapping_sub(b.nxt, ack) = send_inflight(b) - k
      BY <1>0, RebaseDistance DEF send_inflight
<1>5. b.len - k \in 0 .. SEND_BUF_SIZE
      BY <1>0, <1>1 DEF SeqNum, Modulus
<1> QED
    BY <1>0, <1>3, <1>4, <1>5 DEF SendBuf, send_inflight

\* SendBuffer::acknowledge on the acknowledgement of a FIN, which is one past
\* everything the buffer has transmitted: it is refused when all was sent, and
\* releases a byte too many when not.
LEMMA AcknowledgeFin ==
    ASSUME NEW b \in SendBuf, send_inflight(b) <= b.len, NEW ack, ack = wrapping_add(b.nxt, 1)
    PROVE  /\ acknowledge(b, ack) \in SendBuf
           /\ acknowledge(b, ack).nxt = b.nxt
           /\ acknowledge(b, ack) = b \/ acknowledge(b, ack).una = ack
<1> USE HalfAssumption, SendBufSizeAssumption
<1>1. ack \in SeqNum /\ wrapping_sub(ack, b.una) \in SeqNum
      BY SendBufDistance, WrapType
<1>2. newly_acked(b, ack) \in 0 .. b.len
      BY <1>1, SendBufDistance DEF newly_acked, SeqNum
<1>3. acknowledge(b, ack) = b
      \/ acknowledge(b, ack) = [una |-> ack, nxt |-> b.nxt, len |-> b.len - newly_acked(b, ack)]
      BY DEF acknowledge, SendBuf
<1> QED
    BY <1>1, <1>2, <1>3, SendBufDistance DEF SendBuf
-----------------------------------------------------------------------------
(* The receive buffer's operations, for bytes of any set B.                *)

Staging(B) == UNION {[K -> Seq(B)] : K \in SUBSET SeqNum}

RecvBuf(B) == [nxt : SeqNum, buf : Seq(B), ooo : Staging(B)]

\* What a staging map is.
LEMMA StagingType ==
    ASSUME NEW B, NEW o \in Staging(B)
    PROVE  /\ DOMAIN o \subseteq SeqNum
           /\ o = [k \in DOMAIN o |-> o[k]]
           /\ \A k \in DOMAIN o : o[k] \in Seq(B)
           /\ IsFiniteSet(DOMAIN o)
<1>1. PICK K \in SUBSET SeqNum : o \in [K -> Seq(B)]
      BY DEF Staging
<1>2. IsFiniteSet(SeqNum)
      BY HalfAssumption, FS_Interval DEF SeqNum, Modulus
<1>3. DOMAIN o \subseteq SeqNum
      BY <1>1
<1>4. IsFiniteSet(DOMAIN o)
      BY <1>2, <1>3, FS_Subset
<1> QED
    BY <1>1, <1>4

\* A staging map is any map from sequence numbers to sequences of bytes.
LEMMA StagingIntro ==
    ASSUME NEW B, NEW K \in SUBSET SeqNum, NEW o \in [K -> Seq(B)]
    PROVE  o \in Staging(B)
BY DEF Staging

\* The loop of drain_ooo keeps what each of its iterations keeps: D is the set
\* of the buffers that have some property.
LEMMA DrainKeeps ==
    ASSUME NEW D, NEW rb \in D, IsFiniteSet(DOMAIN rb.ooo), \A r \in D : drain_step(r) \in D
    PROVE  drain_ooo(rb) \in D
<1> DEFINE n == Cardinality(DOMAIN rb.ooo)
           next(r) == CHOOSE q \in {drain_step(p) : p \in {r}} : TRUE
           g == [i \in 1 .. n |-> [r \in D |-> next(r)]]
           Eq(h) == h = [i \in 0 .. n |-> IF i = 0 THEN rb ELSE next(h[i - 1])]
           f == CHOOSE h : Eq(h)
<1>1. n \in Nat
      BY FS_CardinalityType
<1>2. \A r \in D : next(r) \in D
  <2> TAKE r \in D
  <2>1. next(r) \in {drain_step(p) : p \in {r}}
        OBVIOUS
  <2> QED
        BY <2>1
<1>3. drain_ooo(rb) = f[n]
      BY DEF drain_ooo
<1>4. \E h : Eq(h)
  <2> HIDE DEF n, next
  <2>1. g \in [1 .. n -> [D -> D]]
        BY <1>2
  <2>2. PICK h : Runs(h, n, D, rb, g)
    <3> HIDE DEF g
    <3> QED
        BY <1>1, <2>1, Recursion
  <2>3. ASSUME NEW i \in 1 .. n
        PROVE  h[i] = next(h[i - 1])
    <3>1. h[i - 1] \in D
          BY <1>1, <2>2 DEF Runs
    <3> QED
        BY <2>2, <3>1 DEF Runs
  <2> HIDE DEF g
  <2>4. \A i \in 0 .. n : h[i] = IF i = 0 THEN rb ELSE next(h[i - 1])
        BY <1>1, <2>2, <2>3 DEF Runs
  <2> QED
        BY <2>2, <2>4 DEF Runs
<1>5. Eq(f)
  <2> HIDE DEF Eq
  <2> QED
        BY <1>4
<1>6. f[0] = rb /\ \A i \in 1 .. n : f[i] = next(f[i - 1])
  <2> HIDE DEF n, next, f
  <2>1. \A i \in 0 .. n : f[i] = IF i = 0 THEN rb ELSE next(f[i - 1])
        BY <1>5
  <2> QED
        BY <1>1, <2>1
<1> DEFINE S == {i \in 0 .. n : f[i] \in D}
<1> HIDE DEF f, n, next
<1>7. 0 \in S /\ \A i \in 1 .. n : i - 1 \in S => i \in S
      BY <1>1, <1>2, <1>6
<1>8. \A i \in 0 .. n : i \in S
  <2> HIDE DEF S
  <2> QED
        BY <1>1, <1>7, UpTo
<1> QED
    BY <1>1, <1>3, <1>8

\* commit appends what fits and moves nxt over it.
LEMMA CommitProperties ==
    ASSUME NEW B, NEW r \in RecvBuf(B), Len(r.buf) <= RECV_BUF_SIZE, NEW data \in Seq(B),
           NEW n, n = min(Len(data), RECV_BUF_SIZE - Len(r.buf))
    PROVE  /\ n \in Nat /\ n <= Len(data) /\ Len(r.buf) \in Nat
           /\ commit(r, data) \in RecvBuf(B)
           /\ commit(r, data).nxt = wrapping_add(r.nxt, n)
           /\ commit(r, data).ooo = r.ooo
           /\ Len(commit(r, data).buf) = Len(r.buf) + n
           /\ Len(r.buf) + n <= RECV_BUF_SIZE
           /\ \A i \in 1 .. Len(r.buf) : commit(r, data).buf[i] = r.buf[i]
           /\ \A i \in 1 .. n : commit(r, data).buf[Len(r.buf) + i] = data[i]
<1> USE HalfAssumption, RecvBufSizeAssumption
<1>1. r.nxt \in SeqNum /\ r.buf \in Seq(B) /\ r.ooo \in Staging(B)
      BY DEF RecvBuf
<1>2. n \in Nat /\ n <= Len(data) /\ Len(r.buf) + n <= RECV_BUF_SIZE /\ Len(r.buf) \in Nat
  <2>1. Len(r.buf) \in Nat /\ Len(data) \in Nat
        BY <1>1
  <2> DEFINE a == Len(data)
             b == Len(r.buf)
  <2> HIDE DEF a, b
  <2>2. a \in Nat /\ b \in Nat /\ b <= RECV_BUF_SIZE /\ n = min(a, RECV_BUF_SIZE - b)
        BY <2>1 DEF a, b
  <2>3. n \in Nat /\ n <= a /\ b + n <= RECV_BUF_SIZE
        BY <2>2 DEF min
  <2> QED
        BY <2>1, <2>3 DEF a, b
<1> DEFINE front == SubSeq(data, 1, n)
<1>3. front \in Seq(B) /\ Len(front) = n /\ \A i \in 1 .. n : front[i] = data[i]
      BY <1>2
<1>4. commit(r, data) = [nxt |-> wrapping_add(r.nxt, n), buf |-> r.buf \o front, ooo |-> r.ooo]
  <2>1. commit(r, data) = [r EXCEPT !.buf = r.buf \o front, !.nxt = wrapping_add(r.nxt, n)]
        BY DEF commit
  <2>2. r = [nxt |-> r.nxt, buf |-> r.buf, ooo |-> r.ooo]
        BY DEF RecvBuf
  <2> HIDE DEF front
  <2> QED
        BY <2>1, <2>2
<1> HIDE DEF front
<1>5. wrapping_add(r.nxt, n) \in SeqNum
      BY <1>1, <1>2 DEF wrapping_add, SeqNum, Modulus
<1>6. /\ r.buf \o front \in Seq(B) /\ Len(r.buf \o front) = Len(r.buf) + n
      /\ \A i \in 1 .. Len(r.buf) : (r.buf \o front)[i] = r.buf[i]
      /\ \A i \in 1 .. n : (r.buf \o front)[Len(r.buf) + i] = front[i]
  <2> DEFINE b == r.buf
  <2>1. b \in Seq(B) /\ Len(b) \in Nat
        BY <1>1
  <2> HIDE DEF b
  <2>2. b \o front \in Seq(B) /\ Len(b \o front) = Len(b) + Len(front)
        BY <1>3, <2>1, ConcatProperties
  <2>3. \A i \in 1 .. (Len(b) + Len(front)) :
            (b \o front)[i] = IF i <= Len(b) THEN b[i] ELSE front[i - Len(b)]
        BY <1>3, <2>1, ConcatProperties
  <2>4. \A i \in 1 .. n : (b \o front)[Len(b) + i] = front[i]
    <3> TAKE i \in 1 .. n
    <3>1. Len(b) + i \in 1 .. (Len(b) + Len(front)) /\ ~ Len(b) + i <= Len(b)
          BY <1>2, <1>3, <2>1
    <3>2. (Len(b) + i) - Len(b) = i
          BY <1>2, <2>1
    <3> QED
          BY <2>3, <3>1, <3>2
  <2>5. \A i \in 1 .. Len(b) : (b \o front)[i] = b[i]
        BY <1>2, <1>3, <2>1, <2>3
  <2> QED
        BY <1>3, <2>2, <2>4, <2>5 DEF b
<1> QED
    BY <1>1, <1>2, <1>3, <1>4, <1>5, <1>6 DEF RecvBuf

\* unstage forgets one staged segment and nothing else.
LEMMA UnstageProperties ==
    ASSUME NEW B, NEW r \in RecvBuf(B), NEW k
    PROVE  /\ unstage(r, k) \in RecvBuf(B)
           /\ unstage(r, k).nxt = r.nxt /\ unstage(r, k).buf = r.buf
           /\ DOMAIN unstage(r, k).ooo = DOMAIN r.ooo \ {k}
           /\ \A j \in DOMAIN r.ooo \ {k} : unstage(r, k).ooo[j] = r.ooo[j]
<1> DEFINE o == [j \in DOMAIN r.ooo \ {k} |-> r.ooo[j]]
           K == DOMAIN r.ooo \ {k}
<1>1. r.nxt \in SeqNum /\ r.buf \in Seq(B) /\ r.ooo \in Staging(B)
      BY DEF RecvBuf
<1>2. K \in SUBSET SeqNum /\ o \in [K -> Seq(B)]
      BY <1>1, StagingType
<1>3. o \in Staging(B)
  <2> HIDE DEF o, K
  <2> QED
      BY <1>2, StagingIntro
<1>4. unstage(r, k) = [nxt |-> r.nxt, buf |-> r.buf, ooo |-> o]
      BY DEF unstage, RecvBuf
<1>5. DOMAIN o = DOMAIN r.ooo \ {k} /\ \A j \in DOMAIN r.ooo \ {k} : o[j] = r.ooo[j]
      OBVIOUS
<1> HIDE DEF o, K
<1> QED
    BY <1>1, <1>3, <1>4, <1>5 DEF RecvBuf

\* stage files a segment where none is, and nothing else.
LEMMA StageProperties ==
    ASSUME NEW B, NEW r \in RecvBuf(B), NEW k \in SeqNum, NEW data \in Seq(B)
    PROVE  /\ stage(r, k, data) \in RecvBuf(B)
           /\ stage(r, k, data).nxt = r.nxt /\ stage(r, k, data).buf = r.buf
           /\ DOMAIN stage(r, k, data).ooo = DOMAIN r.ooo \cup {k}
           /\ \A j \in DOMAIN r.ooo : stage(r, k, data).ooo[j] = r.ooo[j]
           /\ k \notin DOMAIN r.ooo => stage(r, k, data).ooo[k] = data
<1> DEFINE o == [j \in DOMAIN r.ooo \cup {k} |-> IF j \in DOMAIN r.ooo THEN r.ooo[j] ELSE data]
           K == DOMAIN r.ooo \cup {k}
<1>1. r.nxt \in SeqNum /\ r.buf \in Seq(B) /\ r.ooo \in Staging(B)
      BY DEF RecvBuf
<1>2. K \in SUBSET SeqNum /\ o \in [K -> Seq(B)]
      BY <1>1, StagingType
<1>3. o \in Staging(B)
  <2> HIDE DEF o, K
  <2> QED
      BY <1>2, StagingIntro
<1>4. stage(r, k, data) = [nxt |-> r.nxt, buf |-> r.buf, ooo |-> o]
      BY DEF stage, RecvBuf
<1>5. /\ DOMAIN o = DOMAIN r.ooo \cup {k} /\ \A j \in DOMAIN r.ooo : o[j] = r.ooo[j]
      /\ k \notin DOMAIN r.ooo => o[k] = data
      OBVIOUS
<1> HIDE DEF o, K
<1> QED
    BY <1>1, <1>3, <1>4, <1>5 DEF RecvBuf
Fitting(B) == {r \in RecvBuf(B) : Len(r.buf) <= RECV_BUF_SIZE}

\* The staged segment drained is the one filed at nxt.
LEMMA DrainStepFits ==
    ASSUME NEW B, NEW r \in Fitting(B)
    PROVE  drain_step(r) \in Fitting(B)
<1>0. r \in RecvBuf(B) /\ Len(r.buf) <= RECV_BUF_SIZE /\ r.ooo \in Staging(B)
      BY DEF Fitting, RecvBuf
<1>1. CASE DOMAIN r.ooo # {} /\ first_key(r.ooo) = r.nxt
  <2> DEFINE u == unstage(r, r.nxt)
             d == r.ooo[r.nxt]
             c == commit(u, d)
  <2>1. r.nxt \in DOMAIN r.ooo
    <3>1. DOMAIN r.ooo \in SUBSET Nat
          BY <1>0, StagingType, HalfAssumption DEF SeqNum, Modulus
    <3>2. \E k \in DOMAIN r.ooo : \A j \in DOMAIN r.ooo : k <= j
          BY <1>1, <3>1, LeastNat
    <3> QED
          BY <1>1, <3>2 DEF first_key
  <2>2. d \in Seq(B)
        BY <1>0, <2>1, StagingType
  <2>3. u \in RecvBuf(B) /\ u.buf = r.buf
        BY <1>0, UnstageProperties
  <2>4. drain_step(r) = c
        BY <1>1 DEF drain_step
  <2> HIDE DEF u, d
  <2>5. c \in RecvBuf(B) /\ Len(c.buf) <= RECV_BUF_SIZE
    <3> DEFINE n == min(Len(d), RECV_BUF_SIZE - Len(u.buf))
    <3>1. c \in RecvBuf(B) /\ Len(c.buf) = Len(u.buf) + n /\ Len(u.buf) + n <= RECV_BUF_SIZE
          BY <1>0, <2>2, <2>3, CommitProperties
    <3> QED
          BY <3>1
  <2> QED
        BY <2>4, <2>5 DEF Fitting
<1>2. CASE ~ (DOMAIN r.ooo # {} /\ first_key(r.ooo) = r.nxt)
      BY <1>2 DEF drain_step
<1> QED
    BY <1>1, <1>2

\* insert keeps the types, and the ring within its size, whatever arrives; a
\* segment without data changes nothing.
LEMMA InsertFits ==
    ASSUME NEW B, NEW r \in Fitting(B), NEW seq \in SeqNum, NEW data \in Seq(B)
    PROVE  /\ insert(r, seq, data) \in Fitting(B)
           /\ Len(data) = 0 => insert(r, seq, data) = r
<1> USE HalfAssumption, RecvBufSizeAssumption
<1> DEFINE t == past(r, seq)
           e == wrapping_add(seq, t)
           d == SubSeq(data, t + 1, Len(data))
           n == min(Len(d), RECV_BUF_SIZE - Len(r.buf))
<1>0. r \in RecvBuf(B) /\ Len(r.buf) <= RECV_BUF_SIZE /\ r.nxt \in SeqNum
      BY DEF Fitting, RecvBuf
<1>1. t \in SeqNum
  <2>1. wrapping_sub(r.nxt, seq) \in SeqNum
        BY <1>0, WrapType
  <2> QED
        BY <2>1 DEF past, SeqNum, Modulus
<1>2. e \in SeqNum
      BY <1>1, WrapType
<1>3. insert(r, seq, data) =
          IF t >= Len(data) THEN r
          ELSE IF e = r.nxt THEN drain_ooo(commit(r, d)) ELSE stage(r, e, d)
      BY DEF insert
<1>4. t \in Nat /\ Len(data) \in Nat
      BY <1>1 DEF SeqNum, Modulus
<1>5. d \in Seq(B)
  <2> DEFINE m == t + 1
             l == Len(data)
  <2>1. m \in Int /\ l \in Int /\ m >= 1
        BY <1>4
  <2> HIDE DEF m, l
  <2>2. ASSUME NEW i \in m .. l PROVE data[i] \in B
    <3>1. i \in 1 .. l
          BY <2>1
    <3> QED
          BY <3>1 DEF l
  <2>3. SubSeq(data, m, l) \in Seq(B)
        BY <2>1, <2>2, SubSeqProperties
  <2> QED
        BY <2>3 DEF m, l
<1> HIDE DEF t, e, d
<1>6. CASE t >= Len(data)
      BY <1>3, <1>6
<1>7. CASE ~ t >= Len(data)
  <2>1. Len(data) # 0
        BY <1>4, <1>7
  <2>2. CASE e = r.nxt
    <3> DEFINE c == commit(r, d)
    <3>1. c \in RecvBuf(B) /\ Len(c.buf) = Len(r.buf) + n /\ Len(r.buf) + n <= RECV_BUF_SIZE
          BY <1>0, <1>5, CommitProperties
    <3>2. c \in Fitting(B)
          BY <3>1 DEF Fitting
    <3> HIDE DEF c
    <3>3. IsFiniteSet(DOMAIN c.ooo)
          BY <3>1, StagingType DEF RecvBuf
    <3>4. \A q \in Fitting(B) : drain_step(q) \in Fitting(B)
          BY DrainStepFits
    <3>5. drain_ooo(c) \in Fitting(B)
          BY <3>2, <3>3, <3>4, DrainKeeps
    <3> QED
          BY <1>3, <1>7, <2>1, <2>2, <3>5 DEF c
  <2>3. CASE e # r.nxt
    <3>1. stage(r, e, d) \in RecvBuf(B) /\ stage(r, e, d).buf = r.buf
          BY <1>0, <1>2, <1>5, StageProperties
    <3> QED
          BY <1>0, <1>3, <1>7, <2>1, <2>3, <3>1 DEF Fitting
  <2> QED
        BY <2>2, <2>3
<1> QED
    BY <1>4, <1>6, <1>7, <1>3
=============================================================================
