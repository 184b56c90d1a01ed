--------------------------- MODULE SessionProofs ---------------------------
(***************************************************************************)
(* Proofs about Session, for every request, cut, answer, buffer size and   *)
(* behaviour of the network: what the two ends believe of each other.      *)
(*                                                                         *)
(* Positions replace sequence numbers: Pos counts the bytes of the answer, *)
(* In those of the request.  The order the invariant keeps is SND.UNA,     *)
(* what the client expects, SND.NXT in the one, and what the client knows  *)
(* to be acknowledged, RCV.NXT, the end of the request in the other.       *)
(***************************************************************************)
EXTENDS Session, ConnectionProofs

\* The position of a sequence number in the request.
In(x) == wrapping_sub(x, first)
-----------------------------------------------------------------------------
(* Chunks.                                                                 *)

\* f holds the running sums of s.
Sums(f, s) == f \in [0 .. Len(s) -> Nat] /\ f[0] = 0 /\ \A i \in 1 .. Len(s) : f[i] = f[i - 1] + s[i]

\* Chunks are never empty, and lengths all the same.
LEMMA PositiveChunks ==
    ASSUME NEW s \in Seq(Nat \ {0})
    PROVE  s \in Seq(Nat)
<1>1. Len(s) \in Nat /\ \A i \in 1 .. Len(s) : s[i] \in Nat
      OBVIOUS
<1>2. s \in [1 .. Len(s) -> Nat]
      BY <1>1
<1> QED
    BY <1>1, <1>2, SeqDef

\* bytes is the last of the running sums.
LEMMA BytesSums ==
    ASSUME NEW s \in Seq(Nat)
    PROVE  \E f : Sums(f, s) /\ bytes(s) = f[Len(s)]
<1> DEFINE n == Len(s)
           next(i, x) == x + s[i]
           g == [i \in 1 .. n |-> [x \in Nat |-> next(i, x)]]
           Eq(h) == h = [i \in 0 .. n |-> IF i = 0 THEN 0 ELSE next(i, h[i - 1])]
           f == CHOOSE h : Eq(h)
<1>1. n \in Nat /\ \A i \in 1 .. n : \A x \in Nat : next(i, x) \in Nat
      OBVIOUS
<1>2. bytes(s) = f[n]
      BY DEF bytes
<1>3. PICK h : Runs(h, n, Nat, 0, g)
  <2> HIDE DEF n, next
  <2>1. g \in [1 .. n -> [Nat -> Nat]]
        BY <1>1
  <2> HIDE DEF g
  <2> QED
        BY <1>1, <2>1, Recursion
<1>4. ASSUME NEW i \in 1 .. n PROVE h[i] = next(i, h[i - 1])
  <2>1. i - 1 \in 0 .. n
        BY <1>1
  <2>2. h[i - 1] \in Nat
    <3> HIDE DEF n, g, next
    <3> QED
        BY <1>3, <2>1 DEF Runs
  <2> QED
        BY <1>3, <2>2 DEF Runs
<1> HIDE DEF g, n, next
<1>5. Eq(h)
  <2>1. \A i \in 0 .. n : h[i] = IF i = 0 THEN 0 ELSE next(i, h[i - 1])
        BY <1>1, <1>3, <1>4 DEF Runs
  <2> QED
        BY <1>3, <2>1 DEF Runs
<1>6. Eq(f)
  <2> HIDE DEF Eq
  <2> QED
        BY <1>5
<1> DEFINE S == {i \in 0 .. n : f[i] = h[i]}
<1> HIDE DEF f
<1>7. 0 \in S /\ \A i \in 1 .. n : i - 1 \in S => i \in S
  <2>1. f[0] = 0 /\ h[0] = 0
        BY <1>1, <1>3, <1>6 DEF Runs
  <2>2. ASSUME NEW i \in 1 .. n, f[i - 1] = h[i - 1] PROVE f[i] = h[i]
    <3>1. \A j \in 0 .. n : f[j] = IF j = 0 THEN 0 ELSE next(j, f[j - 1])
          BY <1>6
    <3>2. i \in 0 .. n /\ i # 0
          BY <1>1
    <3>3. f[i] = next(i, f[i - 1])
          BY <3>1, <3>2
    <3> QED
          BY <1>4, <2>2, <3>3
  <2> QED
        BY <1>1, <2>1, <2>2
<1> HIDE DEF S
<1>8. n \in S
  <2>1. \A i \in 0 .. n : i \in S
        BY <1>1, <1>7, UpTo
  <2> QED
        BY <1>1, <2>1
<1>9. bytes(s) = h[n]
      BY <1>2, <1>8 DEF S
<1>10. Sums(h, s)
      BY <1>3, <1>4 DEF Runs, Sums, n, next
<1> QED
    BY <1>9, <1>10 DEF n

\* A channel without chunks holds no bytes.
LEMMA NoBytes == bytes(<<>>) = 0
<1>1. <<>> \in Seq(Nat) /\ Len(<<>>) = 0
      OBVIOUS
<1>2. PICK f : Sums(f, <<>>) /\ bytes(<<>>) = f[Len(<<>>)]
      BY <1>1, BytesSums
<1> QED
    BY <1>1, <1>2 DEF Sums

\* A chunk put into the channel adds its bytes.
LEMMA AppendBytes ==
    ASSUME NEW s \in Seq(Nat), NEW x \in Nat
    PROVE  bytes(s) \in Nat /\ bytes(Append(s, x)) = bytes(s) + x
<1> DEFINE t == Append(s, x)
           n == Len(s)
<1>1. /\ t \in Seq(Nat) /\ Len(t) = n + 1 /\ t[n + 1] = x /\ n \in Nat
      /\ \A i \in 1 .. n : t[i] = s[i]
      OBVIOUS
<1> HIDE DEF t
<1>2. PICK f : Sums(f, s) /\ bytes(s) = f[n]
      BY BytesSums
<1>3. PICK g : Sums(g, t) /\ bytes(t) = g[n + 1]
      BY <1>1, BytesSums
<1> HIDE DEF n
<1> DEFINE S == {i \in 0 .. n : g[i] = f[i]}
<1>4. 0 \in S /\ \A i \in 1 .. n : i - 1 \in S => i \in S
      BY <1>1, <1>2, <1>3 DEF Sums, n
<1> HIDE DEF S
<1>5. n \in S
  <2>1. \A i \in 0 .. n : i \in S
        BY <1>1, <1>4, UpTo
  <2> QED
        BY <1>1, <2>1
<1>6. g[n] = f[n] /\ f[n] \in Nat
      BY <1>1, <1>2, <1>5 DEF S, Sums, n
<1>7. g[n + 1] = g[n] + x
      BY <1>1, <1>3 DEF Sums
<1> QED
    BY <1>2, <1>3, <1>6, <1>7 DEF t

\* A chunk taken from the channel takes its bytes away.
LEMMA TailBytes ==
    ASSUME NEW s \in Seq(Nat), s # <<>>
    PROVE  bytes(s) = Head(s) + bytes(Tail(s)) /\ bytes(Tail(s)) \in Nat
<1> DEFINE t == Tail(s)
           n == Len(s)
<1>1. /\ t \in Seq(Nat) /\ Len(t) = n - 1 /\ n \in Nat /\ n >= 1
      /\ \A i \in 1 .. (n - 1) : t[i] = s[i + 1]
      /\ Head(s) = s[1] /\ s[1] \in Nat
      OBVIOUS
<1> HIDE DEF t
<1>2. PICK f : Sums(f, s) /\ bytes(s) = f[n]
      BY BytesSums
<1>3. PICK g : Sums(g, t) /\ bytes(t) = g[n - 1]
      BY <1>1, BytesSums
<1> DEFINE m == n - 1
           S == {i \in 0 .. m : f[i + 1] = g[i] + s[1]}
<1>4. /\ f[0] = 0 /\ g[0] = 0
      /\ \A i \in 1 .. n : f[i] = f[i - 1] + s[i]
      /\ \A i \in 1 .. m : g[i] = g[i - 1] + t[i]
      /\ \A i \in 0 .. m : g[i] \in Nat
      BY <1>1, <1>2, <1>3 DEF Sums
<1> HIDE DEF n
<1>5. 0 \in S
  <2>1. f[1] = f[0] + s[1]
        BY <1>1, <1>4
  <2> QED
        BY <1>1, <1>4, <2>1
<1>6. ASSUME NEW i \in 1 .. m, i - 1 \in S PROVE i \in S
  <2>1. f[i] = g[i - 1] + s[1]
        BY <1>6
  <2>2. f[i + 1] = f[i] + s[i + 1]
        BY <1>1, <1>4
  <2>3. g[i] = g[i - 1] + s[i + 1]
        BY <1>1, <1>4
  <2>4. g[i - 1] \in Nat /\ s[i + 1] \in Nat
        BY <1>1, <1>4 DEF n
  <2>5. f[i + 1] = g[i] + s[1]
    <3> DEFINE x == g[i - 1]
               y == s[i + 1]
               z == s[1]
    <3>1. f[i + 1] = (x + z) + y /\ g[i] = x + y
          BY <2>1, <2>2, <2>3, Zenon
    <3>2. x \in Nat /\ y \in Nat /\ z \in Nat
          BY <1>1, <2>4
    <3> HIDE DEF x, y, z
    <3>3. (x + z) + y = (x + y) + z
          BY <3>2
    <3>4. f[i + 1] = g[i] + z
          BY <3>1, <3>3, Zenon
    <3> QED
          BY <3>4 DEF z
  <2> QED
        BY <1>1, <2>5
<1>7. m \in Nat /\ m \in 0 .. m
      BY <1>1
<1> HIDE DEF S, m
<1>8. m \in S
  <2>1. \A i \in 0 .. m : i \in S
        BY <1>5, <1>6, <1>7, UpTo
  <2> QED
        BY <1>7, <2>1
<1>9. f[n] = g[n - 1] + s[1] /\ g[n - 1] \in Nat
      BY <1>1, <1>4, <1>7, <1>8 DEF S, m
<1> QED
    BY <1>1, <1>2, <1>3, <1>9 DEF t
-----------------------------------------------------------------------------
(* The receive buffer, in positions of the request.                        *)

\* The buffers that hold, in the ring and staged, nothing past byte t.
Within(t) ==
    {r \in Fitting(SeqNum) :
        /\ In(r.nxt) <= t
        /\ \A k \in DOMAIN r.ooo : In(k) + Len(r.ooo[k]) <= t}

\* The lengths a request may have.
Total == 1 .. SEND_BUF_SIZE

\* They are far less than half the sequence space.
LEMMA TotalType ==
    ASSUME NEW t \in Total
    PROVE  t \in Nat /\ t >= 1 /\ t <= SEND_BUF_SIZE /\ t < Half
BY HalfAssumption, SendBufSizeAssumption DEF Total

\* The request starts at first.
LEMMA FirstType == first \in SeqNum /\ In(first) = 0
<1>1. 1 \in SeqNum /\ PeerIss \in SeqNum
      BY HalfAssumption, SessionAssumption DEF SeqNum, Modulus
<1>2. first \in SeqNum
      BY <1>1, WrapType DEF first
<1> QED
    BY <1>2, ZeroDistance DEF In

\* Positions are numbers.
LEMMA InType ==
    ASSUME NEW x \in SeqNum
    PROVE  In(x) \in SeqNum /\ In(x) \in Nat
<1>1. In(x) \in SeqNum
      BY FirstType, WrapType DEF In
<1> QED
    BY <1>1 DEF SeqNum

\* They advance with the sequence numbers.
LEMMA InAdvance ==
    ASSUME NEW x \in SeqNum, NEW n \in Nat, In(x) + n < Modulus
    PROVE  wrapping_add(x, n) \in SeqNum /\ In(wrapping_add(x, n)) = In(x) + n
BY FirstType, AdvanceDistance DEF In

\* commit takes in what fits.
LEMMA CommitWithin ==
    ASSUME NEW t \in Total, NEW r \in Within(t), NEW data \in Seq(SeqNum),
           In(r.nxt) + Len(data) <= t
    PROVE  /\ commit(r, data) \in Within(t)
           /\ In(commit(r, data).nxt) = In(r.nxt) + min(Len(data), RECV_BUF_SIZE - Len(r.buf))
<1> DEFINE n == min(Len(data), RECV_BUF_SIZE - Len(r.buf))
           c == commit(r, data)
<1>1. r \in RecvBuf(SeqNum) /\ Len(r.buf) <= RECV_BUF_SIZE /\ r.nxt \in SeqNum
      BY DEF Within, Fitting, RecvBuf
<1>2. /\ n \in Nat /\ n <= Len(data) /\ Len(r.buf) \in Nat
      /\ c \in RecvBuf(SeqNum) /\ c.nxt = wrapping_add(r.nxt, n) /\ c.ooo = r.ooo
      /\ Len(c.buf) = Len(r.buf) + n /\ Len(r.buf) + n <= RECV_BUF_SIZE
      BY <1>1, CommitProperties
<1> HIDE DEF n, c
<1>3. c \in Fitting(SeqNum)
      BY <1>2 DEF Fitting
<1>4. In(r.nxt) \in Nat /\ Len(data) \in Nat
      BY <1>1, InType, LenProperties
<1>5. In(r.nxt) + n < Modulus
      BY <1>2, <1>4, TotalType, HalfAssumption DEF Modulus
<1>6. In(c.nxt) = In(r.nxt) + n
      BY <1>1, <1>2, <1>5, InAdvance
<1>7. In(c.nxt) <= t
      BY <1>2, <1>4, <1>6, TotalType
<1>8. \A k \in DOMAIN c.ooo : In(k) + Len(c.ooo[k]) <= t
      BY <1>2 DEF Within
<1>9. c \in Within(t)
      BY <1>3, <1>7, <1>8 DEF Within
<1> QED
    BY <1>6, <1>9 DEF n, c

\* So does an iteration of drain_ooo.
LEMMA DrainStepWithin ==
    ASSUME NEW t \in Total, NEW r \in Within(t)
    PROVE  drain_step(r) \in Within(t) /\ In(r.nxt) <= In(drain_step(r).nxt)
<1>0. r \in RecvBuf(SeqNum) /\ Len(r.buf) <= RECV_BUF_SIZE /\ r.ooo \in Staging(SeqNum)
      /\ r.nxt \in SeqNum
      BY DEF Within, Fitting, RecvBuf
<1>01. In(r.nxt) \in Nat
      BY <1>0, InType
<1>1. CASE DOMAIN r.ooo # {} /\ first_key(r.ooo) = r.nxt
  <2> DEFINE u == unstage(r, r.nxt)
             d == r.ooo[r.nxt]
  <2>1. r.nxt \in DOMAIN r.ooo
    <3>1. DOMAIN r.ooo \in SUBSET Nat
          BY <1>0, StagingType, HalfAssumption DEF SeqNum, Modulus
    <3>2. \E k \in DOMAIN r.ooo : \A j \in DOMAIN r.ooo : k <= j
          BY <1>1, <3>1, LeastNat
    <3> QED
          BY <1>1, <3>2 DEF first_key
  <2>2. d \in Seq(SeqNum)
        BY <1>0, <2>1, StagingType
  <2>3. In(r.nxt) + Len(d) <= t
        BY <2>1 DEF Within
  <2>4. /\ u \in RecvBuf(SeqNum) /\ u.nxt = r.nxt /\ u.buf = r.buf
        /\ DOMAIN u.ooo \subseteq DOMAIN r.ooo
        /\ \A k \in DOMAIN u.ooo : u.ooo[k] = r.ooo[k]
        BY <1>0, UnstageProperties
  <2>5. drain_step(r) = commit(u, d)
        BY <1>1 DEF drain_step
  <2> HIDE DEF u, d
  <2>6. u \in Within(t)
    <3>1. u \in Fitting(SeqNum)
          BY <1>0, <2>4 DEF Fitting
    <3>2. \A k \in DOMAIN u.ooo : In(k) + Len(u.ooo[k]) <= t
          BY <2>4 DEF Within
    <3>3. In(u.nxt) <= t
          BY <2>4 DEF Within
    <3> QED
          BY <3>1, <3>2, <3>3 DEF Within
  <2>7. /\ commit(u, d) \in Within(t)
        /\ In(commit(u, d).nxt) = In(r.nxt) + min(Len(d), RECV_BUF_SIZE - Len(u.buf))
        BY <2>2, <2>3, <2>4, <2>6, CommitWithin
  <2>8. min(Len(d), RECV_BUF_SIZE - Len(u.buf)) \in Nat
    <3>1. Len(d) \in Nat /\ Len(u.buf) \in Nat /\ Len(u.buf) <= RECV_BUF_SIZE
          BY <1>0, <2>2, <2>4, LenProperties DEF RecvBuf
    <3> QED
          BY <3>1, RecvBufSizeAssumption DEF min
  <2> QED
        BY <1>01, <2>5, <2>7, <2>8
<1>2. CASE ~ (DOMAIN r.ooo # {} /\ first_key(r.ooo) = r.nxt)
      BY <1>01, <1>2 DEF drain_step
<1> QED
    BY <1>1, <1>2

\* And the whole of it.
LEMMA DrainWithin ==
    ASSUME NEW t \in Total, NEW r \in Within(t)
    PROVE  drain_ooo(r) \in Within(t) /\ In(r.nxt) <= In(drain_ooo(r).nxt)
<1> DEFINE D == {q \in Within(t) : In(r.nxt) <= In(q.nxt)}
<1>1. r \in RecvBuf(SeqNum) /\ r.nxt \in SeqNum /\ r.ooo \in Staging(SeqNum)
      BY DEF Within, Fitting, RecvBuf
<1>2. In(r.nxt) \in Nat
      BY <1>1, InType
<1>3. r \in D
      BY <1>2
<1>4. ASSUME NEW q \in D PROVE drain_step(q) \in D
  <2>1. q \in Within(t) /\ In(r.nxt) <= In(q.nxt)
        OBVIOUS
  <2>2. drain_step(q) \in Within(t) /\ In(q.nxt) <= In(drain_step(q).nxt)
        BY <2>1, DrainStepWithin
  <2>3. q.nxt \in SeqNum /\ drain_step(q).nxt \in SeqNum
        BY <2>1, <2>2 DEF Within, Fitting, RecvBuf
  <2>4. In(q.nxt) \in Nat /\ In(drain_step(q).nxt) \in Nat
        BY <2>3, InType
  <2>5. In(r.nxt) <= In(drain_step(q).nxt)
        BY <1>2, <2>1, <2>2, <2>4
  <2> QED
        BY <2>2, <2>5
<1>5. IsFiniteSet(DOMAIN r.ooo)
      BY <1>1, StagingType
<1> HIDE DEF D
<1>6. drain_ooo(r) \in D
      BY <1>3, <1>4, <1>5, DrainKeeps
<1> QED
    BY <1>6 DEF D

\* Where a segment is filed, and how much of it is left: the part before nxt is
\* cut off, however the two lie around the wrap.
LEMMA TrimWithin ==
    ASSUME NEW t \in Total, NEW r \in Within(t), NEW off \in Nat, NEW n \in Nat, off + n <= t,
           NEW seq, seq = wrapping_add(first, off)
    PROVE  /\ seq \in SeqNum /\ In(seq) = off
           /\ past(r, seq) \in Nat
           /\ past(r, seq) < n => In(wrapping_add(seq, past(r, seq))) = off + past(r, seq)
           /\ In(r.nxt) = 0 => past(r, seq) = 0
<1> DEFINE a == In(r.nxt)
           p == past(r, seq)
<1>1. r.nxt \in SeqNum /\ a <= t
      BY DEF Within, Fitting, RecvBuf
<1>2. a \in Nat
      BY <1>1, InType
<1>3. t \in Nat /\ t < Half /\ Half \in Nat /\ t < Modulus
      BY TotalType, HalfAssumption DEF Modulus
<1>4. In(first) + off < Modulus
      BY <1>3, FirstType, HalfAssumption DEF Modulus
<1>5. seq \in SeqNum /\ In(seq) = off
      BY <1>4, FirstType, InAdvance
<1>6. seq_le(seq, r.nxt) <=> off <= a
  <2>1. In(seq) < Half /\ In(r.nxt) < Half
        BY <1>1, <1>2, <1>3, <1>5
  <2>2. seq_le(seq, r.nxt) <=> In(seq) <= In(r.nxt)
        BY <1>1, <1>5, <2>1, FirstType, OrderIsDistance DEF In
  <2> QED
        BY <1>5, <2>2
<1>7. p = IF off < a THEN a - off ELSE 0
  <2>1. CASE off < a
    <3>1. seq_lt(seq, r.nxt)
          BY <1>2, <1>5, <1>6, <2>1 DEF seq_le
    <3>2. wrapping_sub(r.nxt, seq) = a - off
      <4>1. In(seq) <= In(r.nxt)
            BY <1>2, <1>5, <2>1
      <4>2. wrapping_sub(r.nxt, seq) = In(r.nxt) - In(seq)
            BY <1>1, <1>5, <4>1, FirstType, RebaseDistance DEF In
      <4> QED
            BY <1>5, <4>2
    <3> QED
          BY <2>1, <3>1, <3>2 DEF past
  <2>2. CASE ~ off < a
    <3>1. ~ seq_lt(seq, r.nxt)
      <4>1. CASE off = a
            BY <1>1, <1>5, <4>1, FirstType, DistanceInjective DEF In, seq_lt
      <4>2. CASE off > a
            BY <1>2, <1>6, <4>2 DEF seq_le
      <4> QED
            BY <1>2, <2>2, <4>1, <4>2
    <3> QED
          BY <2>2, <3>1 DEF past
  <2> QED
        BY <2>1, <2>2
<1> HIDE DEF p
<1>8. p \in Nat /\ (a = 0 => p = 0)
      BY <1>2, <1>7
<1>9. ASSUME p < n PROVE In(wrapping_add(seq, p)) = off + p
  <2>1. In(seq) + p < Modulus
        BY <1>3, <1>5, <1>8, <1>9, HalfAssumption DEF Modulus
  <2> QED
        BY <1>5, <1>8, <2>1, InAdvance
<1> QED
    BY <1>5, <1>8, <1>9 DEF p

\* insert keeps to the request, and the first bytes it takes in are those of a
\* first segment.
LEMMA InsertWithin ==
    ASSUME NEW t \in Total, NEW r \in Within(t), r.buf = <<>>, NEW off \in Nat,
           NEW data \in Seq(SeqNum), off + Len(data) <= t,
           NEW seq, seq = wrapping_add(first, off)
    PROVE  /\ insert(r, seq, data) \in Within(t)
           /\ In(r.nxt) <= In(insert(r, seq, data).nxt)
           /\ In(r.nxt) = 0 /\ In(insert(r, seq, data).nxt) > 0 =>
                 off = 0 /\ min(Len(data), RECV_BUF_SIZE) <= In(insert(r, seq, data).nxt)
<1> DEFINE n == Len(data)
           a == In(r.nxt)
           p == past(r, seq)
           e == wrapping_add(seq, p)
           d == SubSeq(data, p + 1, n)
           i == insert(r, seq, data)
<1>1. i = IF p >= n THEN r ELSE IF e = r.nxt THEN drain_ooo(commit(r, d)) ELSE stage(r, e, d)
      BY DEF insert
<1>2. n \in Nat
      OBVIOUS
<1> HIDE DEF n
<1>3. /\ seq \in SeqNum /\ In(seq) = off /\ p \in Nat
      /\ p < n => In(e) = off + p
      /\ a = 0 => p = 0
      BY <1>2, TrimWithin DEF n
<1>4. r \in RecvBuf(SeqNum) /\ r \in Fitting(SeqNum) /\ r.nxt \in SeqNum
      BY DEF Within, Fitting, RecvBuf
<1>5. a \in Nat
      BY <1>4, InType
<1> HIDE DEF p
<1>6. CASE p >= n
      BY <1>1, <1>5, <1>6
<1>7. CASE p < n
  <2>1. d \in Seq(SeqNum) /\ Len(d) = n - p
    <3> DEFINE m == p + 1
    <3>1. m \in Int /\ n \in Int /\ m >= 1 /\ m <= n + 1
          BY <1>2, <1>3, <1>7
    <3> HIDE DEF m
    <3>2. ASSUME NEW j \in m .. n PROVE data[j] \in SeqNum
      <4>1. j \in 1 .. n
            BY <3>1
      <4> QED
            BY <4>1 DEF n
    <3>3. SubSeq(data, m, n) \in Seq(SeqNum) /\ Len(SubSeq(data, m, n)) = n - m + 1
          BY <3>1, <3>2, SubSeqProperties
    <3> QED
          BY <1>2, <1>3, <3>3 DEF m
  <2>2. e \in SeqNum
    <3>1. p \in SeqNum
      <4>1. n <= t /\ t < Modulus /\ t \in Nat
            BY <1>2, TotalType, HalfAssumption DEF Modulus, n
      <4> QED
            BY <1>2, <1>3, <1>7, <4>1, HalfAssumption DEF SeqNum, Modulus
    <3> QED
          BY <1>3, <3>1, WrapType
  <2>3. In(e) + Len(d) <= t
        BY <1>2, <1>3, <1>7, <2>1 DEF n
  <2> HIDE DEF d, e
  <2>4. CASE e = r.nxt
    <3> DEFINE c == commit(r, d)
    <3>1. c \in Within(t) /\ In(c.nxt) = a + min(Len(d), RECV_BUF_SIZE - Len(r.buf))
          BY <2>1, <2>3, <2>4, CommitWithin
    <3>2. i = drain_ooo(c)
          BY <1>1, <1>2, <1>3, <1>7, <2>4
    <3> HIDE DEF c
    <3>3. drain_ooo(c) \in Within(t) /\ In(c.nxt) <= In(drain_ooo(c).nxt)
          BY <3>1, DrainWithin
    <3>4. Len(r.buf) = 0
          OBVIOUS
    <3>5. i.nxt \in SeqNum
          BY <3>2, <3>3 DEF Within, Fitting, RecvBuf
    <3>6. In(i.nxt) \in Nat
          BY <3>5, InType
    <3>7. a + min(n - p, RECV_BUF_SIZE) <= In(i.nxt)
          BY <2>1, <3>1, <3>2, <3>3, <3>4, RecvBufSizeAssumption
    <3>8. a <= In(i.nxt)
          BY <1>2, <1>3, <1>5, <1>7, <3>6, <3>7, RecvBufSizeAssumption DEF min
    <3>9. a = 0 => off = 0 /\ min(n, RECV_BUF_SIZE) <= In(i.nxt)
          BY <1>2, <1>3, <1>5, <1>7, <2>4, <3>6, <3>7, RecvBufSizeAssumption DEF min
    <3> HIDE DEF a, i
    <3> QED
          BY <3>2, <3>3, <3>8, <3>9 DEF a, i, n
  <2>5. CASE e # r.nxt
    <3> DEFINE s == stage(r, e, d)
    <3>1. i = s
          BY <1>1, <1>2, <1>3, <1>7, <2>5
    <3>2. /\ s \in RecvBuf(SeqNum) /\ s.nxt = r.nxt /\ s.buf = r.buf
          /\ DOMAIN s.ooo = DOMAIN r.ooo \cup {e}
          /\ \A j \in DOMAIN r.ooo : s.ooo[j] = r.ooo[j]
          /\ e \notin DOMAIN r.ooo => s.ooo[e] = d
          BY <1>4, <2>1, <2>2, StageProperties
    <3> HIDE DEF s
    <3>3. ASSUME NEW k \in DOMAIN s.ooo PROVE In(k) + Len(s.ooo[k]) <= t
      <4>1. CASE k \in DOMAIN r.ooo
            BY <3>2, <4>1 DEF Within
      <4>2. CASE k \notin DOMAIN r.ooo
            BY <2>3, <3>2, <4>2
      <4> QED
            BY <4>1, <4>2
    <3>4. s \in Fitting(SeqNum)
          BY <1>4, <3>2 DEF Fitting
    <3>5. In(s.nxt) <= t
          BY <3>2 DEF Within
    <3>6. s \in Within(t)
          BY <3>3, <3>4, <3>5 DEF Within
    <3> QED
          BY <1>5, <3>1, <3>2, <3>6
  <2> QED
        BY <2>4, <2>5
<1> QED
    BY <1>2, <1>3, <1>6, <1>7
-----------------------------------------------------------------------------
(* The invariant.                                                          *)

\* What the server's state means to the client, and what it can be.
View == [state |-> state, iss |-> snd.iss, una |-> sb.una, nxt |-> sb.nxt, rcv |-> rb.nxt]

Views ==
    {v \in [state : TcbState, iss : SeqNum, una : SeqNum, nxt : SeqNum, rcv : SeqNum] :
        v.state = "SynReceived" => v.una = wrapping_add(v.iss, 1)}

\* The position of a sequence number in the answer.
Pos(x, v) == wrapping_sub(x, wrapping_add(v.iss, 1))

Receiving == {"SynReceived", "Established"}

\* The client expects a byte of the flight, and knows no byte of its request
\* acknowledged that was not taken in.
Client(c, v) ==
    /\ c \in [open : BOOLEAN, una : SeqNum, nxt : SeqNum, owe : BOOLEAN]
    /\ c.open =>
          /\ v.state # "Listen"
          /\ Pos(v.una, v) <= Pos(c.nxt, v)
          /\ Pos(c.nxt, v) <= Pos(v.nxt, v)
          /\ v.state \in Receiving => In(c.una) <= In(v.rcv)

\* A segment that tells the client nothing else.
Honest(m, v) ==
    /\ m.seq \in SeqNum /\ m.ack_num \in SeqNum /\ end_of(m) \in SeqNum /\ m.len \in Nat
    /\ ~ Has(m, "RST")
    /\ Has(m, "SYN") => v.state = "SynReceived" /\ m.seq = v.iss
    /\ m.len > 0 =>
          /\ Pos(end_of(m), v) <= Pos(v.nxt, v)
          /\ Pos(v.una, v) <= Pos(end_of(m), v) \/ Pos(m.seq, v) < Pos(end_of(m), v)
    /\ v.state \in Receiving => In(m.ack_num) <= In(v.rcv)

\* The states the server comes to while the client keeps to the protocol and
\* the application does not close.
PhaseInv ==
    /\ state \in {"Listen", "SynReceived", "Established", "CloseWait"}
    /\ pc \in {"select", "flush", "loop_end"}
    /\ ~ close_initiated

\* The answer has not been written yet.
Unwritten == app.answer = "none" \/ app.send_tx # <<>>

\* Written and acknowledged, the answer is no longer than the buffer: it is
\* written once.
AnswerInv ==
    /\ Pos(sb.una, View) + sb.len <= SEND_BUF_SIZE
    /\ Unwritten => sb.len = 0 /\ Pos(sb.una, View) = 0

\* What was taken in of the request has been handed on or is about to be, and
\* nothing is staged that is not of the request.
RequestInv ==
    IF state = "Listen" THEN Forwarded = 0 /\ taken = 0
    ELSE rb \in Within(request.total) /\ In(rb.nxt) = Forwarded + taken

AppInv ==
    /\ request \in Requests
    /\ app \in [data_rx : Seq(Nat \ {0}), got : Nat, answer : {"none", "http", "echo"},
                len : 0 .. SEND_BUF_SIZE, send_tx : Seq(0 .. SEND_BUF_SIZE)]
    /\ Len(app.send_tx) <= 1
    /\ app.answer = "none" => app.send_tx = <<>>

\* No first segment of the request is shorter than its method word.
Unsplit == \A c \in request.cuts : c.off = 0 => c.len >= request.word

\* Then what is handed on first has it whole.
WordInv ==
    Unsplit =>
        /\ app.answer # "echo"
        /\ app.got > 0 => app.got >= request.word
        /\ app.got = 0 /\ app.data_rx # <<>> => app.data_rx[1] >= request.word

\* The task holds bytes only between a segment and the flush that follows it,
\* and the first it holds have the method word whole as well.
TakenInv ==
    /\ taken \in Nat
    /\ taken > 0 => pc = "flush"
    /\ Unsplit /\ taken > 0 /\ Forwarded = 0 => request.word <= taken

OutInv == \A m \in out : Honest(m, View)

ServerInv ==
    PhaseInv /\ AnswerInv /\ RequestInv /\ AppInv /\ WordInv /\ TakenInv /\ OutInv

SessionInv == SendInv /\ RecvInv /\ ServerInv /\ Client(cl, View)
-----------------------------------------------------------------------------
(* The client.                                                             *)

\* Positions in the answer are numbers, and the i-th byte is at position i.
LEMMA PosType ==
    ASSUME NEW v \in Views, NEW x \in SeqNum
    PROVE  wrapping_add(v.iss, 1) \in SeqNum /\ Pos(x, v) \in SeqNum /\ Pos(x, v) \in Nat
<1>1. v.iss \in SeqNum /\ 1 \in SeqNum
      BY HalfAssumption DEF Views, SeqNum, Modulus
<1>2. wrapping_add(v.iss, 1) \in SeqNum
      BY <1>1, WrapType
<1>3. Pos(x, v) \in SeqNum
      BY <1>2, WrapType DEF Pos
<1> QED
    BY <1>2, <1>3 DEF SeqNum

\* The byte at a position.
LEMMA PosOf ==
    ASSUME NEW v \in Views, NEW i \in Nat, i + 1 < Modulus
    PROVE  wrapping_add(v.iss, 1 + i) \in SeqNum /\ Pos(wrapping_add(v.iss, 1 + i), v) = i
<1>1. v.iss \in SeqNum
      BY DEF Views
<1> QED
    BY <1>1, HalfAssumption DEF Pos, wrapping_add, wrapping_sub, SeqNum, Modulus

\* Nothing an honest segment tells the client leads it astray.
LEMMA HearKeeps ==
    ASSUME NEW v \in Views, NEW c, Client(c, v), NEW m, Honest(m, v)
    PROVE  Client(hear(c, m), v)
<1> DEFINE h == hear(c, m)
           C == [open : BOOLEAN, una : SeqNum, nxt : SeqNum, owe : BOOLEAN]
<1>1. /\ c \in C /\ c.open \in BOOLEAN /\ c.owe \in BOOLEAN /\ c.una \in SeqNum /\ c.nxt \in SeqNum
      /\ c = [open |-> c.open, una |-> c.una, nxt |-> c.nxt, owe |-> c.owe]
      BY DEF Client
<1>2. CASE Has(m, "SYN")
  <2> DEFINE u == IF c.open THEN c.una ELSE first
             x == IF c.open THEN c.nxt ELSE wrapping_add(m.seq, 1)
  <2>1. h = [open |-> TRUE, una |-> u, nxt |-> x, owe |-> TRUE]
        BY <1>1, <1>2 DEF hear
  <2>2. v.state = "SynReceived" /\ m.seq = v.iss /\ v.una = wrapping_add(v.iss, 1)
        BY <1>2 DEF Honest, Views
  <2>3. wrapping_add(v.iss, 1) \in SeqNum /\ first \in SeqNum /\ v.nxt \in SeqNum /\ v.rcv \in SeqNum
        BY PosType, FirstType, <1>1 DEF Views
  <2>4. h \in C
        BY <1>1, <2>1, <2>2, <2>3
  <2>5. CASE c.open
        BY <2>1, <2>4, <2>5 DEF Client
  <2>6. CASE ~ c.open
    <3>1. h.una = first /\ h.nxt = v.una
          BY <2>1, <2>2, <2>6
    <3>2. Pos(v.una, v) = 0
          BY <2>2, <2>3, ZeroDistance DEF Pos
    <3>3. Pos(v.nxt, v) \in Nat /\ In(v.rcv) \in Nat /\ In(first) = 0
          BY <2>3, PosType, InType, FirstType
    <3> HIDE DEF h
    <3>4. Client(h, v)
          BY <2>2, <2>4, <3>1, <3>2, <3>3 DEF Client
    <3> QED
          BY <3>4 DEF h
  <2> QED
        BY <2>5, <2>6
<1>3. CASE ~ Has(m, "SYN")
  <2> DEFINE u == IF seq_lt(c.una, m.ack_num) THEN m.ack_num ELSE c.una
             x == IF m.len > 0 /\ m.seq = c.nxt THEN end_of(m) ELSE c.nxt
             o == c.owe \/ m.len > 0
  <2>1. h = [open |-> c.open, una |-> u, nxt |-> x, owe |-> o]
        BY <1>1, <1>3 DEF hear
  <2>2. m.ack_num \in SeqNum /\ end_of(m) \in SeqNum /\ m.seq \in SeqNum /\ v.una \in SeqNum
        BY DEF Honest, Views
  <2>3. u \in SeqNum /\ x \in SeqNum
        BY <1>1, <2>2
  <2>4. o \in BOOLEAN
        BY <1>1
  <2>5. h \in C
        BY <1>1, <2>1, <2>3, <2>4
  <2>6. ASSUME c.open
        PROVE  /\ v.state # "Listen"
               /\ Pos(v.una, v) <= Pos(x, v) /\ Pos(x, v) <= Pos(v.nxt, v)
               /\ v.state \in Receiving => In(u) <= In(v.rcv)
    <3>1. /\ v.state # "Listen"
          /\ Pos(v.una, v) <= Pos(c.nxt, v) /\ Pos(c.nxt, v) <= Pos(v.nxt, v)
          /\ v.state \in Receiving => In(c.una) <= In(v.rcv)
          BY <2>6 DEF Client
    <3>2. v.state \in Receiving => In(m.ack_num) <= In(v.rcv)
          BY DEF Honest
    <3>3. CASE m.len > 0 /\ m.seq = c.nxt
      <4>1. /\ Pos(end_of(m), v) <= Pos(v.nxt, v)
            /\ Pos(v.una, v) <= Pos(end_of(m), v) \/ Pos(m.seq, v) < Pos(end_of(m), v)
            BY <3>3 DEF Honest
      <4>2. Pos(v.una, v) \in Nat /\ Pos(end_of(m), v) \in Nat /\ Pos(m.seq, v) \in Nat
            BY <2>2, PosType
      <4>3. Pos(v.una, v) <= Pos(end_of(m), v)
            BY <3>1, <3>3, <4>1, <4>2
      <4> QED
            BY <3>1, <3>2, <3>3, <4>1, <4>3
    <3>4. CASE ~ (m.len > 0 /\ m.seq = c.nxt)
          BY <3>1, <3>2, <3>4
    <3> QED
          BY <3>3, <3>4
  <2> HIDE DEF u, x, o, h
  <2>7. h.open = c.open /\ h.una = u /\ h.nxt = x
        BY <2>1
  <2>8. Client(h, v)
        BY <2>5, <2>6, <2>7 DEF Client
  <2> QED
        BY <2>8 DEF h
<1> QED
    BY <1>2, <1>3

\* The client stays in step with a server that acknowledges and sends more.
LEMMA ClientMoves ==
    ASSUME NEW v \in Views, NEW w \in Views, w.iss = v.iss, NEW c, Client(c, v),
           w.state = "Listen" => v.state = "Listen",
           c.open => Pos(w.una, v) <= Pos(c.nxt, v),
           Pos(v.nxt, v) <= Pos(w.nxt, v),
           v.state # "Listen" /\ w.state \in Receiving =>
               v.state \in Receiving /\ In(v.rcv) <= In(w.rcv)
    PROVE  Client(c, w)
<1>1. \A x : Pos(x, w) = Pos(x, v)
      BY DEF Pos
<1>2. c \in [open : BOOLEAN, una : SeqNum, nxt : SeqNum, owe : BOOLEAN]
      BY DEF Client
<1>3. CASE ~ c.open
      BY <1>2, <1>3 DEF Client
<1>4. CASE c.open
  <2>1. /\ v.state # "Listen" /\ Pos(c.nxt, v) <= Pos(v.nxt, v)
        /\ v.state \in Receiving => In(c.una) <= In(v.rcv)
        BY <1>4 DEF Client
  <2>2. /\ c.nxt \in SeqNum /\ c.una \in SeqNum /\ v.nxt \in SeqNum /\ w.nxt \in SeqNum
        /\ v.rcv \in SeqNum /\ w.rcv \in SeqNum
        BY <1>2 DEF Views
  <2>3. Pos(c.nxt, v) \in Nat /\ Pos(v.nxt, v) \in Nat /\ Pos(w.nxt, v) \in Nat
        BY <2>2, PosType
  <2>4. In(c.una) \in Nat /\ In(v.rcv) \in Nat /\ In(w.rcv) \in Nat
        BY <2>2, InType
  <2>5. Pos(c.nxt, v) <= Pos(w.nxt, v)
        BY <2>1, <2>3
  <2>6. w.state \in Receiving => In(c.una) <= In(w.rcv)
        BY <2>1, <2>4
  <2> QED
        BY <1>1, <1>2, <1>4, <2>1, <2>5, <2>6 DEF Client
<1> QED
    BY <1>3, <1>4
-----------------------------------------------------------------------------
(* The server.                                                             *)

ViewOK == View \in Views

\* The server's view has the right types.
LEMMA ViewType == SendInv /\ RecvInv => ViewOK
<1> SUFFICES ASSUME SendInv, RecvInv PROVE ViewOK
      OBVIOUS
<1>1. state \in TcbState /\ snd.iss \in SeqNum /\ sb.una \in SeqNum /\ sb.nxt \in SeqNum
      BY SendTypes DEF SendInv, SendTypeOK
<1>2. rb.nxt \in SeqNum
      BY DEF RecvInv, RecvBuf
<1>3. state = "SynReceived" => sb.una = wrapping_add(snd.iss, 1)
      BY DEF SendInv, HandshakeInv, Fresh, send_new
<1> QED
    BY <1>1, <1>2, <1>3 DEF View, Views, ViewOK

\* After a step too.
LEMMA NextViewType == SendInv' /\ RecvInv' => ViewOK'
BY ViewType, PTL

\* The flight, in positions: what was sent of the answer fits the buffer.
LEMMA Positions ==
    ASSUME SendInv, RecvInv, PhaseInv, AnswerInv
    PROVE  /\ Pos(sb.una, View) \in Nat /\ Pos(sb.nxt, View) \in Nat
           /\ send_inflight(sb) \in Nat /\ sb.len \in Nat
           /\ send_inflight(sb) <= sb.len
           /\ Pos(sb.nxt, View) = Pos(sb.una, View) + send_inflight(sb)
           /\ Pos(sb.nxt, View) <= SEND_BUF_SIZE
           /\ SEND_BUF_SIZE \in Nat /\ SEND_BUF_SIZE + 1 < Half /\ Half \in Nat /\ Half < Modulus
<1>1. sb.una \in SeqNum /\ sb.nxt \in SeqNum /\ sb.len \in 0 .. SEND_BUF_SIZE
      BY SendTypes DEF SendInv
<1>2. View \in Views
      BY ViewType DEF ViewOK
<1>3. Pos(sb.una, View) \in Nat /\ Pos(sb.nxt, View) \in Nat /\ wrapping_add(View.iss, 1) \in SeqNum
      BY <1>1, <1>2, PosType
<1>4. send_inflight(sb) \in SeqNum
      BY SendTypes DEF SendInv
<1>5. send_inflight(sb) <= sb.len
  <2>1. CASE state \in {"Established", "CloseWait"}
        BY <2>1 DEF SendInv, CloseInv, Together
  <2>2. CASE state \in {"Listen", "SynReceived"}
    <3>1. sb.nxt = sb.una /\ sb.len = 0
          BY <2>2 DEF SendInv, HandshakeInv, Fresh, send_new
    <3>2. send_inflight(sb) = 0
          BY <1>1, <3>1, ZeroDistance DEF send_inflight
    <3> QED
          BY <3>1, <3>2
  <2> QED
        BY <2>1, <2>2 DEF PhaseInv
<1>6. SEND_BUF_SIZE \in Nat /\ SEND_BUF_SIZE + 1 < Half /\ Half \in Nat /\ Half < Modulus
      BY SendBufSizeAssumption, HalfAssumption DEF Modulus
<1>7. send_inflight(sb) \in Nat /\ sb.len \in Nat
      BY <1>1, <1>4 DEF SeqNum
<1>8. Pos(sb.una, View) + sb.len <= SEND_BUF_SIZE
      BY DEF AnswerInv
<1>9. Pos(sb.una, View) + send_inflight(sb) < Modulus
      BY <1>3, <1>5, <1>6, <1>7, <1>8, HalfAssumption DEF Modulus
<1>10. Pos(sb.nxt, View) = Pos(sb.una, View) + send_inflight(sb)
      BY <1>1, <1>3, <1>9, ComposeDistance DEF Pos, send_inflight
<1> QED
    BY <1>3, <1>5, <1>6, <1>7, <1>8, <1>10

\* What makes a segment honest.
LEMMA HonestIs ==
    ASSUME NEW v \in Views, NEW f, NEW a \in SeqNum, NEW b \in SeqNum, NEW w, NEW n \in SeqNum,
           "RST" \notin f,
           "SYN" \in f => v.state = "SynReceived" /\ a = v.iss,
           n > 0 => /\ Pos(v.una, v) <= Pos(wrapping_add(a, n), v)
                    /\ Pos(wrapping_add(a, n), v) <= Pos(v.nxt, v),
           v.state \in Receiving => b = v.rcv
    PROVE  Honest([flags |-> f, seq |-> a, ack_num |-> b, window |-> w, len |-> n], v)
<1> DEFINE m == [flags |-> f, seq |-> a, ack_num |-> b, window |-> w, len |-> n]
<1>1. m.flags = f /\ m.seq = a /\ m.ack_num = b /\ m.len = n
      OBVIOUS
<1>2. end_of(m) = wrapping_add(a, n)
      BY DEF end_of
<1>3. wrapping_add(a, n) \in SeqNum
      BY WrapType
<1>4. n \in Nat
      BY DEF SeqNum
<1>5. v.state \in Receiving => In(b) <= In(v.rcv)
  <2>1. In(b) \in Nat
        BY InType
  <2> QED
        BY <2>1
<1> HIDE DEF m
<1>6. Honest(m, v)
      BY <1>1, <1>2, <1>3, <1>4, <1>5 DEF Honest, Has
<1> QED
    BY <1>6 DEF m

\* A step that leaves the buffers and the application alone.
LEMMA StayStep ==
    ASSUME SendInv, RecvInv, ServerInv, SendInv', RecvInv', PhaseInv', OutInv',
           UNCHANGED <<sb, rb, app, request, taken>>, taken = 0 \/ pc' = pc,
           snd'.iss = snd.iss,
           state' = "Listen" <=> state = "Listen",
           state' \in Receiving => state \in Receiving \cup {"Listen"},
           NEW c, Client(c, View)
    PROVE  ServerInv' /\ Client(c, View')
<1>1. View \in Views /\ View' \in Views
      BY ViewType, NextViewType DEF ViewOK
<1>2. /\ View.iss = snd.iss /\ View'.iss = snd.iss /\ View.state = state /\ View'.state = state'
      /\ View.una = sb.una /\ View'.una = sb.una /\ View.nxt = sb.nxt /\ View'.nxt = sb.nxt
      /\ View.rcv = rb.nxt /\ View'.rcv = rb.nxt
      BY DEF View
<1>3. AppInv' /\ WordInv' /\ TakenInv'
  <2>1. AppInv' /\ WordInv'
        BY DEF ServerInv, AppInv, WordInv, Unsplit
  <2>2. Unsplit' = Unsplit /\ Forwarded' = Forwarded
        BY DEF Unsplit, Forwarded
  <2>3. TakenInv'
        BY <2>2 DEF ServerInv, TakenInv
  <2> QED
        BY <2>1, <2>3
<1>4. AnswerInv'
      BY <1>2 DEF ServerInv, AnswerInv, Unwritten, Pos
<1>5. RequestInv'
      BY DEF ServerInv, RequestInv, Forwarded, Within, In
<1>6. rb.nxt \in SeqNum /\ sb.nxt \in SeqNum
      BY <1>1, <1>2 DEF Views
<1>7. In(rb.nxt) \in Nat /\ Pos(sb.nxt, View) \in Nat
      BY <1>1, <1>6, InType, PosType
<1> HIDE DEF View
<1>8. c.open => Pos(sb.una, View) <= Pos(c.nxt, View)
      BY <1>2 DEF Client
<1>9. Client(c, View')
      BY <1>1, <1>2, <1>7, <1>8, ClientMoves
<1> QED
    BY <1>3, <1>4, <1>5, <1>9 DEF ServerInv

\* The bytes handed on are a number.
LEMMA ForwardedType ==
    ASSUME AppInv
    PROVE  Forwarded \in Nat
<1>1. app.got \in Nat /\ app.data_rx \in Seq(Nat)
      BY PositiveChunks DEF AppInv
<1>2. bytes(app.data_rx) \in Nat
      BY <1>1, AppendBytes
<1> QED
    BY <1>1, <1>2 DEF Forwarded

\* In select! the task holds nothing back.
LEMMA NothingTaken ==
    ASSUME ServerInv, pc = "select"
    PROVE  taken = 0
BY DEF ServerInv, TakenInv
-----------------------------------------------------------------------------
(* What arrives.                                                           *)

\* The SYN, or a segment of an open client: a cut of the request or none of it,
\* and an acknowledgement of what the client has.
FromClient(seg) ==
    /\ seg \in Segment
    /\ \/ seg = Syn
       \/ /\ cl.open
          /\ Has(seg, "ACK") /\ ~ Has(seg, "RST") /\ ~ Has(seg, "SYN")
          /\ Pos(seg.ack_num, View) <= Pos(cl.nxt, View)
          /\ seg.len > 0 =>
                /\ ~ Has(seg, "FIN")
                /\ \E cut \in request.cuts :
                      seg.seq = wrapping_add(first, cut.off) /\ seg.len = cut.len

\* What the assumptions say of the request and its cuts.
LEMMA RequestTypes ==
    ASSUME AppInv
    PROVE  /\ request.total \in Total /\ request.word \in Nat
           /\ \A cut \in request.cuts :
                 /\ cut.off \in Nat /\ cut.len \in Nat /\ cut.len >= 1
                 /\ cut.len <= RECV_BUF_SIZE /\ cut.off + cut.len <= request.total
<1>1. request \in Request /\ request \in Requests
      BY SessionAssumption DEF AppInv
<1>2. request.total \in Total /\ request.word \in Nat
      BY <1>1, SessionAssumption DEF Request, Total
<1>3. ASSUME NEW cut \in request.cuts
      PROVE  /\ cut.off \in Nat /\ cut.len \in Nat /\ cut.len >= 1
             /\ cut.len <= RECV_BUF_SIZE /\ cut.off + cut.len <= request.total
  <2>1. cut \in [off : Nat, len : Nat \ {0}]
        BY <1>1 DEF Request
  <2>2. cut.len <= RECV_BUF_SIZE /\ cut.off + cut.len <= request.total
        BY <1>1, SessionAssumption
  <2> QED
        BY <2>1, <2>2
<1> QED
    BY <1>2, <1>3

\* The acknowledgement numbers the client has used cover what it has.
LEMMA AckTypes ==
    ASSUME SessionInv, cl.open, NEW ack \in AcksSent
    PROVE  ack \in SeqNum /\ Pos(ack, View) <= Pos(cl.nxt, View)
<1>1. View \in Views /\ View.iss = snd.iss /\ View.nxt = sb.nxt
      BY ViewType DEF ViewOK, View, SessionInv
<1>2. PICK i \in 0 .. Pos(cl.nxt, View) : ack = wrapping_add(View.iss, 1 + i)
      BY <1>1 DEF AcksSent, Pos
<1>3. Pos(cl.nxt, View) <= Pos(sb.nxt, View) /\ cl.nxt \in SeqNum
      BY <1>1 DEF SessionInv, Client
<1>4. Pos(cl.nxt, View) \in Nat
      BY <1>1, <1>3, PosType
<1>5. Pos(sb.nxt, View) \in Nat /\ Pos(sb.nxt, View) <= SEND_BUF_SIZE /\ SEND_BUF_SIZE \in Nat
      /\ SEND_BUF_SIZE + 1 < Half /\ Half \in Nat /\ Half < Modulus
      BY Positions DEF SessionInv, ServerInv
<1> HIDE DEF View
<1>6. i \in Nat /\ i + 1 < Modulus
      BY <1>2, <1>3, <1>4, <1>5, HalfAssumption DEF Modulus
<1>7. ack \in SeqNum /\ Pos(ack, View) = i
      BY <1>1, <1>2, <1>6, PosOf
<1> QED
    BY <1>2, <1>4, <1>7

\* So every segment of the client is one of these.
LEMMA ClientSegment ==
    ASSUME SessionInv, cl.open, NEW f \in {{"ACK"}, {"FIN", "ACK"}}, NEW off \in Nat,
           off <= request.total, NEW ack \in SeqNum, Pos(ack, View) <= Pos(cl.nxt, View),
           NEW n \in Nat, n <= request.total,
           n > 0 => f = {"ACK"} /\ \E cut \in request.cuts : cut.off = off /\ cut.len = n
    PROVE  FromClient(ToServer(f, off, ack, n))
<1> DEFINE m == ToServer(f, off, ack, n)
<1>1. /\ m.flags = f /\ m.seq = wrapping_add(first, off) /\ m.ack_num = ack
      /\ m.window = MAX_WINDOW /\ m.len = n
      /\ m = [flags |-> m.flags, seq |-> m.seq, ack_num |-> m.ack_num,
              window |-> m.window, len |-> m.len]
      BY DEF ToServer
<1> HIDE DEF m
<1>2. request.total \in Nat /\ request.total < Modulus
  <2>1. request.total \in Total
        BY RequestTypes DEF SessionInv, ServerInv
  <2> QED
        BY <2>1, TotalType, HalfAssumption DEF Modulus
<1>3. off \in SeqNum /\ n \in SeqNum
      BY <1>2, HalfAssumption DEF SeqNum, Modulus
<1>4. m.seq \in SeqNum
      BY <1>1, <1>3, FirstType, WrapType
<1>5. m.window \in 0 .. MAX_WINDOW
      BY <1>1, RecvBufSizeAssumption
<1>6. m.flags \in SUBSET {"SYN", "ACK", "RST", "FIN"}
      BY <1>1
<1>7. m \in Segment
      BY <1>1, <1>3, <1>4, <1>5, <1>6 DEF Segment
<1>8. Has(m, "ACK") /\ ~ Has(m, "RST") /\ ~ Has(m, "SYN") /\ (f = {"ACK"} => ~ Has(m, "FIN"))
      BY <1>1 DEF Has
<1>9. FromClient(m)
      BY <1>1, <1>7, <1>8 DEF FromClient
<1> QED
    BY <1>9 DEF m

\* The SYN is a segment.
LEMMA SynSegment == FromClient(Syn)
<1>1. PeerIss \in SeqNum /\ 0 \in SeqNum /\ MAX_WINDOW \in 0 .. MAX_WINDOW
      BY SessionAssumption, HalfAssumption, RecvBufSizeAssumption DEF SeqNum, Modulus
<1>2. Syn \in Segment
      BY <1>1 DEF Syn, Segment
<1> QED
    BY <1>2 DEF FromClient

\* Which handler a segment meets.
LEMMA HandlerOf ==
    ASSUME NEW seg, process_segment(seg)
    PROVE  /\ state = "Listen" => handle_listen(seg)
           /\ state = "SynReceived" => handle_syn_received(seg)
           /\ state = "Established" => handle_established(seg)
           /\ state = "CloseWait" => handle_close_wait(seg)
BY DEF process_segment, handle_listen, handle_syn_sent, handle_syn_received, handle_established,
       handle_close_wait, handle_fin_wait_1, handle_fin_wait_2, handle_closing, handle_last_ack,
       AckOfFin, handle_time_wait

\* The invariant of the connection holds for any segment.
LEMMA InboundKeeps ==
    ASSUME SendInv, RecvInv, NEW seg \in Segment, Inbound(seg)
    PROVE  SendInv' /\ RecvInv'
<1>1. SendInv'
      BY InboundStep
<1>2. RecvInv'
      BY HandshakeRecvStep, EstablishedRecvStep, ClosingRecvStep DEF Inbound, process_segment
<1> QED
    BY <1>1, <1>2

\* LISTEN hears nothing but the SYN, and answers it.
LEMMA ListenArrival ==
    ASSUME SessionInv, NEW seg, FromClient(seg), Inbound(seg), taken' = 0, UNCHANGED <<request, app>>,
           state = "Listen", NEW c, Client(c, View)
    PROVE  ServerInv' /\ Client(c, View')
<1>0. SendInv /\ RecvInv /\ ServerInv /\ View.state = "Listen"
      BY DEF SessionInv, View
<1>1. seg = Syn /\ seg \in Segment
      BY <1>0 DEF FromClient, SessionInv, Client
<1>2. handle_listen(seg) /\ pc' = "flush" /\ close_initiated' = close_initiated
      BY HandlerOf DEF Inbound
<1>3. seg.flags = {"SYN"} /\ seg.seq = PeerIss
      BY <1>1 DEF Syn
<1>4. /\ Synchronize(seg) /\ snd' = [snd EXCEPT !.nxt = wrapping_add(snd.iss, 1)]
      /\ state' = "SynReceived" /\ out' = {build_syn_ack(snd.iss, rcv'.nxt, window(rb'))}
      /\ sb' = sb
      BY <1>2, <1>3 DEF handle_listen, Has
<1>5. SendInv' /\ RecvInv'
      BY <1>0, <1>1, InboundKeeps
<1>6. View' \in Views
      BY <1>5, NextViewType DEF ViewOK
<1>7. rb' = recv_new(PeerIss)
      BY <1>3, <1>4 DEF Synchronize
<1>8. rb'.nxt = first /\ rb'.ooo = no_staging /\ rb'.buf = <<>>
      BY <1>7 DEF recv_new, first
<1>9. app' = app
      OBVIOUS
<1>10. PhaseInv'
      BY <1>0, <1>2, <1>4 DEF ServerInv, PhaseInv
<1>11. snd'.iss = snd.iss
      BY <1>0, <1>4 DEF SendInv, SendTypeOK
<1>12. AnswerInv'
  <2>1. View.iss = snd.iss /\ View'.iss = snd.iss
        BY <1>11 DEF View
  <2> QED
        BY <1>0, <1>4, <1>9, <2>1 DEF ServerInv, AnswerInv, Unwritten, Pos
<1>13. AppInv' /\ WordInv' /\ TakenInv'
      BY <1>0, <1>9 DEF ServerInv, AppInv, WordInv, Unsplit, TakenInv
<1>14. request.total \in Total /\ request.total \in Nat
      BY <1>0, RequestTypes, TotalType DEF ServerInv
<1>15. rb' \in Within(request.total)
  <2>1. rb' \in Fitting(SeqNum)
        BY <1>5, EmptyFits DEF RecvInv
  <2>2. DOMAIN rb'.ooo = {}
        BY <1>8 DEF no_staging
  <2> QED
        BY <1>8, <1>14, <2>1, <2>2, FirstType DEF Within
<1>16. Forwarded = 0
      BY <1>0 DEF ServerInv, RequestInv
<1>17. RequestInv'
      BY <1>4, <1>8, <1>9, <1>15, <1>16, FirstType DEF RequestInv, Forwarded, In
<1>18. OutInv'
  <2> DEFINE v == View'
             b == rcv'.nxt
             w == window(rb')
             f == {"SYN", "ACK"}
             a == snd.iss
             n == 0
             m == [flags |-> f, seq |-> a, ack_num |-> b, window |-> w, len |-> n]
  <2>1. /\ v \in Views /\ a \in SeqNum /\ n \in SeqNum /\ "RST" \notin f
        /\ v.state = "SynReceived" /\ a = v.iss
        BY <1>0, <1>4, <1>6, <1>11, HalfAssumption
        DEF View, SendInv, SendTypeOK, SeqNum, Modulus
  <2>2. b \in SeqNum /\ b = v.rcv
        BY <1>4, <1>5 DEF RecvInv, View
  <2>3. ~ n > 0
        OBVIOUS
  <2>4. out' = {m}
        BY <1>4 DEF build_syn_ack
  <2> HIDE DEF v, b, w, f, a, n
  <2>5. Honest(m, v)
        BY <2>1, <2>2, <2>3, HonestIs
  <2> QED
        BY <2>4, <2>5 DEF OutInv, v
<1>19. Client(c, View')
      BY <1>0 DEF Client
<1> QED
    BY <1>10, <1>12, <1>13, <1>17, <1>18, <1>19 DEF ServerInv

\* SYN_RECEIVED repeats its answer or is acknowledged; it never refuses.
LEMMA SynReceivedArrival ==
    ASSUME SessionInv, NEW seg, FromClient(seg), Inbound(seg), taken' = 0, UNCHANGED <<request, app>>,
           state = "SynReceived", NEW c, Client(c, View)
    PROVE  ServerInv' /\ Client(c, View')
<1>0. SendInv /\ RecvInv /\ ServerInv /\ View.state = "SynReceived" /\ seg \in Segment
      BY DEF SessionInv, View, FromClient
<1>1. handle_syn_received(seg) /\ pc' = "flush" /\ close_initiated' = close_initiated
      BY HandlerOf DEF Inbound
<1>2. SendInv' /\ RecvInv'
      BY <1>0, InboundKeeps
<1>3. View \in Views /\ View' \in Views
      BY <1>0, <1>2, ViewType, NextViewType DEF ViewOK
<1>4. app' = app /\ taken' = taken /\ taken = 0
      BY <1>0, NothingTaken DEF Inbound
<1>5. snd.iss \in SeqNum /\ sb.una \in SeqNum /\ sb.nxt \in SeqNum /\ snd.nxt \in SeqNum
      BY <1>0, SendTypes DEF SendInv
<1>6. Fresh /\ snd.nxt = wrapping_add(snd.iss, 1) /\ SendTypeOK
      BY <1>0 DEF SendInv, HandshakeInv
<1>7. ~ Has(seg, "RST") /\ (Has(seg, "ACK") => Acceptable(seg))
  <2>1. CASE seg = Syn
        BY <2>1 DEF Syn, Has
  <2>2. CASE seg # Syn
    <3>1. /\ cl.open /\ Has(seg, "ACK") /\ ~ Has(seg, "RST") /\ seg.ack_num \in SeqNum
          /\ Pos(seg.ack_num, View) <= Pos(cl.nxt, View)
          BY <2>2 DEF FromClient, Segment
    <3>2. Pos(cl.nxt, View) <= Pos(sb.nxt, View) /\ cl.nxt \in SeqNum
          BY <3>1 DEF SessionInv, Client, View
    <3>3. wrapping_add(View.iss, 1) = sb.nxt
          BY <1>6 DEF Fresh, send_new, View
    <3>4. Pos(sb.nxt, View) = 0
          BY <1>5, <3>3, ZeroDistance DEF Pos
    <3>5. Pos(seg.ack_num, View) \in Nat /\ Pos(cl.nxt, View) \in Nat
          BY <1>3, <3>1, <3>2, PosType
    <3>6. Pos(seg.ack_num, View) = 0
          BY <3>1, <3>2, <3>4, <3>5
    <3>7. seg.ack_num = snd.nxt
          BY <1>5, <1>6, <3>1, <3>3, <3>6, ZeroDistance DEF Pos, Fresh, send_new
    <3>8. ack_acceptable(snd.una, seg.ack_num, snd.nxt)
          BY <1>5, <1>6, <3>7, HalfAssumption
          DEF Fresh, ack_acceptable, seq_lt, seq_le, wrapping_sub, wrapping_add, SeqNum, Modulus
    <3> QED
          BY <3>1, <3>8 DEF Acceptable
  <2> QED
        BY <2>1, <2>2
<1>8. CASE /\ out' = {build_syn_ack(snd.iss, rcv.nxt, window(rb))}
           /\ UNCHANGED <<state, sendSide, recvSide>>
  <2>1. PhaseInv'
        BY <1>0, <1>1, <1>8 DEF ServerInv, PhaseInv
  <2>2. OutInv'
    <3> DEFINE v == View'
               b == rcv.nxt
               w == window(rb)
               f == {"SYN", "ACK"}
               a == snd.iss
               n == 0
               m == [flags |-> f, seq |-> a, ack_num |-> b, window |-> w, len |-> n]
    <3>1. /\ v \in Views /\ a \in SeqNum /\ n \in SeqNum /\ "RST" \notin f
          /\ v.state = "SynReceived" /\ a = v.iss
          BY <1>3, <1>5, <1>8, HalfAssumption DEF View, sendSide, SeqNum, Modulus
    <3>2. b \in SeqNum /\ b = v.rcv
          BY <1>0, <1>8 DEF RecvInv, View, recvSide
    <3>3. ~ n > 0
          OBVIOUS
    <3>4. out' = {m}
          BY <1>8 DEF build_syn_ack
    <3> HIDE DEF v, b, w, f, a, n
    <3>5. Honest(m, v)
          BY <3>1, <3>2, <3>3, HonestIs
    <3> QED
          BY <3>4, <3>5 DEF OutInv, v
  <2>3. UNCHANGED <<state, snd, sb, rb>>
        BY <1>8 DEF sendSide, recvSide
  <2> QED
        BY <1>0, <1>2, <1>4, <2>1, <2>2, <2>3, StayStep
<1>9. CASE Ignore
  <2>1. UNCHANGED <<state, snd, sb, rb>> /\ out' = {}
        BY <1>9 DEF Ignore, sendSide, recvSide
  <2>2. PhaseInv' /\ OutInv'
        BY <1>0, <1>1, <2>1 DEF ServerInv, PhaseInv, OutInv
  <2> QED
        BY <1>0, <1>2, <1>4, <2>1, <2>2, StayStep
<1>10. CASE /\ Acceptable(seg)
            /\ snd' = acked(seg)
            /\ sb' = acknowledge(sb, seg.ack_num)
            /\ state' = "Established"
            /\ out' = {}
            /\ UNCHANGED recvSide
  <2>1. sb' = sb
        BY <1>0, <1>6, <1>10, SynAck
  <2>2. snd'.iss = snd.iss /\ rb' = rb
        BY <1>10 DEF acked, recvSide
  <2>3. PhaseInv' /\ OutInv'
        BY <1>0, <1>1, <1>10 DEF ServerInv, PhaseInv, OutInv
  <2>4. state' = "Established" /\ state \in Receiving
        BY <1>10 DEF Receiving
  <2> QED
        BY <1>0, <1>2, <1>4, <2>1, <2>2, <2>3, <2>4, StayStep
<1> QED
    BY <1>1, <1>7, <1>8, <1>9, <1>10 DEF handle_syn_received, Reset

\* CLOSE_WAIT ignores the client.
LEMMA CloseWaitArrival ==
    ASSUME SessionInv, NEW seg, FromClient(seg), Inbound(seg), taken' = 0, UNCHANGED <<request, app>>,
           state = "CloseWait", NEW c, Client(c, View)
    PROVE  ServerInv' /\ Client(c, View')
<1>0. SendInv /\ RecvInv /\ ServerInv /\ seg \in Segment
      BY DEF SessionInv, FromClient
<1>1. handle_close_wait(seg) /\ pc' = "flush" /\ close_initiated' = close_initiated
      BY HandlerOf DEF Inbound
<1>2. SendInv' /\ RecvInv'
      BY <1>0, InboundKeeps
<1>3. ~ Has(seg, "RST")
      BY DEF FromClient, Syn, Has
<1>4. UNCHANGED <<state, snd, sb, rb>> /\ out' = {}
      BY <1>1, <1>3 DEF handle_close_wait, Reset, Ignore, sendSide, recvSide
<1>5. app' = app /\ taken' = taken /\ taken = 0
      BY <1>0, NothingTaken DEF Inbound
<1>6. PhaseInv' /\ OutInv'
      BY <1>0, <1>1, <1>4 DEF ServerInv, PhaseInv, OutInv
<1> QED
    BY <1>0, <1>2, <1>4, <1>5, <1>6, StayStep

\* A segment of the retransmit queue is one of the flight.
LEMMA QueuedHonest ==
    ASSUME SendInv, RecvInv, PhaseInv, AnswerInv, state \in {"Established", "CloseWait"},
           NEW e \in rq
    PROVE  Honest(data_segment(e.seq, e.len), View)
<1> DEFINE v == View
           a == e.seq
           n == e.len
           b == rcv.nxt
           w == window(rb)
           f == {"ACK"}
           x == wrapping_add(a, n)
<1>1. a \in SeqNum /\ n \in SeqNum
      BY HalfAssumption, ConnectionAssumption DEF SendInv, SendTypeOK, SeqNum, Modulus
<1>2. v \in Views /\ v.una = sb.una /\ v.nxt = sb.nxt
      BY ViewType DEF ViewOK, View
<1>3. b \in SeqNum /\ (v.state \in Receiving => b = v.rcv)
      BY DEF RecvInv, Receiving, View
<1>4. x \in SeqNum
      BY <1>1, WrapType
<1>5. wrapping_sub(x, sb.una) \in 1 .. send_inflight(sb)
      BY DEF SendInv, QueueInv, SendStates, end_of
<1>6. /\ Pos(sb.una, v) \in Nat /\ Pos(sb.nxt, v) \in Nat /\ send_inflight(sb) \in Nat
      /\ Pos(sb.nxt, v) = Pos(sb.una, v) + send_inflight(sb)
      /\ Pos(sb.nxt, v) <= SEND_BUF_SIZE /\ SEND_BUF_SIZE \in Nat
      /\ SEND_BUF_SIZE + 1 < Half /\ Half \in Nat /\ Half < Modulus
      BY Positions
<1>7. data_segment(a, n) = [flags |-> f, seq |-> a, ack_num |-> b, window |-> w, len |-> n]
      BY DEF data_segment
<1>8. "RST" \notin f /\ "SYN" \notin f
      OBVIOUS
<1> HIDE DEF v, a, n, b, w, f, x
<1>9. Pos(sb.una, v) + wrapping_sub(x, sb.una) < Modulus
      BY <1>5, <1>6, HalfAssumption DEF Modulus
<1>10. sb.una \in SeqNum /\ wrapping_add(v.iss, 1) \in SeqNum
      BY <1>2, PosType DEF Views
<1>11. Pos(x, v) = Pos(sb.una, v) + wrapping_sub(x, sb.una)
      BY <1>4, <1>9, <1>10, ComposeDistance DEF Pos
<1>12. Pos(v.una, v) <= Pos(x, v) /\ Pos(x, v) <= Pos(v.nxt, v)
      BY <1>2, <1>5, <1>6, <1>11
<1>13. Honest([flags |-> f, seq |-> a, ack_num |-> b, window |-> w, len |-> n], v)
      BY <1>1, <1>2, <1>3, <1>8, <1>12, HonestIs DEF x
<1> QED
    BY <1>7, <1>13 DEF v, a, n

\* An acknowledgement in ESTABLISHED moves SND.UNA no further than the client
\* has come.
LEMMA AckArrival ==
    ASSUME SessionInv, NEW seg, FromClient(seg), state = "Established", AcceptAck(seg)
    PROVE  /\ sb'.nxt = sb.nxt /\ snd'.iss = snd.iss
           /\ Pos(sb'.una, View) + sb'.len <= SEND_BUF_SIZE
           /\ Unwritten => sb'.len = 0 /\ Pos(sb'.una, View) = 0
           /\ cl.open => Pos(sb'.una, View) <= Pos(cl.nxt, View)
<1>0. SendInv /\ RecvInv /\ PhaseInv /\ AnswerInv /\ seg \in Segment /\ View.una = sb.una
      BY DEF SessionInv, ServerInv, FromClient, View
<1>1. CASE UNCHANGED <<snd, sb>>
      BY <1>0, <1>1 DEF AnswerInv, SessionInv, Client
<1>2. CASE Acceptable(seg) /\ snd' = acked(seg) /\ sb' = acknowledge(sb, seg.ack_num)
  <2> DEFINE ack == seg.ack_num
             d   == wrapping_sub(ack, sb.una)
  <2>1. Together /\ snd.nxt = sb.nxt /\ SendTypeOK
        BY <1>0 DEF SendInv, CloseInv
  <2>2. sb \in SendBuf /\ sb.una \in SeqNum /\ sb.nxt \in SeqNum /\ ack \in SeqNum
        BY <1>0, SendTypes DEF SendInv, Segment
  <2>3. 0 < d /\ d <= send_inflight(sb)
    <3>1. sb.nxt # wrapping_add(sb.nxt, 1)
          BY <2>2, HalfAssumption DEF wrapping_add, SeqNum, Modulus
    <3> QED
          BY <1>0, <1>2, <2>1, <3>1, TogetherAck
  <2>4. send_inflight(sb) <= sb.len
        BY <2>1 DEF Together
  <2>5. sb'.una = ack /\ sb'.nxt = sb.nxt /\ sb'.len = sb.len - d
        BY <1>2, <2>2, <2>3, <2>4, AcknowledgeSent
  <2>6. Has(seg, "ACK")
        BY <1>2 DEF Acceptable
  <2>7. cl.open /\ Pos(ack, View) <= Pos(cl.nxt, View)
        BY <2>6 DEF FromClient, Syn, Has
  <2>8. /\ Pos(sb.una, View) \in Nat /\ send_inflight(sb) \in Nat /\ sb.len \in Nat
        /\ Pos(sb.nxt, View) = Pos(sb.una, View) + send_inflight(sb)
        /\ Pos(sb.nxt, View) <= SEND_BUF_SIZE /\ SEND_BUF_SIZE \in Nat
        /\ SEND_BUF_SIZE + 1 < Half /\ Half \in Nat /\ Half < Modulus
        BY <1>0, Positions
  <2>9. View \in Views
        BY <1>0, ViewType DEF ViewOK
  <2>10. wrapping_add(View.iss, 1) \in SeqNum /\ d \in SeqNum
        BY <2>2, <2>9, PosType, WrapType
  <2>11. d \in Nat
        BY <2>10 DEF SeqNum
  <2> HIDE DEF ack, d
  <2>12. Pos(sb.una, View) + d < Modulus
        BY <2>3, <2>8, <2>11, HalfAssumption DEF Modulus
  <2>13. Pos(ack, View) = Pos(sb.una, View) + d
        BY <2>2, <2>10, <2>12, ComposeDistance DEF Pos, d
  <2>14. Pos(sb'.una, View) + sb'.len <= SEND_BUF_SIZE
    <3>1. Pos(sb.una, View) + sb.len <= SEND_BUF_SIZE
          BY <1>0 DEF AnswerInv
    <3> QED
          BY <2>5, <2>8, <2>11, <2>13, <3>1
  <2>15. ~ Unwritten
    <3>1. sb.len # 0
          BY <2>3, <2>4, <2>8, <2>11
    <3> QED
          BY <1>0, <3>1 DEF AnswerInv
  <2>16. snd'.iss = snd.iss
        BY <1>2 DEF acked
  <2> QED
        BY <2>5, <2>7, <2>14, <2>15, <2>16
<1> QED
    BY <1>1, <1>2 DEF AcceptAck, sendSide

\* The text of a segment in ESTABLISHED: the receive buffer takes in bytes of
\* the request, the first of them from a first segment.
LEMMA TextArrival ==
    ASSUME SessionInv, NEW seg, FromClient(seg), state = "Established", AcceptText(seg)
    PROVE  /\ rb' \in Within(request.total) /\ In(rb.nxt) <= In(rb'.nxt)
           /\ Unsplit /\ In(rb.nxt) = 0 /\ In(rb'.nxt) > 0 => request.word <= In(rb'.nxt)
<1> DEFINE t == request.total
           d == payload(seg)
           i == insert(rb, seg.seq, d)
<1>0. SendInv /\ RecvInv /\ AppInv /\ RequestInv /\ seg \in Segment
      BY DEF SessionInv, ServerInv, FromClient
<1>1. t \in Total /\ request.word \in Nat
      BY <1>0, RequestTypes
<1>2. rb \in Within(t) /\ rb.buf = <<>> /\ rb \in Fitting(SeqNum) /\ rb.nxt \in SeqNum
      BY <1>0 DEF RequestInv, RecvInv, Within, RecvBuf
<1>3. In(rb.nxt) \in Nat
      BY <1>2, InType
<1>4. d \in Seq(SeqNum) /\ Len(d) = seg.len /\ seg.seq \in SeqNum
      BY <1>0, PayloadType DEF Segment
<1>5. rb' = recv_read(i, Len(i.buf))
      BY DEF AcceptText
<1> HIDE DEF d, i, t
<1>6. /\ i \in Within(t) /\ In(rb.nxt) <= In(i.nxt)
      /\ Unsplit /\ In(rb.nxt) = 0 /\ In(i.nxt) > 0 => request.word <= In(i.nxt)
  <2>1. CASE seg.len = 0
    <3>1. i = rb
          BY <1>2, <1>4, <2>1, InsertFits DEF i
    <3> QED
          BY <1>2, <1>3, <3>1
  <2>2. CASE seg.len # 0
    <3>1. seg.len \in Nat /\ seg.len > 0
          BY <1>4, <2>2
    <3>2. PICK cut \in request.cuts : seg.seq = wrapping_add(first, cut.off) /\ seg.len = cut.len
          BY <2>2, <3>1 DEF FromClient, Syn
    <3>3. /\ cut.off \in Nat /\ cut.len \in Nat /\ cut.len <= RECV_BUF_SIZE
          /\ cut.off + Len(d) <= t
          BY <1>0, <1>4, <3>2, RequestTypes DEF t
    <3>4. /\ i \in Within(t) /\ In(rb.nxt) <= In(i.nxt)
          /\ In(rb.nxt) = 0 /\ In(i.nxt) > 0 =>
                cut.off = 0 /\ min(Len(d), RECV_BUF_SIZE) <= In(i.nxt)
          BY <1>1, <1>2, <1>4, <3>2, <3>3, InsertWithin DEF i
    <3>5. min(Len(d), RECV_BUF_SIZE) = cut.len
          BY <1>4, <3>2, <3>3, RecvBufSizeAssumption DEF min
    <3>6. i.nxt \in SeqNum
          BY <3>4 DEF Within, Fitting, RecvBuf
    <3>7. In(i.nxt) \in Nat
          BY <3>6, InType
    <3>8. ASSUME Unsplit, In(rb.nxt) = 0, In(i.nxt) > 0 PROVE request.word <= In(i.nxt)
      <4>1. cut.off = 0 /\ cut.len <= In(i.nxt)
            BY <3>4, <3>5, <3>8
      <4>2. cut.len >= request.word
            BY <3>8, <4>1 DEF Unsplit
      <4> QED
            BY <1>1, <3>3, <3>7, <4>1, <4>2
    <3> QED
          BY <3>4, <3>8
  <2> QED
        BY <2>1, <2>2
<1>7. i \in RecvBuf(SeqNum)
      BY <1>6 DEF Within, Fitting
<1>8. rb' \in RecvBuf(SeqNum) /\ rb'.buf = <<>> /\ rb'.nxt = i.nxt
      BY <1>5, <1>7, ReadAll
<1>9. rb'.ooo = i.ooo
      BY <1>5, <1>7 DEF recv_read, RecvBuf
<1>10. rb' \in Fitting(SeqNum)
      BY <1>8, EmptyFits
<1>11. rb' \in Within(t)
      BY <1>6, <1>8, <1>9, <1>10 DEF Within
<1> QED
    BY <1>6, <1>8, <1>11 DEF t

\* What the task holds then is what was taken in, no more and no less, with the
\* method word in the first of it.
LEMMA TakeStep ==
    ASSUME ServerInv, state = "Established", pc' = "flush", UNCHANGED <<request, app>>,
           taken = 0, taken' = wrapping_sub(rb'.nxt, rb.nxt),
           rb.nxt \in SeqNum, rb'.nxt \in SeqNum, In(rb.nxt) <= In(rb'.nxt),
           Unsplit /\ In(rb.nxt) = 0 /\ In(rb'.nxt) > 0 => request.word <= In(rb'.nxt)
    PROVE  AppInv' /\ WordInv' /\ TakenInv' /\ In(rb'.nxt) = Forwarded' + taken'
<1>1. In(rb.nxt) \in Nat /\ In(rb'.nxt) \in Nat
      BY InType
<1>2. taken' = In(rb'.nxt) - In(rb.nxt)
      BY FirstType, RebaseDistance DEF In
<1>3. AppInv' /\ WordInv'
      BY DEF ServerInv, AppInv, WordInv, Unsplit
<1>4. Unsplit' = Unsplit /\ Forwarded' = Forwarded
      BY DEF Unsplit, Forwarded
<1>5. In(rb.nxt) = Forwarded + taken
      BY DEF ServerInv, RequestInv
<1>6. Forwarded \in Nat
      BY ForwardedType DEF ServerInv
<1>7. In(rb.nxt) = Forwarded
      BY <1>5, <1>6
<1>8. taken' \in Nat /\ In(rb'.nxt) = Forwarded' + taken'
      BY <1>1, <1>2, <1>4, <1>6, <1>7
<1>9. Unsplit' /\ taken' > 0 /\ Forwarded' = 0 => request'.word <= taken'
      BY <1>1, <1>2, <1>4, <1>7
<1>10. TakenInv'
      BY <1>8, <1>9 DEF TakenInv
<1> QED
    BY <1>3, <1>8, <1>10

\* ESTABLISHED.
LEMMA EstablishedArrival ==
    ASSUME SessionInv, NEW seg, FromClient(seg), Inbound(seg),
           taken' = wrapping_sub(rb'.nxt, rb.nxt), UNCHANGED <<request, app>>,
           state = "Established", NEW c, Client(c, View), c.nxt = cl.nxt, c.open = cl.open
    PROVE  ServerInv' /\ Client(c, View')
<1>0. SendInv /\ RecvInv /\ ServerInv /\ PhaseInv /\ AnswerInv /\ AppInv /\ WordInv /\ seg \in Segment
      BY DEF SessionInv, ServerInv, FromClient
<1>1. handle_established(seg) /\ pc' = "flush" /\ close_initiated' = close_initiated
      BY HandlerOf DEF Inbound
<1>2. SendInv' /\ RecvInv'
      BY <1>0, InboundKeeps
<1>3. View \in Views /\ View' \in Views
      BY <1>0, <1>2, ViewType, NextViewType DEF ViewOK
<1>4. ~ Has(seg, "RST")
      BY DEF FromClient, Syn, Has
<1>5. rb.nxt \in SeqNum /\ rb'.nxt \in SeqNum
      BY <1>0, <1>2 DEF RecvInv, RecvBuf
<1>6. taken = 0
      BY <1>0, NothingTaken DEF Inbound
<1>7. CASE FastRetransmit(seg)
  <2> DEFINE e == first_unacked(rq, snd.una)
  <2>1. out' = {data_segment(e.seq, e.len)} /\ UNCHANGED <<state, snd, sb, rcv, rb>>
        BY <1>1, <1>4, <1>7 DEF handle_established, Reset, recvSide
  <2>2. e \in rq
        BY <1>0, <1>7, FirstUnacked DEF FastRetransmit
  <2> HIDE DEF e
  <2>3. Honest(data_segment(e.seq, e.len), View)
        BY <1>0, <2>2, QueuedHonest
  <2>4. View' = View
        BY <2>1 DEF View
  <2>5. OutInv' /\ PhaseInv'
        BY <1>0, <1>1, <2>1, <2>3, <2>4 DEF OutInv, PhaseInv
  <2>6. taken' = taken
        BY <1>5, <1>6, <2>1, ZeroDistance
  <2> QED
        BY <1>0, <1>2, <1>6, <2>1, <2>5, <2>6, StayStep
<1>8. CASE ~ FastRetransmit(seg)
  <2>1. AcceptAck(seg) /\ AcceptText(seg)
        BY <1>1, <1>4, <1>8 DEF handle_established, Reset
  <2>2. /\ sb'.nxt = sb.nxt /\ snd'.iss = snd.iss
        /\ Pos(sb'.una, View) + sb'.len <= SEND_BUF_SIZE
        /\ Unwritten => sb'.len = 0 /\ Pos(sb'.una, View) = 0
        /\ cl.open => Pos(sb'.una, View) <= Pos(cl.nxt, View)
        BY <2>1, AckArrival
  <2>3. /\ rb' \in Within(request.total) /\ In(rb.nxt) <= In(rb'.nxt)
        /\ Unsplit /\ In(rb.nxt) = 0 /\ In(rb'.nxt) > 0 => request.word <= In(rb'.nxt)
        BY <2>1, TextArrival
  <2>4. AppInv' /\ WordInv' /\ TakenInv' /\ In(rb'.nxt) = Forwarded' + taken'
        BY <1>0, <1>1, <1>5, <1>6, <2>3, TakeStep
  <2>5. state' \in {"Established", "CloseWait"}
        BY <2>1 DEF AcceptText
  <2>6. PhaseInv'
        BY <1>0, <1>1, <2>5 DEF PhaseInv
  <2>7. /\ View.iss = snd.iss /\ View'.iss = snd.iss /\ View.nxt = sb.nxt /\ View'.nxt = sb.nxt
        /\ View'.una = sb'.una /\ View.rcv = rb.nxt /\ View'.rcv = rb'.nxt
        /\ View.state = state /\ View'.state = state'
        BY <2>2 DEF View
  <2>8. AnswerInv'
        BY <2>2, <2>7 DEF AnswerInv, Unwritten, Pos
  <2>9. RequestInv'
    <3>1. (rb \in Within(request.total))'
          BY <2>3 DEF Within, In
    <3>2. In(rb.nxt)' = In(rb'.nxt)
          BY DEF In
    <3> QED
          BY <2>4, <2>5, <3>1, <3>2 DEF RequestInv
  <2>10. OutInv'
    <3> DEFINE filled == insert(rb, seg.seq, payload(seg))
               v == View'
               a == snd.nxt
               b == rcv'.nxt
               w == window(filled)
               f == {"ACK"}
               n == 0
               m == [flags |-> f, seq |-> a, ack_num |-> b, window |-> w, len |-> n]
    <3>1. out' \subseteq {m}
      <4>1. rcv = [irs |-> rcv.irs, nxt |-> rcv.nxt]
            BY <1>0 DEF RecvInv
      <4> QED
            BY <2>1, <4>1 DEF AcceptText, build_ack
    <3>2. v \in Views /\ a \in SeqNum /\ n \in SeqNum /\ "RST" \notin f /\ "SYN" \notin f /\ ~ n > 0
          BY <1>0, <1>3, HalfAssumption DEF SendInv, SendTypeOK, SeqNum, Modulus
    <3>3. b \in SeqNum /\ (v.state \in Receiving => b = v.rcv)
          BY <1>2, <2>7 DEF RecvInv, Receiving
    <3> HIDE DEF v, a, b, w, f, n
    <3>4. Honest(m, v)
          BY <3>2, <3>3, HonestIs
    <3> HIDE DEF m
    <3> QED
          BY <3>1, <3>4 DEF OutInv, v
  <2>11. Client(c, View')
    <3>1. Pos(sb.nxt, View) \in Nat
          BY <1>0, Positions
    <3>2. c.open => Pos(View'.una, View) <= Pos(c.nxt, View)
          BY <2>2, <2>7
    <3>3. View.state \in Receiving /\ View'.state # "Listen"
          BY <2>5, <2>7 DEF Receiving
    <3> HIDE DEF View
    <3> QED
          BY <1>3, <2>3, <2>7, <3>1, <3>2, <3>3, ClientMoves
  <2> QED
        BY <2>4, <2>6, <2>8, <2>9, <2>10, <2>11 DEF ServerInv
<1> QED
    BY <1>7, <1>8
-----------------------------------------------------------------------------
(* The steps.                                                              *)

\* What the client hears of a step.
LEMMA HearStep ==
    ASSUME SendInv', RecvInv', ServerInv', NEW c, Client(c, View'), Hear(c)
    PROVE  SessionInv'
<1>1. View' \in Views
      BY NextViewType DEF ViewOK
<1>2. CASE cl' = c
      BY <1>2 DEF SessionInv
<1>3. ASSUME NEW m \in out', cl' = hear(c, m) PROVE Client(cl', View')
  <2>1. Honest(m, View')
        BY DEF ServerInv, OutInv
  <2>2. Client(hear(c, m), View')
        BY <1>1, <2>1, HearKeeps
  <2> QED
        BY <1>3, <2>2
<1> QED
    BY <1>2, <1>3 DEF Hear, SessionInv

\* The arrival of any segment of the client.
LEMMA ArriveStep ==
    ASSUME SessionInv, NEW seg, FromClient(seg), NEW c, Client(c, View),
           c.nxt = cl.nxt, c.open = cl.open, Arrive(seg, c)
    PROVE  SessionInv'
<1>1. /\ Inbound(seg) /\ UNCHANGED <<request, app>> /\ Hear(c)
      /\ taken' = IF state = "Established" THEN wrapping_sub(rb'.nxt, rb.nxt) ELSE 0
      BY DEF Arrive
<1>2. SendInv' /\ RecvInv'
      BY <1>1, InboundKeeps DEF SessionInv, FromClient
<1>3. state \in {"Listen", "SynReceived", "Established", "CloseWait"}
      BY DEF SessionInv, ServerInv, PhaseInv
<1>4. ServerInv' /\ Client(c, View')
      BY <1>1, <1>3, ListenArrival, SynReceivedArrival, EstablishedArrival, CloseWaitArrival
<1> QED
    BY <1>1, <1>2, <1>4, HearStep

\* A step of the client or the network alone.
LEMMA ServerSame ==
    ASSUME SessionInv, UNCHANGED <<vars, request, app, taken>>
    PROVE  SendInv' /\ RecvInv' /\ ServerInv' /\ View' = View
<1>1. SendInv /\ RecvInv /\ ServerInv /\ Client(cl, View)
      BY DEF SessionInv
<1>2. SendInv' /\ RecvInv'
      BY <1>1, StepSend, StepRecv
<1>3. UNCHANGED <<state, snd, sb, rb, pc, close_initiated, out>>
      BY DEF vars
<1>4. View' = View
      BY <1>3 DEF View
<1>5. PhaseInv' /\ OutInv'
      BY <1>1, <1>3, <1>4 DEF ServerInv, PhaseInv, OutInv
<1> QED
    BY <1>1, <1>2, <1>3, <1>4, <1>5, StayStep

\* The client hears something late.
LEMMA HeardLate ==
    ASSUME SessionInv, UNCHANGED <<vars, request, app, taken>>,
           NEW m, Honest(m, View), cl' = hear(cl, m)
    PROVE  SessionInv'
<1>1. View \in Views /\ Client(cl, View)
      BY ViewType DEF SessionInv, ViewOK
<1>2. Client(hear(cl, m), View)
      BY <1>1, HearKeeps
<1>3. SendInv' /\ RecvInv' /\ ServerInv' /\ View' = View
      BY ServerSame
<1> QED
    BY <1>2, <1>3 DEF SessionInv

\* The network brings the client old data, or an acknowledgement.
LEMMA LateStep ==
    ASSUME SessionInv, cl.open,
           LateAck \/ \E i \in 0 .. (SEND_BUF_SIZE - 1) : LateData(i)
    PROVE  SessionInv'
<1>0. /\ SendInv /\ RecvInv /\ PhaseInv /\ AnswerInv /\ Client(cl, View) /\ View \in Views
      /\ View.state = state /\ View.rcv = rb.nxt /\ View.iss = snd.iss /\ View.nxt = sb.nxt
      BY ViewType DEF SessionInv, ServerInv, ViewOK, View
<1>1. CASE LateAck
  <2> DEFINE a == snd.nxt
             b == rcv.nxt
             w == window(rb)
             f == {"ACK"}
             n == 0
             m == [flags |-> f, seq |-> a, ack_num |-> b, window |-> w, len |-> n]
  <2>1. cl' = hear(cl, m) /\ UNCHANGED <<vars, request, app, taken>>
        BY <1>1 DEF LateAck, build_ack
  <2>2. a \in SeqNum /\ n \in SeqNum /\ "RST" \notin f /\ "SYN" \notin f /\ ~ n > 0
        BY <1>0, HalfAssumption DEF SendInv, SendTypeOK, SeqNum, Modulus
  <2>3. b \in SeqNum /\ (View.state \in Receiving => b = View.rcv)
        BY <1>0 DEF RecvInv, Receiving
  <2> HIDE DEF a, b, w, f, n
  <2>4. Honest(m, View)
        BY <1>0, <2>2, <2>3, HonestIs
  <2> HIDE DEF m
  <2> QED
        BY <2>1, <2>4, HeardLate
<1>2. ASSUME NEW i \in 0 .. (SEND_BUF_SIZE - 1), LateData(i) PROVE SessionInv'
  <2> DEFINE a == wrapping_add(snd.iss, 1 + i)
             m == [flags |-> {"ACK"}, seq |-> a, ack_num |-> cl.una, len |-> 1]
  <2>1. cl' = hear(cl, m) /\ UNCHANGED <<vars, request, app, taken>> /\ i < Pos(sb.nxt, View)
        BY <1>0, <1>2 DEF LateData, Pos
  <2>2. /\ Pos(sb.nxt, View) \in Nat /\ Pos(sb.nxt, View) <= SEND_BUF_SIZE
        /\ SEND_BUF_SIZE \in Nat /\ SEND_BUF_SIZE + 1 < Half /\ Half \in Nat /\ Half < Modulus
        BY <1>0, Positions
  <2>3. i \in Nat /\ i + 2 < Modulus
        BY <2>2, SendBufSizeAssumption, HalfAssumption DEF Modulus
  <2>4. a \in SeqNum /\ Pos(a, View) = i
        BY <1>0, <2>3, PosOf, HalfAssumption DEF Modulus
  <2>5. m.flags = {"ACK"} /\ m.seq = a /\ m.ack_num = cl.una /\ m.len = 1
        OBVIOUS
  <2>6. end_of(m) = wrapping_add(a, 1)
        BY <2>5 DEF end_of
  <2> HIDE DEF m, a
  <2>7. end_of(m) \in SeqNum /\ Pos(end_of(m), View) = i + 1
    <3>1. Pos(a, View) + 1 < Modulus /\ wrapping_add(View.iss, 1) \in SeqNum
          BY <1>0, <2>3, <2>4, PosType, HalfAssumption DEF Modulus
    <3> QED
          BY <2>4, <2>6, <3>1, AdvanceDistance DEF Pos
  <2>8. cl.una \in SeqNum /\ (View.state \in Receiving => In(cl.una) <= In(View.rcv))
        BY <1>0 DEF Client
  <2>9. i + 1 <= Pos(View.nxt, View) /\ i < i + 1
        BY <1>0, <2>1, <2>2
  <2>10. Honest(m, View)
        BY <2>4, <2>5, <2>7, <2>8, <2>9 DEF Honest, Has
  <2> QED
        BY <2>1, <2>10, HeardLate
<1> QED
    BY <1>1, <1>2

\* flush_send_buf: what is sent is the next of the answer.
LEMMA FlushSession ==
    ASSUME SessionInv, Flush, Hear(cl), UNCHANGED <<request, app, taken>>, taken = 0
    PROVE  SessionInv'
<1> DEFINE n  == segment_to_send
           ew == min(cc.cwnd, snd.wnd)
           m  == min(MSS, ew - flight)
<1>0. SendInv /\ RecvInv /\ ServerInv /\ PhaseInv /\ AnswerInv /\ Client(cl, View)
      BY DEF SessionInv, ServerInv
<1>1. [Next]_vars
      BY DEF Next
<1>2. SendInv' /\ RecvInv'
      BY <1>0, <1>1, StepSend, StepRecv
<1>3. View \in Views /\ View' \in Views
      BY <1>0, <1>2, ViewType, NextViewType DEF ViewOK
<1>4. /\ n > 0 /\ sb' = advance_nxt(sb, n) /\ snd' = [snd EXCEPT !.nxt = sb'.nxt]
      /\ out' = {data_segment(sb.nxt, n)} /\ UNCHANGED <<state, rcv, rb, close_initiated, pc>>
      BY DEF Flush, recvSide
<1>5. /\ cc.cwnd \in Nat /\ snd.wnd \in Nat /\ flight \in Nat /\ MSS \in Nat
      BY <1>0, WindowTypes
<1>6. flight < ew /\ n = next_segment_len(sb, m)
      BY <1>4, <1>5 DEF segment_to_send, flight, min
<1>7. m \in Nat
      BY <1>5, <1>6 DEF min
<1>8. n \in SeqNum
  <2>1. n \in 0 .. MSS
        BY <1>0, QuietIsNothing
  <2> HIDE DEF n
  <2> QED
        BY <2>1, ConnectionAssumption, HalfAssumption DEF SeqNum, Modulus
<1> HIDE DEF n, ew, m
<1>9. /\ Pos(sb.una, View) \in Nat /\ Pos(sb.nxt, View) \in Nat /\ send_inflight(sb) \in Nat
      /\ sb.len \in Nat /\ send_inflight(sb) <= sb.len
      /\ Pos(sb.nxt, View) = Pos(sb.una, View) + send_inflight(sb)
      /\ SEND_BUF_SIZE \in Nat /\ SEND_BUF_SIZE + 1 < Half /\ Half \in Nat /\ Half < Modulus
      BY <1>0, Positions
<1>10. sb \in SendBuf /\ sb.nxt \in SeqNum
      BY <1>0, SendTypes DEF SendInv
<1>11. /\ n \in Nat /\ send_inflight(sb) + n <= sb.len
       /\ sb' = [una |-> sb.una, nxt |-> wrapping_add(sb.nxt, n), len |-> sb.len]
      BY <1>4, <1>6, <1>7, <1>9, <1>10, TransmitCounts
<1>12. sb'.una = sb.una /\ sb'.nxt = wrapping_add(sb.nxt, n) /\ sb'.len = sb.len
      BY <1>11
<1>13. snd'.iss = snd.iss
      BY <1>0, <1>4 DEF SendInv, SendTypeOK
<1>14. /\ View.iss = snd.iss /\ View'.iss = snd.iss /\ View.state = state /\ View'.state = state
       /\ View.una = sb.una /\ View'.una = sb.una /\ View.nxt = sb.nxt /\ View'.nxt = sb'.nxt
       /\ View.rcv = rb.nxt /\ View'.rcv = rb.nxt
      BY <1>4, <1>12, <1>13 DEF View
<1>15. Pos(sb.una, View) + sb.len <= SEND_BUF_SIZE
      BY <1>0 DEF AnswerInv
<1>16. Pos(sb'.nxt, View) = Pos(sb.nxt, View) + n
  <2>1. Pos(sb.nxt, View) + n < Modulus /\ wrapping_add(View.iss, 1) \in SeqNum
        BY <1>3, <1>9, <1>10, <1>11, <1>15, PosType, HalfAssumption DEF Modulus
  <2> QED
        BY <1>10, <1>11, <1>12, <2>1, AdvanceDistance DEF Pos
<1>17. \A x : Pos(x, View') = Pos(x, View)
      BY <1>14 DEF Pos
<1>18. AnswerInv'
      BY <1>0, <1>12, <1>17 DEF AnswerInv, Unwritten
<1>19. AppInv' /\ WordInv' /\ PhaseInv' /\ TakenInv'
      BY <1>0, <1>4 DEF ServerInv, AppInv, WordInv, Unsplit, PhaseInv, TakenInv
<1>20. RequestInv'
      BY <1>0, <1>4 DEF ServerInv, RequestInv, Forwarded, Within, In
<1>21. OutInv'
  <2> DEFINE v == View'
             a == sb.nxt
             b == rcv.nxt
             w == window(rb)
             f == {"ACK"}
             s == [flags |-> f, seq |-> a, ack_num |-> b, window |-> w, len |-> n]
  <2>1. v \in Views /\ a \in SeqNum /\ "RST" \notin f /\ "SYN" \notin f
        BY <1>3, <1>10
  <2>2. b \in SeqNum /\ (v.state \in Receiving => b = v.rcv)
        BY <1>0, <1>14 DEF RecvInv, Receiving
  <2>3. out' = {s}
        BY <1>4 DEF data_segment
  <2>4. /\ Pos(v.una, v) <= Pos(wrapping_add(a, n), v)
        /\ Pos(wrapping_add(a, n), v) <= Pos(v.nxt, v)
        BY <1>9, <1>11, <1>12, <1>14, <1>16, <1>17
  <2> HIDE DEF v, a, b, w, f
  <2>5. Honest(s, v)
        BY <1>8, <2>1, <2>2, <2>4, HonestIs
  <2> HIDE DEF s
  <2> QED
        BY <2>3, <2>5 DEF OutInv, v
<1>22. In(rb.nxt) \in Nat
  <2>1. rb.nxt \in SeqNum
        BY <1>3, <1>14 DEF Views
  <2> QED
        BY <2>1, InType
<1>23. cl.open => Pos(View'.una, View) <= Pos(cl.nxt, View)
      BY <1>0, <1>14 DEF Client
<1>24. Client(cl, View')
  <2>1. Pos(View.nxt, View) <= Pos(View'.nxt, View)
        BY <1>9, <1>11, <1>14, <1>16
  <2> HIDE DEF View
  <2> QED
        BY <1>0, <1>3, <1>14, <1>22, <1>23, <2>1, ClientMoves
<1>25. ServerInv'
      BY <1>18, <1>19, <1>20, <1>21 DEF ServerInv
<1> QED
    BY <1>2, <1>24, <1>25, HearStep

\* forward_received_data hands on what the task holds.
LEMMA ForwardSession ==
    ASSUME SessionInv, Forward
    PROVE  SessionInv'
<1> DEFINE d == app.data_rx
           e == Append(d, taken)
<1>0. SendInv /\ RecvInv /\ ServerInv /\ AnswerInv /\ AppInv /\ WordInv /\ TakenInv /\ Client(cl, View)
      BY DEF SessionInv, ServerInv
<1>1. /\ taken \in Nat \ {0} /\ taken' = 0 /\ UNCHANGED <<vars, request, cl>>
      /\ app' = [app EXCEPT !.data_rx = e]
      BY <1>0 DEF Forward, TakenInv
<1>2. d \in Seq(Nat \ {0}) /\ d \in Seq(Nat) /\ app.got \in Nat
      BY <1>0, PositiveChunks DEF AppInv
<1>3. /\ app' = [data_rx |-> e, got |-> app.got, answer |-> app.answer,
                 len |-> app.len, send_tx |-> app.send_tx]
      BY <1>0, <1>1 DEF AppInv
<1>4. e \in Seq(Nat \ {0}) /\ (d = <<>> => e[1] = taken) /\ (d # <<>> => e[1] = d[1])
      BY <1>1, <1>2
<1>5. bytes(d) \in Nat /\ bytes(e) = bytes(d) + taken
      BY <1>1, <1>2, AppendBytes
<1> HIDE DEF e
<1>6. Forwarded = app.got + bytes(d) /\ Forwarded' = app.got + bytes(e)
      BY <1>3 DEF Forwarded
<1>7. Forwarded' = Forwarded + taken
      BY <1>1, <1>2, <1>5, <1>6
<1>8. UNCHANGED <<state, snd, sb, rb, pc, close_initiated, out>>
      BY <1>1 DEF vars
<1>9. AppInv'
      BY <1>0, <1>1, <1>3, <1>4 DEF AppInv
<1>10. Unsplit' = Unsplit
      BY <1>1 DEF Unsplit
<1>11. ASSUME Unsplit, app.got = 0 PROVE e[1] >= request.word
  <2>1. CASE d = <<>>
    <3>1. Forwarded = 0
          BY <1>6, <1>11, <2>1, NoBytes
    <3>2. request.word <= taken /\ request.word \in Nat
          BY <1>0, <1>1, <1>11, <3>1, RequestTypes DEF TakenInv
    <3> QED
          BY <1>1, <1>4, <2>1, <3>2
  <2>2. CASE d # <<>>
        BY <1>0, <1>4, <1>11, <2>2 DEF WordInv
  <2> QED
        BY <2>1, <2>2
<1>12. WordInv'
  <2>1. ASSUME Unsplit PROVE app.answer # "echo" /\ (app.got > 0 => app.got >= request.word)
        BY <1>0, <2>1 DEF WordInv
  <2>2. app'.got = app.got /\ app'.answer = app.answer /\ app'.data_rx = e
        BY <1>3
  <2> QED
        BY <1>1, <1>10, <1>11, <2>1, <2>2 DEF WordInv
<1>13. TakenInv'
      BY <1>1 DEF TakenInv
<1>14. RequestInv'
  <2>1. Forwarded \in Nat /\ Forwarded' = Forwarded + taken + 0
        BY <1>1, <1>2, <1>5, <1>6, <1>7
  <2>2. state # "Listen"
        BY <1>0, <1>1 DEF ServerInv, RequestInv
  <2>3. rb \in Within(request.total) /\ In(rb.nxt) = Forwarded + taken
        BY <1>0, <2>2 DEF ServerInv, RequestInv
  <2>4. In(rb.nxt) = Forwarded' + 0
        BY <1>1, <2>1, <2>3
  <2>5. (rb \in Within(request.total))' /\ In(rb.nxt)' = In(rb.nxt)
        BY <1>1, <1>8, <2>3 DEF Within, In
  <2> QED
        BY <1>1, <1>8, <2>2, <2>4, <2>5 DEF RequestInv
<1>15. SendInv' /\ RecvInv' /\ View' = View
      BY <1>0, <1>1, <1>8, StepSend, StepRecv DEF View
<1>16. AnswerInv' /\ PhaseInv' /\ OutInv'
  <2>1. Unwritten' = Unwritten
        BY <1>3 DEF Unwritten
  <2> QED
        BY <1>0, <1>8, <1>15, <2>1 DEF ServerInv, AnswerInv, PhaseInv, OutInv
<1> QED
    BY <1>0, <1>1, <1>9, <1>12, <1>13, <1>14, <1>15, <1>16 DEF SessionInv, ServerInv

\* The end of an iteration: none of the states reached ends the task.
LEMMA TaskSession ==
    ASSUME SessionInv, TaskStep
    PROVE  SessionInv'
<1>0. SendInv /\ RecvInv /\ ServerInv /\ PhaseInv /\ Client(cl, View)
      BY DEF SessionInv, ServerInv
<1>1. CASE Forward
      BY <1>1, ForwardSession
<1> SUFFICES ASSUME ~ Forward PROVE SessionInv'
      BY <1>1
<1>2. Hear(cl) /\ UNCHANGED <<request, app, taken>> /\ taken = 0
      BY DEF TaskStep
<1>3. CASE Flush
      BY <1>2, <1>3, FlushSession
<1>4. CASE FlushDone \/ LoopEnd
  <2>1. [Next]_vars
        BY <1>4 DEF Next
  <2>2. SendInv' /\ RecvInv'
        BY <1>0, <2>1, StepSend, StepRecv
  <2>3. UNCHANGED <<state, snd, sb, rb, close_initiated>> /\ out' = {} /\ pc' \in {"loop_end", "select"}
        BY <1>0, <1>4 DEF FlushDone, LoopEnd, PhaseInv, sendSide, recvSide
  <2>4. PhaseInv' /\ OutInv'
        BY <1>0, <2>3 DEF PhaseInv, OutInv
  <2>5. ServerInv' /\ Client(cl, View')
        BY <1>0, <1>2, <2>2, <2>3, <2>4, StayStep
  <2> QED
        BY <1>2, <2>2, <2>5, HearStep
<1> QED
    BY <1>3, <1>4 DEF TaskStep

\* The retransmission timer.
LEMMA TimerSession ==
    ASSUME SessionInv, NEW E \in SUBSET rq, TimerFires(E)
    PROVE  SessionInv'
<1>0. SendInv /\ RecvInv /\ ServerInv /\ PhaseInv /\ AnswerInv /\ Client(cl, View)
      BY DEF SessionInv, ServerInv
<1>1. Hear(cl) /\ UNCHANGED <<request, app, taken>> /\ RetransmitTick(E) /\ taken = 0
      BY <1>0, NothingTaken DEF TimerFires, RetransmitTick
<1>2. [Next]_vars
      BY <1>1 DEF Next
<1>3. SendInv' /\ RecvInv'
      BY <1>0, <1>2, StepSend, StepRecv
<1>4. /\ UNCHANGED <<state, snd, sb, rb, rcv, close_initiated>> /\ pc' = "loop_end"
      /\ out' = {data_segment(e.seq, e.len) : e \in E} /\ E # {}
      BY <1>1 DEF RetransmitTick, recvSide
<1>5. state \in {"Established", "CloseWait"}
      BY <1>0, <1>4 DEF PhaseInv, SendInv, HandshakeInv, Fresh
<1>6. View' = View
      BY <1>4 DEF View
<1>7. \A e \in E : Honest(data_segment(e.seq, e.len), View)
      BY <1>0, <1>5, QueuedHonest
<1>8. PhaseInv' /\ OutInv'
      BY <1>0, <1>4, <1>6, <1>7 DEF PhaseInv, OutInv
<1>9. ServerInv' /\ Client(cl, View')
      BY <1>0, <1>1, <1>3, <1>4, <1>8, StayStep
<1> QED
    BY <1>1, <1>3, <1>9, HearStep

\* The answer is written whole, into an empty buffer, and once.
LEMMA WriteSession ==
    ASSUME SessionInv, TaskWrites
    PROVE  SessionInv'
<1> DEFINE k == Head(app.send_tx)
<1>0. SendInv /\ RecvInv /\ ServerInv /\ PhaseInv /\ AnswerInv /\ AppInv /\ Client(cl, View)
      BY DEF SessionInv, ServerInv
<1>1. /\ app.send_tx # <<>> /\ AppWrite(k)
      /\ app' = [app EXCEPT !.send_tx = Tail(@)] /\ UNCHANGED <<request, taken, cl>>
      /\ taken = 0
      BY <1>0, NothingTaken DEF TaskWrites, AppWrite
<1>2. app.send_tx \in Seq(0 .. SEND_BUF_SIZE) /\ Len(app.send_tx) <= 1 /\ app.answer # "none"
      BY <1>0, <1>1 DEF AppInv
<1>3. k \in 0 .. SEND_BUF_SIZE /\ k \in Nat
      BY <1>1, <1>2, SendBufSizeAssumption
<1>4. Tail(app.send_tx) = <<>>
  <2> DEFINE s == app.send_tx
             S == 0 .. SEND_BUF_SIZE
  <2> HIDE DEF s, S
  <2>1. Len(s) \in Nat \ {0} /\ Len(s) <= 1
        BY <1>1, <1>2, EmptySeq DEF s, S
  <2>2. Len(s) = 1
    <3> DEFINE l == Len(s)
    <3> HIDE DEF l
    <3>1. l \in Nat /\ l # 0 /\ l <= 1
          BY <2>1 DEF l
    <3>2. l = 1
          BY <3>1
    <3> QED
          BY <3>2 DEF l
  <2>3. Tail(s) \in Seq(S) /\ Len(Tail(s)) = Len(s) - 1
        BY <1>1, <1>2, HeadTailProperties DEF s, S
  <2>4. Tail(s) # <<>> => Len(Tail(s)) \in Nat \ {0}
        BY <2>3, EmptySeq
  <2>5. Tail(s) = <<>>
        BY <2>2, <2>3, <2>4
  <2> QED
        BY <2>5 DEF s
<1> HIDE DEF k
<1>5. /\ app' = [data_rx |-> app.data_rx, got |-> app.got, answer |-> app.answer,
                 len |-> app.len, send_tx |-> <<>>]
      BY <1>0, <1>1, <1>4 DEF AppInv
<1>6. /\ UNCHANGED <<state, snd, rcv, rb, close_initiated>> /\ pc' = "flush" /\ out' = {}
      /\ sb' = send_write(sb, k) /\ state \in {"Established", "CloseWait"}
      BY <1>1 DEF AppWrite, recvSide
<1>7. SendInv'
      BY <1>0, <1>1, <1>3, WriteStep
<1>8. RecvInv'
      BY <1>0, <1>6, KeepRecv DEF recvSide
<1>9. sb.len = 0 /\ Pos(sb.una, View) = 0
      BY <1>0, <1>1 DEF AnswerInv, Unwritten
<1>10. sb'.una = sb.una /\ sb'.nxt = sb.nxt /\ sb'.len \in 0 .. SEND_BUF_SIZE
  <2>1. sb = [una |-> sb.una, nxt |-> sb.nxt, len |-> sb.len]
        BY <1>0, SendTypes DEF SendInv, SendBuf
  <2>2. sb' = [una |-> sb.una, nxt |-> sb.nxt, len |-> sb.len + send_accepted(sb, k)]
        BY <1>6, <2>1 DEF send_write
  <2> QED
        BY <1>3, <1>9, <2>2, SendBufSizeAssumption DEF send_accepted, min
<1>11. View' = View
      BY <1>6, <1>10 DEF View
<1>12. AnswerInv'
  <2>1. ~ Unwritten'
        BY <1>2, <1>5 DEF Unwritten
  <2>2. Pos(sb'.una, View') + sb'.len <= SEND_BUF_SIZE
        BY <1>9, <1>10, <1>11, SendBufSizeAssumption
  <2> QED
        BY <2>1, <2>2 DEF AnswerInv
<1>13. AppInv'
  <2> DEFINE e == <<>>
             S == Seq(0 .. SEND_BUF_SIZE)
  <2>1. e \in S /\ Len(e) = 0
        BY EmptySeq
  <2>2. app'.answer = app.answer /\ app'.send_tx = e
        BY <1>5
  <2> HIDE DEF e, S
  <2>3. app' \in [data_rx : Seq(Nat \ {0}), got : Nat, answer : {"none", "http", "echo"},
                  len : 0 .. SEND_BUF_SIZE, send_tx : S]
        BY <1>0, <1>5, <2>1 DEF AppInv, e
  <2>4. Len(app'.send_tx) <= 1
        BY <2>1, <2>2
  <2> QED
        BY <1>0, <1>1, <1>2, <2>2, <2>3, <2>4 DEF AppInv, S
<1>14. WordInv' /\ PhaseInv' /\ OutInv' /\ TakenInv'
      BY <1>0, <1>1, <1>5, <1>6 DEF ServerInv, WordInv, Unsplit, PhaseInv, OutInv, TakenInv
<1>15. RequestInv'
      BY <1>0, <1>1, <1>5, <1>6 DEF ServerInv, RequestInv, Forwarded, Within, In
<1> QED
    BY <1>0, <1>1, <1>7, <1>8, <1>11, <1>12, <1>13, <1>14, <1>15 DEF SessionInv, ServerInv

\* What the application makes of a chunk.
LEMMA ChunkCases ==
    ASSUME AppInv, app.data_rx # <<>>, app' = handle_chunk(app),
           NEW g, g = app.got + Head(app.data_rx), NEW d, d = Tail(app.data_rx)
    PROVE  \/ /\ app.answer # "none" \/ is_http(g)
              /\ app' = [data_rx |-> d, got |-> g, answer |-> app.answer,
                         len |-> app.len, send_tx |-> app.send_tx]
           \/ /\ app.answer = "none"
              /\ app' = [data_rx |-> d, got |-> g, answer |-> "http",
                         len |-> AnswerLen, send_tx |-> <<AnswerLen>>]
           \/ /\ app.answer = "none" /\ ~ is_http(g)
              /\ app' = [data_rx |-> d, got |-> g, answer |-> "echo",
                         len |-> g, send_tx |-> <<g>>]
<1> DEFINE b == [data_rx |-> d, got |-> g, answer |-> app.answer,
                 len |-> app.len, send_tx |-> app.send_tx]
<1>1. take(app) = b
      BY DEF take
<1>2. app.answer = "none" =>
          Append(app.send_tx, AnswerLen) = <<AnswerLen>> /\ Append(app.send_tx, g) = <<g>>
  <2>1. \A x : Append(<<>>, x) = <<x>>
        OBVIOUS
  <2> QED
        BY <2>1 DEF AppInv
<1>3. b.answer = app.answer /\ b.got = g /\ b.send_tx = app.send_tx
      OBVIOUS
<1>4. app' = CASE b.answer # "none" -> b
               [] b.answer = "none" /\ is_http(b.got) /\ headers_complete(b.got) ->
                      Answer(b, "http", AnswerLen)
               [] b.answer = "none" /\ ~ is_http(b.got) -> Answer(b, "echo", b.got)
               [] OTHER -> b
      BY <1>1 DEF handle_chunk
<1>5. Answer(b, "http", AnswerLen) =
          [data_rx |-> d, got |-> g, answer |-> "http", len |-> AnswerLen,
           send_tx |-> Append(app.send_tx, AnswerLen)]
      BY DEF Answer
<1>6. Answer(b, "echo", b.got) =
          [data_rx |-> d, got |-> g, answer |-> "echo", len |-> g,
           send_tx |-> Append(app.send_tx, g)]
      BY DEF Answer
<1>7. CASE app.answer # "none"
      BY <1>3, <1>4, <1>7
<1>8. CASE app.answer = "none" /\ is_http(g) /\ headers_complete(g)
      BY <1>2, <1>3, <1>4, <1>5, <1>8
<1>9. CASE app.answer = "none" /\ ~ is_http(g)
      BY <1>2, <1>3, <1>4, <1>6, <1>9
<1>10. CASE app.answer = "none" /\ is_http(g) /\ ~ headers_complete(g)
      BY <1>3, <1>4, <1>10
<1> QED
    BY <1>7, <1>8, <1>9, <1>10

\* An iteration of handle_connection loses no byte, answers once, and answers
\* what started with its method word as a request.
LEMMA ChunkSession ==
    ASSUME SessionInv, HandleConnection
    PROVE  SessionInv'
<1> DEFINE h == Head(app.data_rx)
           d == Tail(app.data_rx)
           g == app.got + h
<1>0. SendInv /\ RecvInv /\ ServerInv /\ PhaseInv /\ AnswerInv /\ AppInv /\ Client(cl, View)
      BY DEF SessionInv, ServerInv
<1>1. app.data_rx # <<>> /\ app' = handle_chunk(app) /\ UNCHANGED <<vars, request, taken, cl>>
      BY DEF HandleConnection
<1>2. UNCHANGED <<state, snd, sb, rb, pc, close_initiated, out>>
      BY <1>1 DEF vars
<1>3. app.data_rx \in Seq(Nat \ {0}) /\ app.got \in Nat
      BY <1>0 DEF AppInv
<1>4. h \in Nat /\ h # 0 /\ h = app.data_rx[1] /\ d \in Seq(Nat \ {0})
  <2>1. h \in Nat \ {0} /\ d \in Seq(Nat \ {0})
        BY <1>1, <1>3, HeadTailProperties
  <2> QED
        BY <1>1, <1>3, <2>1
<1>5. app.data_rx \in Seq(Nat)
      BY <1>3, PositiveChunks
<1>6. bytes(app.data_rx) = h + bytes(d) /\ bytes(d) \in Nat
      BY <1>1, <1>5, TailBytes
<1>7. g \in Nat /\ g > 0 /\ g = app.got + h
      BY <1>3, <1>4
<1>8. \/ /\ app.answer # "none" \/ is_http(g)
         /\ app' = [data_rx |-> d, got |-> g, answer |-> app.answer,
                    len |-> app.len, send_tx |-> app.send_tx]
      \/ /\ app.answer = "none"
         /\ app' = [data_rx |-> d, got |-> g, answer |-> "http",
                    len |-> AnswerLen, send_tx |-> <<AnswerLen>>]
      \/ /\ app.answer = "none" /\ ~ is_http(g)
         /\ app' = [data_rx |-> d, got |-> g, answer |-> "echo",
                    len |-> g, send_tx |-> <<g>>]
      BY <1>0, <1>1, ChunkCases
<1> HIDE DEF h, d, g
<1>9. app'.data_rx = d /\ app'.got = g
      BY <1>8
<1>10. Forwarded' = Forwarded
  <2>1. Forwarded = app.got + bytes(app.data_rx) /\ Forwarded' = g + bytes(d)
        BY <1>9 DEF Forwarded
  <2> QED
        BY <1>3, <1>4, <1>6, <1>7, <2>1
<1>11. g \in 0 .. SEND_BUF_SIZE
  <2>1. g <= Forwarded /\ Forwarded \in Nat
        BY <1>3, <1>4, <1>6, <1>7 DEF Forwarded
  <2>2. Forwarded <= SEND_BUF_SIZE
    <3>1. CASE state = "Listen"
          BY <1>0, <3>1, SendBufSizeAssumption DEF ServerInv, RequestInv
    <3>2. CASE state # "Listen"
      <4>1. Forwarded + taken <= request.total /\ taken \in Nat
            BY <1>0, <3>2 DEF ServerInv, RequestInv, TakenInv, Within
      <4>2. request.total \in Nat /\ request.total <= SEND_BUF_SIZE
            BY <1>0, RequestTypes, TotalType
      <4> QED
            BY <2>1, <4>1, <4>2, SendBufSizeAssumption
    <3> QED
          BY <3>1, <3>2
  <2> QED
        BY <1>7, <2>1, <2>2, SendBufSizeAssumption
<1>12. AppInv'
  <2> DEFINE S == Seq(0 .. SEND_BUF_SIZE)
  <2>1. AnswerLen \in 0 .. SEND_BUF_SIZE
        BY SessionAssumption, SendBufSizeAssumption
  <2>2. \A x \in 0 .. SEND_BUF_SIZE : <<x>> \in S /\ Len(<<x>>) = 1
        OBVIOUS
  <2>3. <<g>> \in S /\ Len(<<g>>) = 1 /\ <<AnswerLen>> \in S /\ Len(<<AnswerLen>>) = 1
        BY <1>11, <2>1, <2>2
  <2>4. /\ app.answer \in {"none", "http", "echo"} /\ app.len \in 0 .. SEND_BUF_SIZE
        /\ app.send_tx \in S /\ Len(app.send_tx) <= 1 /\ (app.answer = "none" => app.send_tx = <<>>)
        BY <1>0 DEF AppInv
  <2> DEFINE s == <<g>>
             t == <<AnswerLen>>
  <2>5. s \in S /\ Len(s) = 1 /\ t \in S /\ Len(t) = 1
        BY <2>3
  <2>6. \/ app' = [data_rx |-> d, got |-> g, answer |-> app.answer,
                   len |-> app.len, send_tx |-> app.send_tx]
        \/ app' = [data_rx |-> d, got |-> g, answer |-> "http", len |-> AnswerLen, send_tx |-> t]
        \/ app' = [data_rx |-> d, got |-> g, answer |-> "echo", len |-> g, send_tx |-> s]
        BY <1>8
  <2> HIDE DEF s, t, S
  <2>7. app' \in [data_rx : Seq(Nat \ {0}), got : Nat, answer : {"none", "http", "echo"},
                  len : 0 .. SEND_BUF_SIZE, send_tx : S]
        BY <1>4, <1>7, <1>11, <2>1, <2>4, <2>5, <2>6
  <2>8. Len(app'.send_tx) <= 1 /\ (app'.answer = "none" => app'.send_tx = <<>>)
    <3>1. \/ app'.send_tx = app.send_tx /\ app'.answer = app.answer
          \/ app'.send_tx \in {s, t} /\ app'.answer # "none"
          BY <2>6
    <3>2. Len(app'.send_tx) = Len(app.send_tx) \/ Len(app'.send_tx) = 1
          BY <2>5, <3>1
    <3> DEFINE l == Len(app'.send_tx)
               k == Len(app.send_tx)
    <3>3. (l = k \/ l = 1) /\ k <= 1
          BY <2>4, <3>2
    <3>4. l <= 1
      <4> HIDE DEF l, k
      <4> QED
          BY <3>3
    <3> QED
          BY <2>4, <3>1, <3>4
  <2>9. request' \in Requests
        BY <1>0, <1>1 DEF AppInv
  <2> QED
        BY <2>7, <2>8, <2>9 DEF AppInv, S
<1>13. AnswerInv'
  <2>1. View' = View
        BY <1>2 DEF View
  <2>2. Unwritten' => Unwritten
        BY <1>8 DEF Unwritten
  <2> QED
        BY <1>0, <1>2, <2>1, <2>2 DEF AnswerInv
<1>14. WordInv'
  <2>1. Unsplit' <=> Unsplit
        BY <1>1 DEF Unsplit
  <2>2. ASSUME Unsplit PROVE g >= request.word
    <3>1. request.word \in Nat
          BY <1>0, RequestTypes
    <3>2. /\ app.got > 0 => app.got >= request.word
          /\ app.got = 0 => h >= request.word
          BY <1>0, <1>1, <1>4, <2>2 DEF ServerInv, WordInv
    <3> QED
          BY <1>3, <1>4, <1>7, <3>1, <3>2
  <2>3. ASSUME Unsplit PROVE app'.answer # "echo"
    <3>1. app.answer # "echo"
          BY <1>0, <2>3 DEF ServerInv, WordInv
    <3>2. is_http(g)
          BY <2>2, <2>3 DEF is_http
    <3> QED
          BY <1>8, <3>1, <3>2
  <2> QED
        BY <1>1, <1>7, <1>9, <2>1, <2>2, <2>3 DEF WordInv
<1>15. RequestInv' /\ TakenInv'
  <2>1. RequestInv'
        BY <1>0, <1>1, <1>2, <1>10 DEF ServerInv, RequestInv, Within, In
  <2>2. Unsplit' = Unsplit
        BY <1>1 DEF Unsplit
  <2>3. TakenInv'
        BY <1>0, <1>1, <1>2, <1>10, <2>2 DEF ServerInv, TakenInv
  <2> QED
        BY <2>1, <2>3
<1>16. SendInv' /\ RecvInv'
      BY <1>0, <1>1, StepSend, StepRecv
<1>17. View' = View
      BY <1>2 DEF View
<1>18. PhaseInv' /\ OutInv'
      BY <1>0, <1>2, <1>17 DEF ServerInv, PhaseInv, OutInv
<1> QED
    BY <1>0, <1>1, <1>12, <1>13, <1>14, <1>15, <1>16, <1>17, <1>18 DEF SessionInv, ServerInv
-----------------------------------------------------------------------------
(* The invariant holds.                                                    *)

\* It holds when the dispatcher has spawned the connection.
LEMMA InitSession == SessionInit => SessionInv
<1> SUFFICES ASSUME SessionInit PROVE SessionInv
      OBVIOUS
<1>1. Init /\ state = "Listen" /\ request \in Requests
      BY DEF SessionInit
<1>2. SendInv /\ RecvInv
      BY <1>1, InitSend, InitRecv
<1>3. pc = "select" /\ close_initiated = FALSE /\ out = {}
      BY <1>1 DEF Init
<1>4. /\ app.data_rx = <<>> /\ app.got = 0 /\ app.answer = "none" /\ app.len = 0
      /\ app.send_tx = <<>>
      /\ app = [data_rx |-> app.data_rx, got |-> app.got, answer |-> app.answer,
                len |-> app.len, send_tx |-> app.send_tx]
      BY DEF SessionInit
<1>5. AppInv
  <2> DEFINE a == app.data_rx
             b == app.send_tx
  <2>1. a \in Seq(Nat \ {0}) /\ b \in Seq(0 .. SEND_BUF_SIZE) /\ Len(b) = 0 /\ b = <<>>
        BY <1>4, EmptySeq
  <2>2. app = [data_rx |-> a, got |-> 0, answer |-> "none", len |-> 0, send_tx |-> b]
        BY <1>4
  <2> HIDE DEF a, b
  <2>3. app \in [data_rx : Seq(Nat \ {0}), got : Nat, answer : {"none", "http", "echo"},
                 len : 0 .. SEND_BUF_SIZE, send_tx : Seq(0 .. SEND_BUF_SIZE)]
        BY <2>1, <2>2, SendBufSizeAssumption
  <2> QED
        BY <1>1, <2>1, <2>3 DEF AppInv, b
<1>6. Forwarded = 0
      BY <1>4, NoBytes DEF Forwarded
<1>7. Pos(sb.una, View) = 0 /\ sb.len = 0
  <2>1. sb.una = wrapping_add(snd.iss, 1) /\ sb.len = 0
        BY <1>1, <1>2 DEF SendInv, HandshakeInv, Fresh, send_new
  <2>2. sb.una \in SeqNum /\ View.iss = snd.iss
        BY <1>2, SendTypes DEF SendInv, View
  <2> QED
        BY <2>1, <2>2, ZeroDistance DEF Pos
<1>8. Client(cl, View)
  <2>1. PeerIss \in SeqNum /\ 0 \in SeqNum
        BY SessionAssumption, HalfAssumption DEF SeqNum, Modulus
  <2> QED
        BY <2>1 DEF SessionInit, Client
<1>9. AnswerInv
      BY <1>7, SendBufSizeAssumption DEF AnswerInv
<1>10. PhaseInv /\ RequestInv /\ WordInv /\ TakenInv /\ OutInv
  <2>1. taken = 0
        BY DEF SessionInit
  <2> QED
        BY <1>1, <1>3, <1>4, <1>6, <2>1 DEF PhaseInv, RequestInv, WordInv, TakenInv, OutInv
<1> QED
    BY <1>2, <1>5, <1>8, <1>9, <1>10 DEF SessionInv, ServerInv

\* Every step keeps it.
LEMMA StepSession == SessionInv /\ [SessionNext]_sessionVars => SessionInv'
<1> SUFFICES ASSUME SessionInv, [SessionNext]_sessionVars PROVE SessionInv'
      OBVIOUS
<1>0. /\ Client(cl, View) /\ AppInv /\ View \in Views
      /\ cl \in [open : BOOLEAN, una : SeqNum, nxt : SeqNum, owe : BOOLEAN]
      BY ViewType DEF SessionInv, ServerInv, Client, ViewOK
<1>1. cl.nxt \in SeqNum /\ Pos(cl.nxt, View) \in Nat
      BY <1>0, PosType
<1>2. /\ request.total \in Nat
      /\ \A cut \in request.cuts :
            cut.off \in Nat /\ cut.len \in Nat /\ cut.off <= request.total /\ cut.len <= request.total
  <2>1. request.total \in Nat
        BY <1>0, RequestTypes, TotalType
  <2> QED
        BY <1>0, <2>1, RequestTypes
<1> DEFINE relieved == [cl EXCEPT !.owe = FALSE]
<1>3. /\ Client(relieved, View) /\ relieved.nxt = cl.nxt /\ relieved.open = cl.open
      BY <1>0 DEF Client
<1> HIDE DEF relieved
<1>4. CASE SynArrives
      BY <1>0, <1>4, SynSegment, ArriveStep DEF SynArrives
<1>5. ASSUME cl.open, NEW cut \in request.cuts, NEW ack \in AcksSent, DataArrives(cut, ack)
      PROVE  SessionInv'
  <2>1. ack \in SeqNum /\ Pos(ack, View) <= Pos(cl.nxt, View)
        BY <1>5, AckTypes
  <2>2. FromClient(ToServer({"ACK"}, cut.off, ack, cut.len))
        BY <1>2, <1>5, <2>1, ClientSegment
  <2> QED
        BY <1>0, <1>5, <2>2, ArriveStep DEF DataArrives
<1>6. ASSUME cl.open, NEW ack \in AcksSent, AckArrives(ack) PROVE SessionInv'
  <2>1. ack \in SeqNum /\ Pos(ack, View) <= Pos(cl.nxt, View)
        BY <1>6, AckTypes
  <2>2. FromClient(ToServer({"ACK"}, request.total, ack, 0))
        BY <1>2, <1>6, <2>1, ClientSegment
  <2> QED
        BY <1>0, <1>6, <2>2, ArriveStep DEF AckArrives
<1>7. CASE cl.open /\ OwedAckArrives
  <2>1. FromClient(ToServer({"ACK"}, request.total, cl.nxt, 0))
        BY <1>1, <1>2, <1>7, ClientSegment
  <2>2. Arrive(ToServer({"ACK"}, request.total, cl.nxt, 0), relieved)
        BY <1>7 DEF OwedAckArrives, relieved
  <2> QED
        BY <1>3, <2>1, <2>2, ArriveStep
<1>8. CASE cl.open /\ FinArrives
  <2>1. FromClient(ToServer({"FIN", "ACK"}, request.total, cl.nxt, 0))
        BY <1>1, <1>2, <1>8, ClientSegment
  <2> QED
        BY <1>0, <1>8, <2>1, ArriveStep DEF FinArrives
<1>9. CASE OwedAckLost
  <2>1. SendInv' /\ RecvInv' /\ ServerInv' /\ View' = View
        BY <1>9, ServerSame DEF OwedAckLost
  <2>2. cl' = relieved
        BY <1>9 DEF OwedAckLost, relieved
  <2> QED
        BY <1>3, <2>1, <2>2 DEF SessionInv
<1>10. CASE UNCHANGED sessionVars
  <2>1. UNCHANGED <<vars, request, app, taken>> /\ cl' = cl
        BY <1>10 DEF sessionVars
  <2>2. SendInv' /\ RecvInv' /\ ServerInv' /\ View' = View
        BY <2>1, ServerSame
  <2> QED
        BY <1>0, <2>1, <2>2 DEF SessionInv
<1> QED
    BY <1>4, <1>5, <1>6, <1>7, <1>8, <1>9, <1>10, TaskSession, TimerSession, WriteSession,
       ChunkSession, LateStep DEF SessionNext

\* What both ends believe of each other stays true, for every request, cut,
\* answer and behaviour of the network.
THEOREM SessionInvariant == SessionSpec => []SessionInv
BY InitSession, StepSession, PTL DEF SessionSpec
-----------------------------------------------------------------------------
(* What follows from it.                                                   *)

\* The types.
LEMMA SessionTypes == SessionInv => SessionTypeOK
<1> SUFFICES ASSUME SessionInv PROVE SessionTypeOK
      OBVIOUS
<1>1. AppInv /\ RequestInv /\ taken \in Nat /\ Client(cl, View)
      BY DEF SessionInv, ServerInv, TakenInv
<1>2. app.got \in Nat /\ app.data_rx \in Seq(Nat \ {0})
      BY <1>1 DEF AppInv
<1>3. app.data_rx \in Seq(Nat) /\ 0 \in Nat
      BY <1>2, PositiveChunks
<1>4. bytes(app.data_rx) \in Nat
      BY <1>3, AppendBytes
<1>5. request.total \in Nat
      BY <1>1, RequestTypes, TotalType
<1>6. Forwarded + taken <= request.total
      BY <1>1, <1>5 DEF RequestInv, Within
<1>7. app.got \in 0 .. request.total
      BY <1>1, <1>2, <1>4, <1>5, <1>6 DEF Forwarded
<1> QED
    BY <1>1, <1>7 DEF SessionTypeOK, AppInv, Client

\* The client is in step: its next byte is one of the server's flight.
LEMMA SessionInStep == SessionInv => InStep
<1> SUFFICES ASSUME SessionInv, state = "Established", cl.open
             PROVE  wrapping_sub(cl.nxt, snd.una) <= flight
      BY DEF InStep
<1>1. SendInv /\ RecvInv /\ PhaseInv /\ AnswerInv /\ Client(cl, View)
      BY DEF SessionInv, ServerInv
<1>2. View \in Views /\ View.una = sb.una /\ View.nxt = sb.nxt
      BY <1>1, ViewType DEF ViewOK, View
<1>3. snd.una = sb.una /\ snd.nxt = sb.nxt
      BY <1>1 DEF SendInv, CloseInv, Together
<1>4. /\ Pos(sb.una, View) <= Pos(cl.nxt, View) /\ Pos(cl.nxt, View) <= Pos(sb.nxt, View)
      /\ cl.nxt \in SeqNum
      BY <1>1, <1>2 DEF Client
<1>5. sb.una \in SeqNum /\ sb.nxt \in SeqNum
      BY <1>2 DEF Views
<1>6. /\ Pos(sb.una, View) \in Nat /\ Pos(cl.nxt, View) \in Nat /\ Pos(sb.nxt, View) \in Nat
      /\ wrapping_add(View.iss, 1) \in SeqNum
      BY <1>2, <1>4, <1>5, PosType
<1>7. Pos(sb.una, View) <= Pos(sb.nxt, View)
      BY <1>4, <1>6
<1>8. wrapping_sub(cl.nxt, sb.una) = Pos(cl.nxt, View) - Pos(sb.una, View)
      BY <1>4, <1>5, <1>6, RebaseDistance DEF Pos
<1>9. wrapping_sub(sb.nxt, sb.una) = Pos(sb.nxt, View) - Pos(sb.una, View)
      BY <1>5, <1>6, <1>7, RebaseDistance DEF Pos
<1> QED
    BY <1>3, <1>4, <1>6, <1>8, <1>9 DEF flight

\* Client and application stay in states they can be in: no byte of the request
\* is read twice, and one answer at most waits to be written.
THEOREM SessionTypeCorrect == SessionSpec => []SessionTypeOK
BY SessionInvariant, SessionTypes, PTL

\* The server never sends a RST to a client that keeps to the protocol,
\* whatever is lost, repeated or overtaken.
THEOREM ClientNeverRefused == SessionSpec => []NeverRefused
<1>1. SessionInv => NeverRefused
      BY DEF SessionInv, ServerInv, OutInv, Honest, NeverRefused
<1> QED
    BY <1>1, SessionInvariant, PTL

\* In ESTABLISHED no byte of the request is acknowledged that the application
\* was not handed or that the task is not about to hand it.
THEOREM AckedIsDelivered == SessionSpec => []AckedDelivered
<1>1. SessionInv => AckedDelivered
      BY DEF SessionInv, ServerInv, RequestInv, Client, Receiving, View, In, AckedDelivered
<1> QED
    BY <1>1, SessionInvariant, PTL

\* What the client expects next is always a byte the server holds for
\* retransmission, or the next it will send.
THEOREM StaysInStep == SessionSpec => []InStep
BY SessionInvariant, SessionInStep, PTL

\* A request whose method word is in one segment is never taken for bytes to
\* echo, however that segment is delayed, repeated or overtaken.
THEOREM UnsplitIsAnswered == SessionSpec => []UnsplitIsHttp
<1>1. SessionInv => UnsplitIsHttp
      BY DEF SessionInv, ServerInv, WordInv, Unsplit, UnsplitIsHttp
<1> QED
    BY <1>1, SessionInvariant, PTL
=============================================================================
