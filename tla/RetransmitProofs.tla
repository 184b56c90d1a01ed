-------------------------- MODULE RetransmitProofs --------------------------
(***************************************************************************)
(* Proofs about RetransmitQueue, for every setting of the timeouts, of the *)
(* queue's capacity and of the number of segments in flight.               *)
(*                                                                         *)
(* Karn and BackedOff speak of a segment's history, which the queue does   *)
(* not keep: the invariant ties the two together.  It needs the entries to *)
(* have different sequence numbers, which in turn needs them to lie        *)
(* between una and nxt, and that less than half the sequence space is in   *)
(* flight, so that fully_acked removes exactly the ones acknowledged.      *)
(***************************************************************************)
EXTENDS RetransmitQueue, Induction, SequenceTheorems

Est == [rto : MIN_RTO .. MAX_RTO, srtt : {None} \cup (0 .. MAX_RTO), rttvar : 0 .. MAX_RTO]

Hist == [quiet : 0 .. MAX_RTO, waited : 0 .. MAX_RTO, again : BOOLEAN]

\* The elements of a sequence.
Elems(q) == {q[i] : i \in DOMAIN q}

\* No two entries have the same sequence number.
Unique(q) == \A i, j \in DOMAIN q : q[i].seq = q[j].seq => i = j

Types ==
    /\ entries \in Seq(Entry) /\ Len(entries) <= RETRANSMIT_QUEUE_MAX
    /\ est \in Est
    /\ una \in SeqNum /\ nxt \in SeqNum
    /\ hist \in [SeqNum -> Hist]

InFlight ==
    /\ wrapping_sub(nxt, una) <= MaxFlight
    /\ Unique(entries)
    /\ \A e \in Entries : wrapping_sub(e.seq, una) < wrapping_sub(nxt, una)

\* The history of a segment in the queue is what its entry says, and there is
\* none of the others.
Recorded ==
    /\ \A s \in SeqNum : s \notin Seqs => hist[s] = unsent
    /\ \A e \in Entries : hist[e.seq].again = e.retransmitted /\ hist[e.seq].quiet = e.age

\* The timeout has been doubled since any segment was last sent by the timer.
Doubled == \A s \in SeqNum : est.rto >= min(2 * hist[s].waited, MAX_RTO)

Inv == Types /\ InFlight /\ Recorded /\ Doubled
-----------------------------------------------------------------------------
(* Sequence numbers in flight.                                             *)

\* The flight grows by one.
LEMMA Grow ==
    ASSUME NEW u \in SeqNum, NEW x \in SeqNum, wrapping_sub(x, u) < MaxFlight
    PROVE  /\ wrapping_add(x, 1) \in SeqNum
           /\ wrapping_sub(x, u) \in Nat
           /\ wrapping_sub(wrapping_add(x, 1), u) = wrapping_sub(x, u) + 1
BY HalfAssumption, RetransmitAssumption DEF wrapping_add, wrapping_sub, SeqNum, Modulus

\* A segment in flight that an acceptable acknowledgement does not cover stays
\* in flight.
LEMMA StillInFlight ==
    ASSUME NEW u \in SeqNum, NEW x \in SeqNum, NEW a \in SeqNum, NEW s \in SeqNum,
           wrapping_sub(x, u) <= MaxFlight, ack_acceptable(u, a, x),
           wrapping_sub(s, u) < wrapping_sub(x, u),
           ~ fully_acked(wrapping_add(s, 1), a)
    PROVE  wrapping_sub(s, a) < wrapping_sub(x, a)
BY HalfAssumption, RetransmitAssumption
   DEF ack_acceptable, fully_acked, seq_le, seq_lt, wrapping_add, wrapping_sub, SeqNum, Modulus

\* An acceptable acknowledgement shortens the flight.
LEMMA Shrink ==
    ASSUME NEW u \in SeqNum, NEW x \in SeqNum, NEW a \in SeqNum,
           wrapping_sub(x, u) <= MaxFlight, ack_acceptable(u, a, x)
    PROVE  wrapping_sub(x, a) <= MaxFlight
BY HalfAssumption, RetransmitAssumption
   DEF ack_acceptable, seq_le, seq_lt, wrapping_sub, SeqNum, Modulus
-----------------------------------------------------------------------------
(* The estimator.                                                          *)

\* A sample keeps the estimator in its limits.
LEMMA UpdateRto ==
    ASSUME NEW e \in Est, NEW r \in 0 .. MAX_RTO
    PROVE  update_rto(e, r) \in Est
<1> USE RetransmitAssumption
<1>1. ASSUME NEW x \in Nat PROVE clamp(x) \in MIN_RTO .. MAX_RTO
      BY DEF clamp, min
<1>2. ASSUME NEW x \in 0 .. MAX_RTO, NEW v \in 0 .. MAX_RTO PROVE with_rto(x, v) \in Est
  <2>1. x + 4 * v \in Nat
        OBVIOUS
  <2> QED
        BY <1>1, <2>1 DEF with_rto, Est
<1>3. e.rttvar \in 0 .. MAX_RTO /\ e.srtt \in {None} \cup (0 .. MAX_RTO)
      BY DEF Est
<1>4. CASE e.srtt = None
  <2>1. r \div 2 \in 0 .. MAX_RTO
        OBVIOUS
  <2> QED
        BY <1>2, <1>4, <2>1 DEF update_rto
<1>5. CASE e.srtt # None
  <2> DEFINE s == e.srtt
             v == e.rttvar
             d == distance(s, r)
  <2>1. s \in 0 .. MAX_RTO /\ v \in 0 .. MAX_RTO
        BY <1>3, <1>5
  <2> HIDE DEF s, v
  <2>2. d \in 0 .. MAX_RTO
        BY <2>1 DEF distance
  <2> HIDE DEF d
  <2>3. (7 * s + r) \div 8 \in 0 .. MAX_RTO /\ (3 * v + d) \div 4 \in 0 .. MAX_RTO
        BY <2>1, <2>2
  <2> QED
        BY <1>2, <1>5, <2>3 DEF update_rto, s, v, d
<1> QED
    BY <1>4, <1>5

Age == 0 .. MAX_RTO

\* So do any number of them.
LEMMA UpdateAll ==
    ASSUME NEW e \in Est, NEW samples \in Seq(Age)
    PROVE  /\ update_all(e, samples) \in Est
           /\ Len(samples) = 0 => update_all(e, samples) = e
<1> DEFINE n == Len(samples)
           next(i, q) == update_rto(q, samples[i])
           g == [i \in 1 .. n |-> [q \in Est |-> next(i, q)]]
           Eq(h) == h = [i \in 0 .. n |-> IF i = 0 THEN e ELSE next(i, h[i - 1])]
           f == CHOOSE h : Eq(h)
<1>1. n \in Nat /\ \A i \in 1 .. n : samples[i] \in Age
      OBVIOUS
<1>2. \A i \in 1 .. n : \A q \in Est : next(i, q) \in Est
      BY <1>1, UpdateRto DEF Age
<1>3. update_all(e, samples) = f[n]
      BY DEF update_all
<1>4. \E h : Eq(h)
  <2> HIDE DEF n, next
  <2>1. g \in [1 .. n -> [Est -> Est]]
        BY <1>2
  <2>2. PICK h : Runs(h, n, Est, e, g)
    <3> HIDE DEF g
    <3> QED
        BY <1>1, <2>1, Recursion
  <2>3. ASSUME NEW i \in 1 .. n
        PROVE  h[i] = next(i, h[i - 1])
    <3>1. h[i - 1] \in Est
          BY <1>1, <2>2 DEF Runs
    <3> QED
        BY <2>2, <3>1 DEF Runs
  <2> HIDE DEF g
  <2>4. \A i \in 0 .. n : h[i] = IF i = 0 THEN e ELSE next(i, h[i - 1])
        BY <1>1, <2>2, <2>3 DEF Runs
  <2> QED
        BY <2>2, <2>4 DEF Runs
<1>5. Eq(f)
  <2> HIDE DEF Eq
  <2> QED
        BY <1>4
<1>6. f[0] = e /\ \A i \in 1 .. n : f[i] = next(i, f[i - 1])
  <2> HIDE DEF n, next, f
  <2>1. \A i \in 0 .. n : f[i] = IF i = 0 THEN e ELSE next(i, f[i - 1])
        BY <1>5
  <2> QED
        BY <1>1, <2>1
<1> DEFINE S == {i \in 0 .. n : f[i] \in Est}
<1> HIDE DEF f, n, next
<1>7. 0 \in S /\ \A i \in 1 .. n : i - 1 \in S => i \in S
      BY <1>1, <1>2, <1>6
<1>8. \A i \in 0 .. n : i \in S
  <2> HIDE DEF S
  <2> QED
        BY <1>1, <1>7, UpTo
<1> QED
    BY <1>1, <1>3, <1>6, <1>8 DEF n
-----------------------------------------------------------------------------
(* The entries.                                                            *)

\* What a queue of entries is.
LEMMA QueueTypes ==
    ASSUME NEW q \in Seq(Entry)
    PROVE  /\ Len(q) \in Nat /\ DOMAIN q = 1 .. Len(q)
           /\ \A i \in 1 .. Len(q) : q[i] \in Entry /\ q[i].seq \in SeqNum /\ q[i].age \in 0 .. MAX_RTO
           /\ Elems(q) \subseteq Entry
<1>1. Len(q) \in Nat /\ DOMAIN q = 1 .. Len(q) /\ \A i \in 1 .. Len(q) : q[i] \in Entry
      OBVIOUS
<1>2. \A e \in Entry : e.seq \in SeqNum /\ e.age \in 0 .. MAX_RTO
      BY DEF Entry
<1> QED
    BY <1>1, <1>2 DEF Elems

\* Vec::retain and the samples: which entries are chosen.
LEMMA SelectEntries ==
    ASSUME NEW q \in Seq(Entry), NEW K
    PROVE  /\ Select(q, K) \in Seq(Entry)
           /\ Len(Select(q, K)) <= Len(q)
           /\ Elems(Select(q, K)) = Elems(q) \cap K
           /\ Unique(q) => Unique(Select(q, K))
<1> DEFINE t == Select(q, K)
<1>1. t \in Seq(Entry) /\ Len(t) <= Len(q)
      BY SelectProperties
<1>2. PICK m : Selects(q, K, Len(q), t, m)
      BY SelectProperties
<1> HIDE DEF t
<1>3. /\ DOMAIN q = 1 .. Len(q) /\ DOMAIN t = 1 .. Len(t) /\ Len(q) \in Nat /\ Len(t) \in Nat
      BY <1>1
<1>4. \A j \in 1 .. Len(t) : m[j] \in 1 .. Len(q) /\ t[j] = q[m[j]] /\ q[m[j]] \in K
      BY <1>2 DEF Selects
<1>5. \A h \in 1 .. Len(q) : q[h] \in K => \E j \in 1 .. Len(t) : t[j] = q[h]
      BY <1>2 DEF Selects
<1>6. Elems(t) \subseteq Elems(q) \cap K
      BY <1>3, <1>4 DEF Elems
<1>7. Elems(q) \cap K \subseteq Elems(t)
  <2> SUFFICES ASSUME NEW e \in Elems(q), e \in K PROVE e \in Elems(t)
      OBVIOUS
  <2>1. PICK h \in 1 .. Len(q) : e = q[h]
        BY <1>3 DEF Elems
  <2>2. PICK j \in 1 .. Len(t) : t[j] = q[h]
        BY <1>5, <2>1
  <2> QED
        BY <1>3, <2>1, <2>2 DEF Elems
<1>8. ASSUME Unique(q), NEW i \in DOMAIN t, NEW j \in DOMAIN t, t[i].seq = t[j].seq
      PROVE  i = j
  <2>1. m[i] = m[j]
        BY <1>3, <1>4, <1>8 DEF Unique
  <2>2. m[i] \in Int /\ (i < j => m[i] < m[j]) /\ (j < i => m[j] < m[i])
        BY <1>2, <1>3, <1>4 DEF Selects
  <2> QED
        BY <1>3, <2>1, <2>2
<1> QED
    BY <1>1, <1>6, <1>7, <1>8 DEF t, Unique

\* Two entries of a queue with the same sequence number are the same.
LEMMA SameEntry ==
    ASSUME NEW q, Unique(q), NEW e \in Elems(q), NEW f \in Elems(q), e.seq = f.seq
    PROVE  e = f
BY DEF Elems, Unique

\* A segment pushed on a queue that does not hold it.
LEMMA AppendUnique ==
    ASSUME NEW q \in Seq(Entry), Unique(q), NEW e \in Entry, \A f \in Elems(q) : f.seq # e.seq
    PROVE  /\ Append(q, e) \in Seq(Entry) /\ Len(Append(q, e)) = Len(q) + 1
           /\ Elems(Append(q, e)) = Elems(q) \cup {e}
           /\ Unique(Append(q, e))
<1> DEFINE t == Append(q, e)
           n == Len(q)
<1>1. /\ n \in Nat /\ DOMAIN q = 1 .. n
      /\ t \in Seq(Entry) /\ Len(t) = n + 1 /\ DOMAIN t = 1 .. (n + 1)
      /\ t[n + 1] = e /\ \A i \in 1 .. n : t[i] = q[i]
      OBVIOUS
<1> HIDE DEF t, n
<1>2. \A i \in 1 .. (n + 1) : i \in 1 .. n \/ i = n + 1
      BY <1>1
<1>3. \A i \in 1 .. n : q[i].seq # e.seq /\ i \in 1 .. (n + 1)
      BY <1>1 DEF Elems
<1>4. n + 1 \in 1 .. (n + 1)
      BY <1>1
<1>5. Elems(t) = Elems(q) \cup {e}
  <2>1. Elems(t) \subseteq Elems(q) \cup {e}
        BY <1>1, <1>2 DEF Elems
  <2>2. Elems(q) \subseteq Elems(t) /\ e \in Elems(t)
        BY <1>1, <1>3, <1>4 DEF Elems
  <2> QED
        BY <2>1, <2>2
<1>6. ASSUME NEW i \in 1 .. (n + 1), NEW j \in 1 .. (n + 1), t[i].seq = t[j].seq
      PROVE  i = j
  <2>1. CASE i \in 1 .. n /\ j \in 1 .. n
        BY <1>1, <1>6, <2>1 DEF Unique
  <2>2. CASE i = n + 1 \/ j = n + 1
        BY <1>1, <1>2, <1>3, <1>6, <2>2
  <2> QED
        BY <1>2, <2>1, <2>2
<1> QED
    BY <1>1, <1>5, <1>6 DEF Unique, t, n
-----------------------------------------------------------------------------
(* The invariant.                                                          *)

\* The sets of RetransmitQueue in terms of the entries.
LEMMA EntriesAre == Entries = Elems(entries) /\ Entries' = Elems(entries')
BY DEF Entries, Elems

LEMMA InitInv == Init => Inv
<1> SUFFICES ASSUME Init PROVE Inv
    OBVIOUS
<1> USE RetransmitAssumption, HalfAssumption
<1>1. entries = <<>> /\ una = 0 /\ nxt = 0 /\ hist = [s \in SeqNum |-> unsent]
      BY DEF Init
<1>2. unsent \in Hist /\ unsent.waited = 0
      BY DEF unsent, Hist
<1>3. est \in Est
      BY DEF Init, Est
<1>4. 0 \in SeqNum
      BY DEF SeqNum, Modulus
<1>5. Types
  <2>1. entries \in Seq(Entry) /\ Len(entries) <= RETRANSMIT_QUEUE_MAX
        BY <1>1
  <2>2. hist \in [SeqNum -> Hist]
        BY <1>1, <1>2
  <2> QED
        BY <1>1, <1>3, <1>4, <2>1, <2>2 DEF Types
<1>6. Entries = {}
      BY <1>1 DEF Entries
<1>7. InFlight
      BY <1>1, <1>6 DEF InFlight, Unique, wrapping_sub
<1>8. Recorded
      BY <1>1, <1>6 DEF Recorded
<1>9. Doubled
  <2>1. est.rto \in Nat
        BY <1>3 DEF Est
  <2> QED
        BY <1>1, <1>2, <2>1 DEF Doubled, min
<1> QED
    BY <1>5, <1>7, <1>8, <1>9 DEF Inv

LEMMA PushInv ==
    ASSUME Inv, push
    PROVE  Inv'
<1> USE RetransmitAssumption
<1> DEFINE e == [seq |-> nxt, age |-> 0, retransmitted |-> FALSE]
<1>0. /\ entries \in Seq(Entry) /\ Len(entries) <= RETRANSMIT_QUEUE_MAX /\ est \in Est
      /\ una \in SeqNum /\ nxt \in SeqNum /\ hist \in [SeqNum -> Hist]
      /\ Unique(entries)
      BY DEF Inv, Types, InFlight
<1>1. /\ wrapping_sub(nxt, una) < MaxFlight /\ nxt' = wrapping_add(nxt, 1)
      /\ est' = est /\ una' = una /\ hist' = hist
      /\ entries' = IF Len(entries) < RETRANSMIT_QUEUE_MAX THEN Append(entries, e) ELSE entries
      BY DEF push
<1>2. /\ nxt' \in SeqNum /\ wrapping_sub(nxt, una) \in Nat
      /\ wrapping_sub(nxt', una') = wrapping_sub(nxt, una) + 1
      BY <1>0, <1>1, Grow
<1>3. e \in Entry /\ e.seq = nxt /\ e.age = 0 /\ e.retransmitted = FALSE
      BY <1>0 DEF Entry
<1> HIDE DEF e
<1>4. /\ Elems(entries) = Entries /\ Elems(entries) \subseteq Entry
      /\ \A f \in Elems(entries) : f.seq \in SeqNum
  <2>1. Elems(entries) \subseteq Entry
        BY <1>0, QueueTypes
  <2> QED
        BY <2>1, EntriesAre DEF Entry
<1>5. \A f \in Elems(entries) : wrapping_sub(f.seq, una) < wrapping_sub(nxt, una)
      BY <1>4 DEF Inv, InFlight
<1>6. \A f \in Elems(entries) : f.seq # nxt
      BY <1>2, <1>5
<1>7. nxt \notin Seqs
      BY <1>4, <1>6 DEF Seqs
<1>8. /\ entries' \in Seq(Entry) /\ Len(entries') <= RETRANSMIT_QUEUE_MAX
      /\ Unique(entries')
      /\ Elems(entries') = Elems(entries) \/ Elems(entries') = Elems(entries) \cup {e}
  <2>1. CASE Len(entries) < RETRANSMIT_QUEUE_MAX
    <3>1. entries' = Append(entries, e)
          BY <1>1, <2>1
    <3>2. /\ Append(entries, e) \in Seq(Entry) /\ Len(Append(entries, e)) = Len(entries) + 1
          /\ Elems(Append(entries, e)) = Elems(entries) \cup {e}
          /\ Unique(Append(entries, e))
          BY <1>0, <1>3, <1>6, AppendUnique
    <3>3. Len(entries) + 1 <= RETRANSMIT_QUEUE_MAX
      <4>1. Len(entries) \in Nat
            BY <1>0
      <4> QED
            BY <2>1, <4>1
    <3> QED
          BY <3>1, <3>2, <3>3
  <2>2. CASE ~ (Len(entries) < RETRANSMIT_QUEUE_MAX)
        BY <1>0, <1>1, <2>2
  <2> QED
        BY <2>1, <2>2
<1>9. Types'
      BY <1>0, <1>1, <1>2, <1>8 DEF Types
<1>10. InFlight'
  <2>1. wrapping_sub(nxt', una') <= MaxFlight
        BY <1>1, <1>2
  <2>2. ASSUME NEW f \in Entries' PROVE wrapping_sub(f.seq, una') < wrapping_sub(nxt', una')
    <3>1. f \in Elems(entries) \/ f = e
          BY <1>8, EntriesAre
    <3>2. CASE f = e
          BY <1>1, <1>2, <1>3, <3>2
    <3>3. CASE f \in Elems(entries)
      <4>1. wrapping_sub(f.seq, una) \in Int
            BY <1>0, <1>4, <3>3, HalfAssumption DEF wrapping_sub, SeqNum, Modulus
      <4> QED
            BY <1>1, <1>2, <1>5, <3>3, <4>1
    <3> QED
          BY <3>1, <3>2, <3>3
  <2> QED
        BY <1>8, <2>1, <2>2 DEF InFlight
<1>11. Recorded'
  <2>1. hist[nxt] = unsent
        BY <1>0, <1>7 DEF Inv, Recorded
  <2>2. ASSUME NEW s \in SeqNum, s \notin Seqs' PROVE hist'[s] = unsent
    <3>1. s \notin Seqs
          BY <1>4, <1>8, <2>2, EntriesAre DEF Seqs
    <3> QED
          BY <1>1, <3>1 DEF Inv, Recorded
  <2>3. ASSUME NEW f \in Entries'
        PROVE  hist'[f.seq].again = f.retransmitted /\ hist'[f.seq].quiet = f.age
    <3>1. f \in Entries \/ f = e
          BY <1>4, <1>8, EntriesAre
    <3>2. CASE f \in Entries
          BY <1>1, <3>2 DEF Inv, Recorded
    <3>3. CASE f = e
      <4>1. unsent.again = FALSE /\ unsent.quiet = 0
            BY DEF unsent
      <4> QED
            BY <1>1, <1>3, <2>1, <3>3, <4>1
    <3> QED
          BY <3>1, <3>2, <3>3
  <2> QED
        BY <2>2, <2>3 DEF Recorded
<1>12. Doubled'
       BY <1>1 DEF Inv, Doubled
<1> QED
    BY <1>9, <1>10, <1>11, <1>12 DEF Inv
\* What an acknowledgement does, of which the invariant and Karn's rule each
\* need a part.
LEMMA AckStep ==
    ASSUME Inv, NEW ack \in SeqNum, acknowledge_and_sample_rtt(ack),
           NEW gone, gone = acked_by(ack)
    PROVE  /\ entries' \in Seq(Entry) /\ Len(entries') <= RETRANSMIT_QUEUE_MAX
           /\ Unique(entries') /\ gone \subseteq Entries /\ Entries' = Entries \ gone
           /\ sampled' = {e.seq : e \in {f \in gone : unambiguous(f)}}
           /\ est' \in Est
           /\ \/ /\ est' = est
                 /\ hist' = [s \in SeqNum |-> IF s \in {e.seq : e \in gone} THEN unsent ELSE hist[s]]
              \/ hist' = [s \in SeqNum |-> IF s \in {e.seq : e \in gone} THEN unsent
                                           ELSE [hist[s] EXCEPT !.waited = 0]]
<1> USE RetransmitAssumption
<1> DEFINE timely == {f \in gone : unambiguous(f)}
           timed  == Select(entries, timely)
           ages   == [i \in DOMAIN timed |-> timed[i].age]
<1>0. /\ entries \in Seq(Entry) /\ Len(entries) <= RETRANSMIT_QUEUE_MAX /\ est \in Est
      /\ Unique(entries)
      BY DEF Inv, Types, InFlight
<1>1. /\ entries' = Select(entries, Entries \ gone)
      /\ est' = update_all(est, ages)
      /\ sampled' = {timed[i].seq : i \in DOMAIN timed}
      /\ hist' = [s \in SeqNum |->
                     IF s \in {e.seq : e \in gone} THEN unsent
                     ELSE IF timed = <<>> THEN hist[s] ELSE [hist[s] EXCEPT !.waited = 0]]
      BY DEF acknowledge_and_sample_rtt
<1>2. gone \subseteq Entries
      BY DEF acked_by
<1>3. /\ entries' \in Seq(Entry) /\ Len(entries') <= Len(entries)
      /\ Elems(entries') = Elems(entries) \cap (Entries \ gone) /\ Unique(entries')
      BY <1>0, <1>1, SelectEntries
<1>4. Len(entries') <= RETRANSMIT_QUEUE_MAX
  <2>1. Len(entries) \in Nat /\ Len(entries') \in Nat
        BY <1>0, <1>3
  <2> QED
        BY <1>0, <1>3, <2>1
<1>5. Entries' = Entries \ gone
      BY <1>3, EntriesAre
<1>6. timed \in Seq(Entry) /\ Elems(timed) = Elems(entries) \cap timely
      BY <1>0, SelectEntries
<1> HIDE DEF timed, timely
<1>7. Elems(timed) = timely
      BY <1>2, <1>6, EntriesAre DEF timely
<1>8. sampled' = {e.seq : e \in timely}
  <2>1. {timed[i].seq : i \in DOMAIN timed} = {e.seq : e \in Elems(timed)}
        BY DEF Elems
  <2> QED
        BY <1>1, <1>7, <2>1
<1>9. ages \in Seq(Age) /\ Len(ages) = Len(timed)
  <2>1. Len(timed) \in Nat /\ DOMAIN timed = 1 .. Len(timed)
        /\ \A i \in 1 .. Len(timed) : timed[i].age \in 0 .. MAX_RTO
        BY <1>6, QueueTypes
  <2>2. ages \in [1 .. Len(timed) -> Age]
        BY <2>1 DEF Age
  <2> HIDE DEF ages
  <2> QED
        BY <2>1, <2>2, SeqDef, LenProperties
<1> HIDE DEF ages
<1>10. est' \in Est
       BY <1>0, <1>1, <1>9, UpdateAll
<1>11. CASE timed = <<>>
  <2>1. Len(ages) = 0
        BY <1>9, <1>11
  <2>2. est' = est
        BY <1>0, <1>1, <1>9, <2>1, UpdateAll
  <2>3. hist' = [s \in SeqNum |-> IF s \in {e.seq : e \in gone} THEN unsent ELSE hist[s]]
        BY <1>1, <1>11
  <2> QED
        BY <1>2, <1>3, <1>4, <1>5, <1>8, <1>10, <2>2, <2>3 DEF timely
<1>12. CASE timed # <<>>
  <2>1. hist' = [s \in SeqNum |-> IF s \in {e.seq : e \in gone} THEN unsent
                                  ELSE [hist[s] EXCEPT !.waited = 0]]
        BY <1>1, <1>12
  <2> QED
        BY <1>2, <1>3, <1>4, <1>5, <1>8, <1>10, <2>1 DEF timely
<1> QED
    BY <1>11, <1>12

LEMMA AckInv ==
    ASSUME Inv, NEW ack \in SeqNum, acknowledge_and_sample_rtt(ack)
    PROVE  Inv'
<1> USE RetransmitAssumption
<1> DEFINE gone  == acked_by(ack)
           goneS == {e.seq : e \in gone}
<1>0. /\ entries \in Seq(Entry) /\ una \in SeqNum /\ nxt \in SeqNum /\ hist \in [SeqNum -> Hist]
      /\ est \in Est /\ Unique(entries) /\ wrapping_sub(nxt, una) <= MaxFlight
      /\ \A e \in Entries : wrapping_sub(e.seq, una) < wrapping_sub(nxt, una)
      BY DEF Inv, Types, InFlight
<1>1. ack_acceptable(una, ack, nxt) /\ una' = ack /\ nxt' = nxt
      BY DEF acknowledge_and_sample_rtt
<1>2. /\ entries' \in Seq(Entry) /\ Len(entries') <= RETRANSMIT_QUEUE_MAX
      /\ Unique(entries') /\ gone \subseteq Entries /\ Entries' = Entries \ gone
      /\ est' \in Est
      /\ \/ /\ est' = est
            /\ hist' = [s \in SeqNum |-> IF s \in goneS THEN unsent ELSE hist[s]]
         \/ hist' = [s \in SeqNum |-> IF s \in goneS THEN unsent ELSE [hist[s] EXCEPT !.waited = 0]]
  <2>1. gone = acked_by(ack)
        OBVIOUS
  <2> HIDE DEF gone
  <2> QED
        BY <2>1, AckStep
<1>3. \A e \in Entries : e.seq \in SeqNum
  <2>1. Entries \subseteq Entry
        BY <1>0, QueueTypes, EntriesAre
  <2> QED
        BY <2>1 DEF Entry
<1>4. \A e \in Entries \ gone : ~ fully_acked(wrapping_add(e.seq, 1), ack)
      BY DEF acked_by
<1> HIDE DEF gone
<1>5. unsent \in Hist /\ unsent.waited = 0 /\ unsent.again = FALSE /\ unsent.quiet = 0
      BY DEF unsent, Hist
<1>6. ASSUME NEW h \in Hist
      PROVE  LET k == [h EXCEPT !.waited = 0]
             IN  k \in Hist /\ k.waited = 0 /\ k.again = h.again /\ k.quiet = h.quiet
      BY DEF Hist
<1>7. /\ hist' \in [SeqNum -> Hist]
      /\ \A s \in goneS \cap SeqNum : hist'[s] = unsent
      /\ \A s \in SeqNum \ goneS : hist'[s].again = hist[s].again /\ hist'[s].quiet = hist[s].quiet
      /\ \A s \in SeqNum \ goneS : hist[s] = unsent => hist'[s] = unsent
  <2> DEFINE reset(h) == [h EXCEPT !.waited = 0]
  <2>1. CASE hist' = [s \in SeqNum |-> IF s \in goneS THEN unsent ELSE hist[s]]
    <3> HIDE DEF goneS
    <3> QED
        BY <1>0, <1>5, <2>1
  <2>2. CASE hist' = [s \in SeqNum |-> IF s \in goneS THEN unsent ELSE reset(hist[s])]
    <3>1. \A h \in Hist : reset(h) \in Hist /\ reset(h).again = h.again /\ reset(h).quiet = h.quiet
          BY <1>6
    <3>2. reset(unsent) = unsent
          BY DEF unsent
    <3> HIDE DEF goneS, reset
    <3>3. \A s \in SeqNum : hist[s] \in Hist
          BY <1>0
    <3> QED
        BY <1>5, <2>2, <3>1, <3>2, <3>3
  <2> QED
        BY <1>2, <2>1, <2>2
<1>8. Types'
      BY <1>0, <1>1, <1>2, <1>7 DEF Types
<1>9. InFlight'
  <2>1. wrapping_sub(nxt', una') <= MaxFlight
        BY <1>0, <1>1, Shrink
  <2>2. ASSUME NEW e \in Entries' PROVE wrapping_sub(e.seq, una') < wrapping_sub(nxt', una')
    <3>1. e \in Entries /\ e \notin gone
          BY <1>2
    <3>2. /\ e.seq \in SeqNum /\ wrapping_sub(e.seq, una) < wrapping_sub(nxt, una)
          /\ ~ fully_acked(wrapping_add(e.seq, 1), ack)
          BY <1>0, <1>3, <1>4, <3>1
    <3> DEFINE s == e.seq
    <3> HIDE DEF s
    <3>3. wrapping_sub(s, ack) < wrapping_sub(nxt, ack)
          BY <1>0, <1>1, <3>2, StillInFlight DEF s
    <3> QED
          BY <1>1, <3>3 DEF s
  <2> QED
        BY <1>2, <2>1, <2>2 DEF InFlight
<1>10. Recorded'
  <2>1. ASSUME NEW s \in SeqNum, s \notin Seqs' PROVE hist'[s] = unsent
    <3>1. CASE s \in goneS
          BY <1>7, <3>1
    <3>2. CASE s \notin goneS
      <4>1. s \notin Seqs
            BY <1>2, <2>1, <3>2 DEF Seqs
      <4>2. hist[s] = unsent
            BY <4>1 DEF Inv, Recorded
      <4> QED
            BY <1>7, <3>2, <4>2
    <3> QED
          BY <3>1, <3>2
  <2>2. ASSUME NEW e \in Entries'
        PROVE  hist'[e.seq].again = e.retransmitted /\ hist'[e.seq].quiet = e.age
    <3>1. e \in Entries /\ e \notin gone
          BY <1>2
    <3>2. e.seq \notin goneS
          BY <1>0, <1>2, <3>1, SameEntry, EntriesAre
    <3>3. hist[e.seq].again = e.retransmitted /\ hist[e.seq].quiet = e.age
          BY <3>1 DEF Inv, Recorded
    <3> QED
          BY <1>3, <1>7, <3>1, <3>2, <3>3
  <2> QED
        BY <2>1, <2>2 DEF Recorded
<1>11. Doubled'
  <2> SUFFICES ASSUME NEW s \in SeqNum PROVE est'.rto >= min(2 * hist'[s].waited, MAX_RTO)
      BY DEF Doubled
  <2>1. est'.rto \in Nat
        BY <1>2 DEF Est
  <2>2. CASE hist'[s].waited = 0
        BY <2>1, <2>2 DEF min
  <2>3. CASE hist'[s].waited # 0
    <3>1. s \notin goneS
          BY <1>5, <1>7, <2>3
    <3>2. ASSUME hist' = [q \in SeqNum |-> IF q \in goneS THEN unsent ELSE [hist[q] EXCEPT !.waited = 0]]
          PROVE  FALSE
      <4>1. hist'[s] = [hist[s] EXCEPT !.waited = 0] /\ hist[s] \in Hist
            BY <1>0, <3>1, <3>2
      <4> QED
            BY <1>6, <2>3, <4>1
    <3>3. est' = est /\ hist'[s] = hist[s]
          BY <1>2, <3>1, <3>2
    <3> QED
          BY <3>3 DEF Inv, Doubled
  <2> QED
        BY <2>2, <2>3
<1> QED
    BY <1>8, <1>9, <1>10, <1>11 DEF Inv
\* Every entry changed in place, its sequence number kept.
InPlace(q, t) ==
    /\ DOMAIN t = DOMAIN q
    /\ \A i \in DOMAIN q : t[i] \in Entry /\ t[i].seq = q[i].seq

LEMMA InPlaceKeeps ==
    ASSUME NEW q \in Seq(Entry), NEW t, t = [i \in DOMAIN q |-> t[i]], InPlace(q, t)
    PROVE  /\ t \in Seq(Entry) /\ Len(t) = Len(q)
           /\ Unique(q) => Unique(t)
           /\ {e.seq : e \in Elems(t)} = {e.seq : e \in Elems(q)}
           /\ \A e \in Elems(t) : \E i \in DOMAIN q : e = t[i]
<1> DEFINE n == Len(q)
<1>1. n \in Nat /\ DOMAIN q = 1 .. n
      OBVIOUS
<1>2. t \in [1 .. n -> Entry]
      BY <1>1 DEF InPlace
<1>3. t \in Seq(Entry) /\ Len(t) = n
      BY <1>1, <1>2, SeqDef, LenProperties
<1>4. Unique(q) => Unique(t)
      BY DEF Unique, InPlace
<1>5. {e.seq : e \in Elems(t)} = {e.seq : e \in Elems(q)}
  <2>1. {e.seq : e \in Elems(t)} = {t[i].seq : i \in DOMAIN t}
        BY DEF Elems
  <2>2. {e.seq : e \in Elems(q)} = {q[i].seq : i \in DOMAIN q}
        BY DEF Elems
  <2>3. {t[i].seq : i \in DOMAIN t} = {q[i].seq : i \in DOMAIN q}
        BY DEF InPlace
  <2> QED
        BY <2>1, <2>2, <2>3
<1>6. \A e \in Elems(t) : \E i \in DOMAIN q : e = t[i]
      BY DEF Elems, InPlace
<1> QED
    BY <1>3, <1>4, <1>5, <1>6

\* The parts of the invariant that depend on sequence numbers alone.
LEMMA InPlaceInv ==
    ASSUME Inv, InPlace(entries, entries'), entries' = [i \in DOMAIN entries |-> entries'[i]],
           una' = una, nxt' = nxt
    PROVE  /\ entries' \in Seq(Entry) /\ Len(entries') <= RETRANSMIT_QUEUE_MAX
           /\ InFlight' /\ Seqs' = Seqs
<1>0. /\ entries \in Seq(Entry) /\ Len(entries) <= RETRANSMIT_QUEUE_MAX /\ Unique(entries)
      /\ wrapping_sub(nxt, una) <= MaxFlight
      /\ \A e \in Entries : wrapping_sub(e.seq, una) < wrapping_sub(nxt, una)
      BY DEF Inv, Types, InFlight
<1>1. /\ entries' \in Seq(Entry) /\ Len(entries') = Len(entries) /\ Unique(entries')
      /\ {e.seq : e \in Elems(entries')} = {e.seq : e \in Elems(entries)}
      BY <1>0, InPlaceKeeps
<1>2. Seqs' = Seqs
      BY <1>1, EntriesAre DEF Seqs
<1>3. ASSUME NEW e \in Entries' PROVE wrapping_sub(e.seq, una') < wrapping_sub(nxt', una')
  <2>1. e.seq \in Seqs
        BY <1>2 DEF Seqs
  <2> QED
        BY <1>0, <2>1 DEF Seqs
<1> QED
    BY <1>0, <1>1, <1>2, <1>3 DEF InFlight

\* What a tick that finds entries expired does.
LEMMA ExpiredStep ==
    ASSUME Inv, expired_segments
    PROVE  /\ InPlace(entries, entries') /\ entries' = [i \in DOMAIN entries |-> entries'[i]]
           /\ \A s \in resent' : \E e \in Entries : s = e.seq /\ e.age >= est.rto
           /\ \A i \in DOMAIN entries :
                 \/ /\ entries[i].seq \in resent'
                    /\ entries'[i].age = 0 /\ entries'[i].retransmitted = TRUE
                 \/ entries[i].seq \notin resent' /\ entries'[i] = entries[i]
           /\ resent' \subseteq Seqs
           /\ est' = backed_off(est) /\ una' = una /\ nxt' = nxt /\ sampled' = {}
           /\ hist' = [s \in SeqNum |->
                          IF s \in resent' THEN [quiet |-> 0, waited |-> est.rto, again |-> TRUE]
                          ELSE hist[s]]
<1> USE RetransmitAssumption
<1> DEFINE E == {i \in DOMAIN entries : expired(entries[i], est.rto)}
<1>0. entries \in Seq(Entry) /\ Unique(entries)
      BY DEF Inv, Types, InFlight
<1>1. /\ entries' = [i \in DOMAIN entries |-> IF i \in E THEN renewed(entries[i]) ELSE entries[i]]
      /\ est' = backed_off(est) /\ una' = una /\ nxt' = nxt /\ sampled' = {}
      /\ resent' = {entries[i].seq : i \in E}
      /\ hist' = [s \in SeqNum |->
                     IF s \in resent' THEN [quiet |-> 0, waited |-> est.rto, again |-> TRUE]
                     ELSE hist[s]]
      BY DEF expired_segments
<1>2. E \subseteq DOMAIN entries /\ \A i \in E : entries[i].age >= est.rto
      BY DEF expired
<1> HIDE DEF E
<1>3. \A i \in DOMAIN entries : entries[i] \in Entry
      BY <1>0, QueueTypes
<1>4. ASSUME NEW e \in Entry
      PROVE  /\ renewed(e) \in Entry /\ renewed(e).seq = e.seq
             /\ renewed(e).age = 0 /\ renewed(e).retransmitted = TRUE
  <2>1. e = [seq |-> e.seq, age |-> e.age, retransmitted |-> e.retransmitted] /\ e.seq \in SeqNum
        BY DEF Entry
  <2>2. renewed(e) = [e EXCEPT !.age = 0, !.retransmitted = TRUE]
        BY DEF renewed
  <2>3. renewed(e) = [seq |-> e.seq, age |-> 0, retransmitted |-> TRUE]
        BY <2>1, <2>2
  <2> QED
        BY <2>1, <2>3 DEF Entry
<1>5. DOMAIN entries' = DOMAIN entries /\ entries' = [i \in DOMAIN entries |-> entries'[i]]
      BY <1>1
<1>6. \A i \in DOMAIN entries : entries'[i] = IF i \in E THEN renewed(entries[i]) ELSE entries[i]
      BY <1>1
<1>7. InPlace(entries, entries')
      BY <1>3, <1>4, <1>5, <1>6 DEF InPlace
<1>8. \A i \in DOMAIN entries : entries[i].seq \in resent' <=> i \in E
      BY <1>0, <1>1, <1>2 DEF Unique
<1>9. ASSUME NEW i \in DOMAIN entries
      PROVE  \/ /\ entries[i].seq \in resent'
                /\ entries'[i].age = 0 /\ entries'[i].retransmitted = TRUE
             \/ entries[i].seq \notin resent' /\ entries'[i] = entries[i]
  <2>1. CASE i \in E
    <3>1. entries'[i] = renewed(entries[i]) /\ entries[i].seq \in resent'
          BY <1>6, <1>8, <2>1
    <3>2. entries[i] \in Entry
          BY <1>3
    <3>3. renewed(entries[i]).age = 0 /\ renewed(entries[i]).retransmitted = TRUE
          BY <1>4, <3>2
    <3>4. entries'[i].age = 0 /\ entries'[i].retransmitted = TRUE
          BY <3>1, <3>3, Zenon
    <3> QED
          BY <3>1, <3>4, Zenon
  <2>2. CASE i \notin E
        BY <1>6, <1>8, <2>2
  <2> QED
        BY <2>1, <2>2
<1>10. \A s \in resent' : \E e \in Entries : s = e.seq /\ e.age >= est.rto
       BY <1>1, <1>2 DEF Entries
<1>11. resent' \subseteq Seqs
       BY <1>10 DEF Seqs
<1> QED
    BY <1>1, <1>5, <1>7, <1>9, <1>10, <1>11

LEMMA ExpiredInv ==
    ASSUME Inv, expired_segments
    PROVE  Inv'
<1> USE RetransmitAssumption
<1>0. /\ entries \in Seq(Entry) /\ una \in SeqNum /\ nxt \in SeqNum /\ hist \in [SeqNum -> Hist]
      /\ est \in Est
      BY DEF Inv, Types
<1>1. /\ InPlace(entries, entries') /\ entries' = [i \in DOMAIN entries |-> entries'[i]]
      /\ \A i \in DOMAIN entries :
            \/ /\ entries[i].seq \in resent'
               /\ entries'[i].age = 0 /\ entries'[i].retransmitted = TRUE
            \/ entries[i].seq \notin resent' /\ entries'[i] = entries[i]
      /\ resent' \subseteq Seqs
      /\ est' = backed_off(est) /\ una' = una /\ nxt' = nxt
      /\ hist' = [s \in SeqNum |->
                     IF s \in resent' THEN [quiet |-> 0, waited |-> est.rto, again |-> TRUE]
                     ELSE hist[s]]
      BY ExpiredStep
<1>2. /\ entries' \in Seq(Entry) /\ Len(entries') <= RETRANSMIT_QUEUE_MAX
      /\ InFlight' /\ Seqs' = Seqs
      BY <1>1, InPlaceInv
<1>3. /\ est.rto \in MIN_RTO .. MAX_RTO /\ est' \in Est
      /\ est'.rto = min(2 * est.rto, MAX_RTO) /\ est'.rto >= est.rto
  <2>1. est.rto \in MIN_RTO .. MAX_RTO /\ est.srtt \in {None} \cup (0 .. MAX_RTO) /\ est.rttvar \in 0 .. MAX_RTO
        BY <1>0 DEF Est
  <2>2. est' = [rto |-> min(2 * est.rto, MAX_RTO), srtt |-> est.srtt, rttvar |-> est.rttvar]
        BY <1>0, <1>1 DEF backed_off, Est
  <2> DEFINE r == est.rto
  <2>3. r \in MIN_RTO .. MAX_RTO
        BY <2>1
  <2> HIDE DEF r
  <2>4. min(2 * r, MAX_RTO) \in MIN_RTO .. MAX_RTO /\ min(2 * r, MAX_RTO) >= r
        BY <2>3 DEF min
  <2> QED
        BY <2>1, <2>2, <2>4 DEF Est, r
<1> DEFINE fresh == [quiet |-> 0, waited |-> est.rto, again |-> TRUE]
<1>4. fresh \in Hist /\ fresh.waited = est.rto /\ fresh.quiet = 0 /\ fresh.again = TRUE
      BY <1>3 DEF Hist
<1>5. \A s \in SeqNum : hist'[s] = IF s \in resent' THEN fresh ELSE hist[s]
      BY <1>1
<1> HIDE DEF fresh
<1>6. hist' \in [SeqNum -> Hist]
      BY <1>0, <1>1, <1>4 DEF fresh
<1>7. Types'
      BY <1>0, <1>1, <1>2, <1>3, <1>6 DEF Types
<1>8. Recorded'
  <2>1. ASSUME NEW s \in SeqNum, s \notin Seqs' PROVE hist'[s] = unsent
    <3>1. s \notin Seqs /\ s \notin resent'
          BY <1>1, <1>2, <2>1
    <3> QED
          BY <1>5, <3>1 DEF Inv, Recorded
  <2>2. ASSUME NEW e \in Entries'
        PROVE  hist'[e.seq].again = e.retransmitted /\ hist'[e.seq].quiet = e.age
    <3>1. PICK i \in DOMAIN entries : e = entries'[i]
          BY <1>1 DEF Entries, InPlace
    <3>2. e.seq = entries[i].seq /\ entries[i] \in Entries /\ e.seq \in SeqNum
      <4>1. e.seq = entries[i].seq
            BY <1>1, <3>1 DEF InPlace
      <4>2. entries[i].seq \in SeqNum
            BY <1>0, QueueTypes
      <4> QED
            BY <4>1, <4>2 DEF Entries
    <3>3. CASE e.seq \in resent'
          BY <1>1, <1>4, <1>5, <3>1, <3>2, <3>3
    <3>4. CASE e.seq \notin resent'
      <4>1. e = entries[i] /\ hist'[e.seq] = hist[e.seq]
            BY <1>1, <1>5, <3>1, <3>2, <3>4
      <4> QED
            BY <3>2, <4>1 DEF Inv, Recorded
    <3> QED
          BY <3>3, <3>4
  <2> QED
        BY <2>1, <2>2 DEF Recorded
<1>9. Doubled'
  <2> SUFFICES ASSUME NEW s \in SeqNum PROVE est'.rto >= min(2 * hist'[s].waited, MAX_RTO)
      BY DEF Doubled
  <2>1. CASE s \in resent'
    <3>1. hist'[s].waited = est.rto
          BY <1>4, <1>5, <2>1
    <3>2. est'.rto \in Nat
          BY <1>3 DEF Est
    <3> QED
          BY <1>3, <3>1, <3>2
  <2>2. CASE s \notin resent'
    <3>1. hist'[s] = hist[s]
          BY <1>5, <2>2
    <3>2. est.rto >= min(2 * hist[s].waited, MAX_RTO)
          BY DEF Inv, Doubled
    <3>3. hist[s].waited \in 0 .. MAX_RTO
          BY <1>0 DEF Hist
    <3> DEFINE w == hist[s].waited
               r == est.rto
               x == est'.rto
    <3>4. w \in Nat /\ r \in Nat /\ x \in Nat /\ x >= r
          BY <1>3, <3>3 DEF Est
    <3> HIDE DEF w, r, x
    <3>5. r >= min(2 * w, MAX_RTO) => x >= min(2 * w, MAX_RTO)
          BY <3>4 DEF min
    <3> QED
          BY <3>1, <3>2, <3>5 DEF w, r, x
  <2> QED
        BY <2>1, <2>2
<1> QED
    BY <1>2, <1>7, <1>8, <1>9 DEF Inv

LEMMA TickInv ==
    ASSUME Inv, Tick
    PROVE  Inv'
<1> USE RetransmitAssumption
<1> DEFINE older(e) == [e EXCEPT !.age = min(@ + 1, MAX_RTO)]
           quieter(h) == [h EXCEPT !.quiet = min(@ + 1, MAX_RTO)]
<1>0. /\ entries \in Seq(Entry) /\ una \in SeqNum /\ nxt \in SeqNum /\ hist \in [SeqNum -> Hist]
      /\ est \in Est
      BY DEF Inv, Types
<1>1. /\ entries' = [i \in DOMAIN entries |-> older(entries[i])]
      /\ hist' = [s \in SeqNum |-> IF s \in Seqs THEN quieter(hist[s]) ELSE hist[s]]
      /\ est' = est /\ una' = una /\ nxt' = nxt
      BY DEF Tick
<1>2. ASSUME NEW e \in Entry
      PROVE  /\ older(e) \in Entry /\ older(e).seq = e.seq /\ older(e).retransmitted = e.retransmitted
             /\ older(e).age = min(e.age + 1, MAX_RTO)
      BY DEF Entry, min
<1>3. ASSUME NEW h \in Hist
      PROVE  /\ quieter(h) \in Hist /\ quieter(h).again = h.again /\ quieter(h).waited = h.waited
             /\ quieter(h).quiet = min(h.quiet + 1, MAX_RTO)
      BY DEF Hist, min
<1> HIDE DEF older, quieter
<1>4. \A i \in DOMAIN entries : entries[i] \in Entry /\ entries[i].seq \in SeqNum
      BY <1>0, QueueTypes
<1>5. InPlace(entries, entries') /\ entries' = [i \in DOMAIN entries |-> entries'[i]]
      BY <1>1, <1>2, <1>4 DEF InPlace
<1>6. /\ entries' \in Seq(Entry) /\ Len(entries') <= RETRANSMIT_QUEUE_MAX
      /\ InFlight' /\ Seqs' = Seqs
      BY <1>1, <1>5, InPlaceInv
<1>7. \A s \in SeqNum : hist[s] \in Hist /\ hist'[s] = IF s \in Seqs THEN quieter(hist[s]) ELSE hist[s]
      BY <1>0, <1>1
<1>8. hist' \in [SeqNum -> Hist]
      BY <1>1, <1>3, <1>7
<1>9. Types'
      BY <1>0, <1>1, <1>6, <1>8 DEF Types
<1>10. Recorded'
  <2>1. ASSUME NEW s \in SeqNum, s \notin Seqs' PROVE hist'[s] = unsent
        BY <1>6, <1>7, <2>1 DEF Inv, Recorded
  <2>2. ASSUME NEW e \in Entries'
        PROVE  hist'[e.seq].again = e.retransmitted /\ hist'[e.seq].quiet = e.age
    <3>1. PICK i \in DOMAIN entries : e = entries'[i]
          BY <1>5 DEF Entries, InPlace
    <3> DEFINE f == entries[i]
    <3>2. f \in Entry /\ f \in Entries /\ e = older(f) /\ f.seq \in SeqNum
          BY <1>1, <1>4, <3>1 DEF Entries
    <3> HIDE DEF f
    <3>3. e.seq = f.seq /\ e.retransmitted = f.retransmitted /\ e.age = min(f.age + 1, MAX_RTO)
          BY <1>2, <3>2
    <3>4. f.seq \in Seqs
          BY <3>2 DEF Seqs
    <3>5. hist[f.seq].again = f.retransmitted /\ hist[f.seq].quiet = f.age
          BY <3>2 DEF Inv, Recorded
    <3> QED
          BY <1>3, <1>7, <3>2, <3>3, <3>4, <3>5
  <2> QED
        BY <2>1, <2>2 DEF Recorded
<1>11. Doubled'
  <2>1. \A s \in SeqNum : hist'[s].waited = hist[s].waited
        BY <1>3, <1>7
  <2> QED
        BY <1>1, <2>1 DEF Inv, Doubled
<1> QED
    BY <1>6, <1>9, <1>10, <1>11 DEF Inv

LEMMA StepInv == Inv /\ [Next]_vars => Inv'
<1> SUFFICES ASSUME Inv, [Next]_vars PROVE Inv'
    OBVIOUS
<1>1. CASE UNCHANGED vars
      BY <1>1 DEF vars, Inv, Types, InFlight, Recorded, Doubled, Entries, Seqs
<1>2. CASE push
      BY <1>2, PushInv
<1>3. CASE \E ack \in SeqNum : acknowledge_and_sample_rtt(ack)
      BY <1>3, AckInv
<1>4. CASE expired_segments
      BY <1>4, ExpiredInv
<1>5. CASE Tick
      BY <1>5, TickInv
<1> QED
    BY <1>1, <1>2, <1>3, <1>4, <1>5 DEF Next

\* The queue holds each segment in flight at most once, and what an entry says
\* of its segment is true (retransmit.rs: push, acknowledge_and_sample_rtt,
\* expired_segments).
THEOREM QueueInvariant == Spec => []Inv
BY InitInv, StepInv, PTL DEF Spec
-----------------------------------------------------------------------------
(* What follows from it.                                                   *)

\* The timeout keeps its limits through any samples and backoff, and the queue
\* its capacity.
THEOREM QueueTypeCorrect == Spec => []TypeOK
<1>1. Inv => TypeOK
  <2> SUFFICES ASSUME Inv PROVE TypeOK
      OBVIOUS
  <2>1. Entries \subseteq Entry
        BY QueueTypes, EntriesAre DEF Inv, Types
  <2>2. est.rto \in MIN_RTO .. MAX_RTO /\ est.srtt \in {None} \cup (0 .. MAX_RTO) /\ est.rttvar \in 0 .. MAX_RTO
        BY DEF Inv, Types, Est
  <2> QED
        BY <2>1, <2>2 DEF Inv, Types, TypeOK
<1> QED
    BY <1>1, QueueInvariant, PTL

\* The body of Karn.
Unresent == \A s \in sampled' : ~ hist[s].again

LEMMA StepKarn ==
    ASSUME Inv, Next
    PROVE  Unresent
<1>1. CASE push
      BY <1>1 DEF push, Unresent
<1>2. CASE \E ack \in SeqNum : acknowledge_and_sample_rtt(ack)
  <2>1. PICK ack \in SeqNum : acknowledge_and_sample_rtt(ack)
        BY <1>2
  <2> DEFINE gone == acked_by(ack)
  <2>2. gone = acked_by(ack)
        OBVIOUS
  <2> HIDE DEF gone
  <2>3. gone \subseteq Entries /\ sampled' = {e.seq : e \in {f \in gone : unambiguous(f)}}
        BY <2>1, <2>2, AckStep
  <2>4. \A e \in gone : unambiguous(e) => ~ hist[e.seq].again
        BY <2>3 DEF Inv, Recorded, unambiguous
  <2> QED
        BY <2>3, <2>4 DEF Unresent
<1>3. CASE expired_segments
      BY <1>3 DEF expired_segments, Unresent
<1>4. CASE Tick
      BY <1>4 DEF Tick, Unresent
<1> QED
    BY <1>1, <1>2, <1>3, <1>4 DEF Next

\* No round-trip time is ever sampled from a segment that the timer has sent
\* again, however its retransmissions and other acknowledgements interleave.
THEOREM KarnsRule == Spec => Karn
<1>1. Inv /\ [Next]_vars => [Unresent]_vars
      BY StepKarn
<1> QED
    BY <1>1, QueueInvariant, PTL DEF Spec, Karn, Unresent

\* The body of BackedOff.
LongEnough ==
    \A s \in resent' :
        /\ hist[s].quiet >= MIN_RTO
        /\ hist[s].quiet >= min(2 * hist[s].waited, MAX_RTO)

LEMMA StepBackedOff ==
    ASSUME Inv, Next
    PROVE  LongEnough
<1>1. CASE push
      BY <1>1 DEF push, LongEnough
<1>2. CASE \E ack \in SeqNum : acknowledge_and_sample_rtt(ack)
      BY <1>2 DEF acknowledge_and_sample_rtt, LongEnough
<1>3. CASE expired_segments
  <2> SUFFICES ASSUME NEW s \in resent'
               PROVE  /\ hist[s].quiet >= MIN_RTO
                      /\ hist[s].quiet >= min(2 * hist[s].waited, MAX_RTO)
      BY DEF LongEnough
  <2>1. PICK e \in Entries : s = e.seq /\ e.age >= est.rto
        BY <1>3, ExpiredStep
  <2>2. hist[s].quiet = e.age
        BY <2>1 DEF Inv, Recorded
  <2>3. e.age \in 0 .. MAX_RTO /\ s \in SeqNum
    <3>1. Entries \subseteq Entry
          BY QueueTypes, EntriesAre DEF Inv, Types
    <3> QED
          BY <2>1, <3>1 DEF Entry
  <2>4. est.rto \in MIN_RTO .. MAX_RTO /\ est.rto >= min(2 * hist[s].waited, MAX_RTO)
        /\ hist[s].waited \in 0 .. MAX_RTO
        BY <2>3 DEF Inv, Types, Est, Hist, Doubled
  <2> DEFINE a == e.age
             r == est.rto
             w == hist[s].waited
  <2>5. a \in Nat /\ r \in Nat /\ w \in Nat /\ a >= r /\ r >= MIN_RTO /\ r >= min(2 * w, MAX_RTO)
        BY <2>1, <2>3, <2>4, RetransmitAssumption
  <2> HIDE DEF a, r, w
  <2>6. a >= MIN_RTO /\ a >= min(2 * w, MAX_RTO)
        BY <2>5, RetransmitAssumption DEF min
  <2> QED
        BY <2>2, <2>6 DEF a, w
<1>4. CASE Tick
      BY <1>4 DEF Tick, LongEnough
<1> QED
    BY <1>1, <1>2, <1>3, <1>4 DEF Next

\* The timer sends a segment again only after the minimum timeout and, as long
\* as no sample comes in, after twice what it last waited for it.
THEOREM BacksOff == Spec => BackedOff
<1>1. Inv /\ [Next]_vars => [LongEnough]_vars
      BY StepBackedOff
<1> QED
    BY <1>1, QueueInvariant, PTL DEF Spec, BackedOff, LongEnough
=============================================================================
