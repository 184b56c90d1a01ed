--------------------------- MODULE EventLoopProofs ---------------------------
(***************************************************************************)
(* Proofs about EventLoop, for every set of packets, capacity of the       *)
(* outbound channel, jitter and number of packets held.                    *)
(*                                                                         *)
(* The invariant is that a packet is in one place at a time: once in the   *)
(* channel, or once in the middleware, never both.                         *)
(***************************************************************************)
EXTENDS EventLoop, Induction, SequenceTheorems

Entry(c) == [packet : Packet, left : 0 .. c.max_jitter]

\* The packets of a pending queue.
PacketsOf(p) == {p[i].packet : i \in DOMAIN p}

\* Each packet is pending once.
Apart(p) == \A i, j \in DOMAIN p : p[i].packet = p[j].packet => i = j

Distinct(s) == \A i, j \in DOMAIN s : s[i] = s[j] => i = j

Types ==
    /\ config \in Config /\ capturing \in BOOLEAN /\ running \in BOOLEAN
    /\ queue \in Seq(Packet) /\ Len(queue) <= OUT
    /\ pending \in Seq(Entry(config))
    /\ captured \subseteq Packet
    /\ written \in Seq(Packet \cup {ArpReply})

OnePlace ==
    /\ Distinct(queue)
    /\ Apart(pending)
    /\ Range(queue) \cap PacketsOf(pending) = {}

Inv == Types /\ OnePlace /\ CaptureFirst
-----------------------------------------------------------------------------
(* Select and the operations of the middleware.                            *)

\* Selecting neither repeats elements nor makes any up.
LEMMA SelectKeeps ==
    ASSUME NEW A, NEW s \in Seq(A), NEW K
    PROVE  /\ Select(s, K) \in Seq(A)
           /\ Range(Select(s, K)) \subseteq Range(s) \cap K
           /\ Distinct(s) => Distinct(Select(s, K))
           /\ Range(s) \cap K = {} => Select(s, K) = <<>>
<1> DEFINE t == Select(s, K)
<1>1. t \in Seq(A)
      BY SelectProperties
<1>2. PICK m : Selects(s, K, Len(s), t, m)
      BY SelectProperties
<1> HIDE DEF t
<1>3. /\ DOMAIN s = 1 .. Len(s) /\ DOMAIN t = 1 .. Len(t) /\ Len(s) \in Nat /\ Len(t) \in Nat
      BY <1>1
<1>4. \A j \in 1 .. Len(t) : m[j] \in 1 .. Len(s) /\ t[j] = s[m[j]] /\ s[m[j]] \in K
      BY <1>2 DEF Selects
<1>5. Range(t) \subseteq Range(s) \cap K
      BY <1>3, <1>4 DEF Range
<1>6. ASSUME Distinct(s), NEW i \in DOMAIN t, NEW j \in DOMAIN t, t[i] = t[j]
      PROVE  i = j
  <2>1. m[i] = m[j]
        BY <1>3, <1>4, <1>6 DEF Distinct
  <2>2. m[i] \in Int /\ (i < j => m[i] < m[j]) /\ (j < i => m[j] < m[i])
        BY <1>2, <1>3, <1>4 DEF Selects
  <2> QED
        BY <1>3, <2>1, <2>2
<1>7. ASSUME Range(s) \cap K = {} PROVE t = <<>>
  <2>1. ASSUME Len(t) # 0 PROVE FALSE
    <3>1. 1 \in DOMAIN t
          BY <1>3, <2>1
    <3>2. t[1] \in Range(t)
          BY <3>1 DEF Range
    <3> QED
          BY <1>5, <1>7, <3>2
  <2> QED
        BY <1>1, <2>1
<1> QED
    BY <1>1, <1>5, <1>6, <1>7 DEF t, Distinct

\* What a pending queue holds.
LEMMA EntryTypes ==
    ASSUME NEW c \in Config, NEW p \in Seq(Entry(c))
    PROVE  /\ Len(p) \in Nat /\ DOMAIN p = 1 .. Len(p)
           /\ \A i \in 1 .. Len(p) : /\ p[i] \in Entry(c) /\ p[i].packet \in Packet
                                     /\ p[i].left \in 0 .. c.max_jitter /\ p[i].left \in Nat
<1>1. Len(p) \in Nat /\ DOMAIN p = 1 .. Len(p) /\ \A i \in 1 .. Len(p) : p[i] \in Entry(c)
      OBVIOUS
<1>2. c.max_jitter \in Nat
      BY EventLoopAssumption DEF Config
<1>3. \A e \in Entry(c) : e.packet \in Packet /\ e.left \in 0 .. c.max_jitter /\ e.left \in Nat
      BY <1>2 DEF Entry
<1> QED
    BY <1>1, <1>3

\* flush_ready takes a prefix, all of it due, and leaves the rest.
LEMMA ReadyPrefix ==
    ASSUME NEW c \in Config, NEW p \in Seq(Entry(c))
    PROVE  /\ ready(p) \in 0 .. Len(p)
           /\ \A i \in 1 .. ready(p) : p[i].left = 0
<1> DEFINE l == Len(p)
           T == {i \in 1 .. l : p[i].left > 0}
           OK(n) == (\A i \in 1 .. n : p[i].left = 0) /\ (n = l \/ p[n + 1].left > 0)
<1>1. l \in Nat /\ \A i \in 1 .. l : p[i].left \in Nat
      BY EntryTypes
<1>2. CASE T = {}
  <2>1. OK(l)
        BY <1>1, <1>2
  <2> QED
        BY <1>1, <2>1 DEF ready
<1>3. CASE T # {}
  <2>1. T \in SUBSET Nat
        BY <1>1
  <2>2. PICK m \in T : \A k \in T : m <= k
    <3> HIDE DEF T
    <3> QED
        BY <1>3, <2>1, LeastNat
  <2>3. m - 1 \in 0 .. l /\ OK(m - 1)
        BY <1>1, <2>2
  <2> QED
        BY <1>1, <2>3 DEF ready
<1> QED
    BY <1>2, <1>3

\* What intercept gives back for a packet that is not pending: every packet goes
\* out at most once, none before its time, and what goes out is not kept.
Intercepted(c, p, x, r) ==
    /\ r.out \in Seq(Packet)
    /\ r.pending \in Seq(Entry(c))
    /\ Distinct(r.out)
    /\ Apart(r.pending)
    /\ Range(r.out) \subseteq PacketsOf(p) \cup {x}
    /\ PacketsOf(r.pending) \subseteq PacketsOf(p) \cup {x}
    /\ Range(r.out) \cap PacketsOf(r.pending) = {}
    /\ \A i \in DOMAIN p : p[i].left > 0 => p[i].packet \notin Range(r.out)

\* flush_ready alone.
LEMMA FlushReady ==
    ASSUME NEW c \in Config, NEW p \in Seq(Entry(c)), Apart(p)
    PROVE  LET r == flush_ready(p) IN
           /\ r.out \in Seq(Packet)
           /\ r.pending \in Seq(Entry(c))
           /\ Distinct(r.out)
           /\ Apart(r.pending)
           /\ Range(r.out) \subseteq PacketsOf(p)
           /\ PacketsOf(r.pending) \subseteq PacketsOf(p)
           /\ Range(r.out) \cap PacketsOf(r.pending) = {}
           /\ \A i \in DOMAIN p : p[i].left > 0 => p[i].packet \notin Range(r.out)
<1> DEFINE n == ready(p)
           l == Len(p)
           out == [i \in 1 .. n |-> p[i].packet]
           rest == SubSeq(p, n + 1, l)
<1>1. n \in 0 .. l /\ l \in Nat /\ \A i \in 1 .. n : p[i].left = 0
      BY ReadyPrefix
<1>2. DOMAIN p = 1 .. l /\ \A i \in 1 .. l : p[i] \in Entry(c) /\ p[i].packet \in Packet
      BY EntryTypes
<1>3. flush_ready(p).out = out /\ flush_ready(p).pending = rest
      BY DEF flush_ready
<1>4. DOMAIN out = 1 .. n /\ \A i \in 1 .. n : out[i] = p[i].packet
      OBVIOUS
<1> HIDE DEF n
<1>5. out \in Seq(Packet)
  <2>1. out \in [1 .. n -> Packet] /\ n \in Nat
        BY <1>1, <1>2
  <2> HIDE DEF out
  <2> QED
        BY <2>1, SeqDef
<1>6. /\ rest \in Seq(Entry(c)) /\ Len(rest) = l - n
      /\ \A i \in 1 .. (l - n) : rest[i] = p[n + i]
  <2> DEFINE m == n + 1
  <2>1. m \in Int /\ l \in Int /\ m <= l + 1 /\ m >= 1
        BY <1>1
  <2> HIDE DEF m, l
  <2>2. ASSUME NEW i \in m .. l PROVE p[i] \in Entry(c)
    <3>1. i \in 1 .. l
          BY <2>1
    <3> QED
          BY <1>2, <3>1
  <2>3. /\ SubSeq(p, m, l) \in Seq(Entry(c))
        /\ Len(SubSeq(p, m, l)) = IF m <= l THEN l - m + 1 ELSE 0
        /\ \A i \in 1 .. (l - m + 1) : SubSeq(p, m, l)[i] = p[m + i - 1]
        BY <2>1, <2>2, SubSeqProperties
  <2>4. (IF m <= l THEN l - m + 1 ELSE 0) = l - n /\ l - m + 1 = l - n
        BY <1>1, <2>1 DEF m
  <2>5. ASSUME NEW i \in 1 .. (l - n) PROVE SubSeq(p, m, l)[i] = p[n + i]
    <3>1. m + i - 1 = n + i
          BY <1>1, <2>1 DEF m
    <3> QED
          BY <2>3, <2>4, <3>1
  <2> QED
        BY <2>3, <2>4, <2>5 DEF m
<1> HIDE DEF out, rest, l
<1>7. DOMAIN rest = 1 .. (l - n)
      BY <1>6
<1>8. \A i \in 1 .. (l - n) : n + i \in 1 .. l /\ rest[i] = p[n + i]
      BY <1>1, <1>6
<1>9. \A i \in 1 .. n : i \in 1 .. l
      BY <1>1
<1>10. Distinct(out)
       BY <1>2, <1>4, <1>9 DEF Distinct, Apart
<1>11. Apart(rest)
  <2> SUFFICES ASSUME NEW i \in 1 .. (l - n), NEW j \in 1 .. (l - n), rest[i].packet = rest[j].packet
               PROVE  i = j
      BY <1>7 DEF Apart
  <2>1. n + i = n + j
        BY <1>2, <1>8 DEF Apart
  <2> QED
        BY <1>1, <2>1
<1>12. Range(out) \subseteq PacketsOf(p)
       BY <1>2, <1>4, <1>9 DEF Range, PacketsOf
<1>13. PacketsOf(rest) \subseteq PacketsOf(p)
       BY <1>2, <1>7, <1>8 DEF PacketsOf
<1>14. ASSUME NEW i \in 1 .. n, NEW j \in 1 .. (l - n), out[i] = rest[j].packet PROVE FALSE
  <2>1. i = n + j
        BY <1>2, <1>4, <1>8, <1>9, <1>14 DEF Apart
  <2> QED
        BY <1>1, <2>1
<1>15. Range(out) \cap PacketsOf(rest) = {}
       BY <1>4, <1>7, <1>14 DEF Range, PacketsOf
<1>16. ASSUME NEW i \in DOMAIN p, p[i].left > 0, p[i].packet \in Range(out) PROVE FALSE
  <2>1. PICK j \in 1 .. n : p[i].packet = p[j].packet
        BY <1>4, <1>16 DEF Range
  <2>2. i = j
        BY <1>2, <1>9, <2>1 DEF Apart
  <2> QED
        BY <1>1, <1>16, <2>2
<1> QED
    BY <1>3, <1>5, <1>6, <1>10, <1>11, <1>12, <1>13, <1>15, <1>16
\* The pending queue q is p with packet x behind it.
Joined(c, p, x, q) ==
    /\ q \in Seq(Entry(c)) /\ Apart(q)
    /\ PacketsOf(q) \subseteq PacketsOf(p) \cup {x}
    /\ \A i \in DOMAIN p : i \in DOMAIN q /\ q[i] = p[i]

\* A packet appended to a pending queue that does not hold it.
LEMMA AppendEntry ==
    ASSUME NEW c \in Config, NEW p \in Seq(Entry(c)), Apart(p),
           NEW e \in Entry(c), NEW x, x = e.packet, x \notin PacketsOf(p), NEW q, q = Append(p, e)
    PROVE  Joined(c, p, x, q)
<1> DEFINE l == Len(p)
<1>2. l \in Nat /\ DOMAIN p = 1 .. l
      BY EntryTypes
<1>3. /\ q \in Seq(Entry(c)) /\ DOMAIN q = 1 .. (l + 1)
      /\ q[l + 1] = e /\ \A i \in 1 .. l : q[i] = p[i]
      BY <1>2
<1> HIDE DEF l
<1>4. \A i \in 1 .. (l + 1) : i \in 1 .. l \/ i = l + 1
      BY <1>2
<1>5. \A i \in 1 .. l : p[i].packet # x /\ i \in 1 .. (l + 1)
      BY <1>2 DEF PacketsOf
<1>6. PacketsOf(q) \subseteq PacketsOf(p) \cup {x}
      BY <1>2, <1>3, <1>4 DEF PacketsOf
<1>7. ASSUME NEW i \in 1 .. (l + 1), NEW j \in 1 .. (l + 1), q[i].packet = q[j].packet
      PROVE  i = j
  <2>1. CASE i \in 1 .. l /\ j \in 1 .. l
        BY <1>2, <1>3, <1>7, <2>1 DEF Apart
  <2>2. CASE i = l + 1 \/ j = l + 1
        BY <1>3, <1>4, <1>5, <1>7, <2>2
  <2> QED
        BY <1>4, <2>1, <2>2
<1> QED
    BY <1>2, <1>3, <1>5, <1>6, <1>7 DEF Apart, Joined

\* intercept, whatever the random numbers.
LEMMA InterceptOnce ==
    ASSUME NEW c \in Config, NEW p \in Seq(Entry(c)), Apart(p),
           NEW x \in Packet \ PacketsOf(p), NEW d \in 0 .. c.max_jitter, NEW o \in BOOLEAN
    PROVE  Intercepted(c, p, x, intercept(p, x, d, o))
<1>1. CASE d > 0 \/ o
  <2> DEFINE e == [packet |-> x, left |-> d]
             q == Append(p, e)
             r == flush_ready(q)
  <2>1. intercept(p, x, d, o) = r
        BY <1>1 DEF intercept, hold
  <2>0. e \in Entry(c) /\ x = e.packet /\ q = Append(p, e)
        BY DEF Entry
  <2> HIDE DEF q, e
  <2>2. Joined(c, p, x, q)
        BY <2>0, AppendEntry
  <2>3. /\ r.out \in Seq(Packet)
        /\ r.pending \in Seq(Entry(c))
        /\ Distinct(r.out)
        /\ Apart(r.pending)
        /\ Range(r.out) \subseteq PacketsOf(q)
        /\ PacketsOf(r.pending) \subseteq PacketsOf(q)
        /\ Range(r.out) \cap PacketsOf(r.pending) = {}
        /\ \A i \in DOMAIN q : q[i].left > 0 => q[i].packet \notin Range(r.out)
        BY <2>2, FlushReady DEF Joined
  <2> HIDE DEF r
  <2> QED
        BY <2>1, <2>2, <2>3 DEF Intercepted, Joined
<1>2. CASE ~ (d > 0 \/ o)
  <2> DEFINE f == flush_ready(p)
             r == intercept(p, x, d, o)
             out == Append(f.out, x)
             n == Len(f.out)
  <2>1. r.out = out /\ r.pending = f.pending
        BY <1>2 DEF intercept, pass
  <2>2. /\ f.out \in Seq(Packet)
        /\ f.pending \in Seq(Entry(c))
        /\ Distinct(f.out)
        /\ Apart(f.pending)
        /\ Range(f.out) \subseteq PacketsOf(p)
        /\ PacketsOf(f.pending) \subseteq PacketsOf(p)
        /\ Range(f.out) \cap PacketsOf(f.pending) = {}
        /\ \A i \in DOMAIN p : p[i].left > 0 => p[i].packet \notin Range(f.out)
        BY FlushReady
  <2> HIDE DEF f
  <2>3. /\ out \in Seq(Packet) /\ DOMAIN out = 1 .. (n + 1) /\ DOMAIN f.out = 1 .. n
        /\ n \in Nat /\ out[n + 1] = x /\ \A i \in 1 .. n : out[i] = f.out[i]
        BY <2>2
  <2> HIDE DEF r, out, n
  <2>4. \A i \in 1 .. (n + 1) : i \in 1 .. n \/ i = n + 1
        BY <2>3
  <2>5. Range(out) \subseteq Range(f.out) \cup {x}
        BY <2>3, <2>4 DEF Range
  <2>6. ASSUME NEW i \in 1 .. (n + 1), NEW j \in 1 .. (n + 1), out[i] = out[j]
        PROVE  i = j
    <3>1. \A k \in 1 .. n : f.out[k] # x
          BY <2>2, <2>3 DEF Range
    <3>2. CASE i \in 1 .. n /\ j \in 1 .. n
          BY <2>2, <2>3, <2>6, <3>2 DEF Distinct
    <3>3. CASE i = n + 1 \/ j = n + 1
          BY <2>3, <2>4, <2>6, <3>1, <3>3
    <3> QED
          BY <2>4, <3>2, <3>3
  <2>7. \A i \in DOMAIN p : p[i].packet # x
        BY DEF PacketsOf
  <2>8. Distinct(out)
        BY <2>3, <2>6 DEF Distinct
  <2>9. Range(out) \cap PacketsOf(f.pending) = {}
        BY <2>2, <2>5
  <2>10. \A i \in DOMAIN p : p[i].left > 0 => p[i].packet \notin Range(out)
        BY <2>2, <2>5, <2>7
  <2> QED
        BY <2>1, <2>2, <2>3, <2>5, <2>8, <2>9, <2>10 DEF Intercepted, r
<1> QED
    BY <1>1, <1>2
-----------------------------------------------------------------------------
(* The invariant.                                                          *)

\* Held and the types of the parts, in the form the steps below need.
LEMMA HeldIs == Held = PacketsOf(pending)
BY DEF Held, PacketsOf

\* A packet is taken from the front of the channel.
LEMMA TakeHead ==
    ASSUME NEW q \in Seq(Packet), q # <<>>, Len(q) <= OUT, Distinct(q)
    PROVE  /\ Head(q) \in Packet /\ Head(q) \in Range(q)
           /\ Tail(q) \in Seq(Packet) /\ Len(Tail(q)) <= OUT /\ Distinct(Tail(q))
           /\ Range(Tail(q)) \subseteq Range(q) \ {Head(q)}
<1> DEFINE t == Tail(q)
           n == Len(q)
<1>1. /\ n \in Nat /\ n >= 1 /\ DOMAIN q = 1 .. n /\ \A i \in 1 .. n : q[i] \in Packet
      OBVIOUS
<1>2. /\ t \in Seq(Packet) /\ Len(t) = n - 1 /\ DOMAIN t = 1 .. (n - 1)
      /\ \A i \in 1 .. (n - 1) : t[i] = q[i + 1]
      BY <1>1
<1>3. Head(q) = q[1] /\ 1 \in 1 .. n
      BY <1>1
<1> HIDE DEF t, n
<1>4. \A i \in 1 .. (n - 1) : i + 1 \in 1 .. n /\ i + 1 # 1
      BY <1>1
<1>5. Range(t) \subseteq Range(q) \ {q[1]}
      BY <1>1, <1>2, <1>3, <1>4 DEF Range, Distinct
<1>6. Distinct(t)
  <2> SUFFICES ASSUME NEW i \in 1 .. (n - 1), NEW j \in 1 .. (n - 1), t[i] = t[j]
               PROVE  i = j
      BY <1>2 DEF Distinct
  <2>1. i + 1 = j + 1
        BY <1>1, <1>2, <1>4 DEF Distinct
  <2> QED
        BY <1>1, <2>1
<1>7. Len(t) <= OUT
      BY <1>1, <1>2, EventLoopAssumption DEF n
<1> QED
    BY <1>1, <1>2, <1>3, <1>5, <1>6, <1>7 DEF t, Range

\* A packet is put at the end of the channel.
LEMMA PutLast ==
    ASSUME NEW q \in Seq(Packet), Len(q) < OUT, Distinct(q), NEW x \in Packet \ Range(q)
    PROVE  /\ Append(q, x) \in Seq(Packet) /\ Len(Append(q, x)) <= OUT
           /\ Distinct(Append(q, x)) /\ Range(Append(q, x)) = Range(q) \cup {x}
<1> DEFINE t == Append(q, x)
           n == Len(q)
<1>1. /\ n \in Nat /\ DOMAIN q = 1 .. n
      /\ t \in Seq(Packet) /\ Len(t) = n + 1 /\ DOMAIN t = 1 .. (n + 1)
      /\ t[n + 1] = x /\ \A i \in 1 .. n : t[i] = q[i]
      OBVIOUS
<1>2. n + 1 <= OUT
      BY <1>1, EventLoopAssumption
<1> HIDE DEF t, n
<1>3. \A i \in 1 .. (n + 1) : i \in 1 .. n \/ i = n + 1
      BY <1>1
<1>4. \A i \in 1 .. n : q[i] # x
      BY <1>1 DEF Range
<1>5. Range(t) = Range(q) \cup {x}
  <2>1. Range(t) \subseteq Range(q) \cup {x}
        BY <1>1, <1>3 DEF Range
  <2>2. n + 1 \in 1 .. (n + 1) /\ \A i \in 1 .. n : i \in 1 .. (n + 1)
        BY <1>1
  <2>3. Range(q) \cup {x} \subseteq Range(t)
        BY <1>1, <2>2 DEF Range
  <2> QED
        BY <2>1, <2>3
<1>6. ASSUME NEW i \in 1 .. (n + 1), NEW j \in 1 .. (n + 1), t[i] = t[j]
      PROVE  i = j
  <2>1. CASE i \in 1 .. n /\ j \in 1 .. n
        BY <1>1, <1>6, <2>1 DEF Distinct
  <2>2. CASE i = n + 1 \/ j = n + 1
        BY <1>1, <1>3, <1>4, <1>6, <2>2
  <2> QED
        BY <1>3, <2>1, <2>2
<1> QED
    BY <1>1, <1>2, <1>5, <1>6 DEF Distinct, t
\* What goes to the device is of what was to be written.
LEMMA WriteKeeps ==
    ASSUME NEW out \in Seq(Packet \cup {ArpReply}), Write(out)
    PROVE  /\ written' \in Seq(Packet \cup {ArpReply})
           /\ Range(written') \subseteq Range(out)
           /\ Distinct(out) => Distinct(written')
<1>1. PICK ok \in SUBSET Range(out) : written' = Select(out, ok)
      BY DEF Write
<1> QED
    BY <1>1, SelectKeeps

\* Nothing is written.
LEMMA NothingWritten ==
    ASSUME written' = <<>>
    PROVE  written' \in Seq(Packet \cup {ArpReply}) /\ Range(written') = {}
BY DEF Range

LEMMA InitInv == Init => Inv
<1> SUFFICES ASSUME Init PROVE Inv
    OBVIOUS
<1>1. queue = <<>> /\ pending = <<>> /\ captured = {} /\ written = <<>>
      BY DEF Init
<1>2. Types
      BY <1>1, EventLoopAssumption DEF Init, Types
<1>3. OnePlace
      BY <1>1 DEF OnePlace, Distinct, Apart, Range
<1>4. CaptureFirst
      BY <1>1 DEF CaptureFirst, Held, Range
<1> QED
    BY <1>2, <1>3, <1>4 DEF Inv

LEMMA TaskSendInv ==
    ASSUME Inv, NEW p \in Packet, TaskSend(p)
    PROVE  Inv'
<1>1. /\ p \notin Range(queue) /\ p \notin PacketsOf(pending) /\ Len(queue) < OUT
      /\ queue' = Append(queue, p) /\ captured' = captured \ {p} /\ written' = <<>>
      /\ UNCHANGED <<config, capturing, pending, running>>
      BY HeldIs DEF TaskSend
<1>2. queue \in Seq(Packet) /\ Distinct(queue)
      BY DEF Inv, Types, OnePlace
<1>3. /\ queue' \in Seq(Packet) /\ Len(queue') <= OUT
      /\ Distinct(queue') /\ Range(queue') \subseteq Range(queue) \cup {p}
      BY <1>1, <1>2, PutLast
<1>4. written' \in Seq(Packet \cup {ArpReply}) /\ Range(written') = {}
      BY <1>1, NothingWritten
<1>5. Types'
      BY <1>1, <1>3, <1>4 DEF Inv, Types
<1>6. OnePlace'
      BY <1>1, <1>3 DEF Inv, OnePlace
<1>7. CaptureFirst'
  <2>1. Held' = PacketsOf(pending) /\ p \notin Held'
        BY <1>1 DEF Held, PacketsOf
  <2> QED
        BY <1>1, <1>4, <2>1, HeldIs DEF Inv, CaptureFirst
<1> QED
    BY <1>5, <1>6, <1>7 DEF Inv

LEMMA DroppedInv ==
    ASSUME Inv, OutboundDropped
    PROVE  Inv'
<1>1. /\ queue # <<>> /\ queue' = Tail(queue) /\ captured' = capture(Head(queue), <<>>)
      /\ written' = <<>> /\ UNCHANGED <<config, capturing, pending, running>>
      BY DEF OutboundDropped
<1>2. queue \in Seq(Packet) /\ Distinct(queue) /\ Len(queue) <= OUT
      BY DEF Inv, Types, OnePlace
<1>3. /\ Head(queue) \in Packet
      /\ queue' \in Seq(Packet) /\ Len(queue') <= OUT /\ Distinct(queue')
      /\ Range(queue') \subseteq Range(queue)
      BY <1>1, <1>2, TakeHead
<1>4. written' \in Seq(Packet \cup {ArpReply}) /\ Range(written') = {}
      BY <1>1, NothingWritten
<1>5. captured \subseteq captured' /\ captured' \subseteq Packet
      BY <1>1, <1>3 DEF capture, Inv, Types
<1>6. Types'
      BY <1>1, <1>3, <1>4, <1>5 DEF Inv, Types
<1>7. OnePlace'
      BY <1>1, <1>3 DEF Inv, OnePlace
<1>8. CaptureFirst'
  <2>1. Held' = Held
        BY <1>1 DEF Held
  <2> QED
        BY <1>1, <1>4, <1>5, <2>1 DEF Inv, CaptureFirst
<1> QED
    BY <1>6, <1>7, <1>8 DEF Inv

\* What OutboundKept does, of which the invariant, the refinement and NotEarly
\* each need a part.
LEMMA KeptStep ==
    ASSUME Inv, NEW d \in 0 .. MaxJitter, NEW o \in BOOLEAN, OutboundKept(d, o)
    PROVE  /\ Head(queue) \in Packet \ PacketsOf(pending)
           /\ queue' \in Seq(Packet) /\ Len(queue') <= OUT /\ Distinct(queue')
           /\ Range(queue') \subseteq Range(queue) \ {Head(queue)}
           /\ captured' = IF capturing THEN captured \cup {Head(queue)} ELSE captured
           /\ written' \in Seq(Packet \cup {ArpReply}) /\ Distinct(written')
           /\ Range(written') \subseteq (PacketsOf(pending) \cup {Head(queue)}) \ PacketsOf(pending')
           /\ pending' \in Seq(Entry(config)) /\ Apart(pending')
           /\ PacketsOf(pending') \subseteq PacketsOf(pending) \cup {Head(queue)}
           /\ \A i \in DOMAIN pending : pending[i].left > 0 => pending[i].packet \notin Range(written')
<1> DEFINE x == Head(queue)
           r == intercept(pending, x, d, o)
<1>1. /\ queue # <<>> /\ queue' = Tail(queue) /\ pending' = r.pending
      /\ captured' = capture(x, r.out) /\ Write(r.out) /\ d \in 0 .. config.max_jitter
      BY DEF OutboundKept, delays
<1>2. /\ queue \in Seq(Packet) /\ Distinct(queue) /\ Len(queue) <= OUT
      /\ config \in Config /\ pending \in Seq(Entry(config)) /\ Apart(pending)
      /\ Range(queue) \cap PacketsOf(pending) = {}
      BY DEF Inv, Types, OnePlace
<1>3. /\ x \in Packet /\ x \in Range(queue)
      /\ queue' \in Seq(Packet) /\ Len(queue') <= OUT /\ Distinct(queue')
      /\ Range(queue') \subseteq Range(queue) \ {x}
      BY <1>1, <1>2, TakeHead
<1>4. x \in Packet \ PacketsOf(pending)
      BY <1>2, <1>3
<1> HIDE DEF x
<1>5. Intercepted(config, pending, x, r)
      BY <1>1, <1>2, <1>4, InterceptOnce
<1> HIDE DEF r
<1>6. r.out \in Seq(Packet) /\ r.out \in Seq(Packet \cup {ArpReply})
  <2>1. r.out \in Seq(Packet)
        BY <1>5 DEF Intercepted
  <2> DEFINE w == r.out
  <2> HIDE DEF w
  <2>2. w \in Seq(Packet) => w \in Seq(Packet \cup {ArpReply})
        OBVIOUS
  <2> QED
        BY <2>1, <2>2 DEF w
<1>7. written' \in Seq(Packet \cup {ArpReply}) /\ Range(written') \subseteq Range(r.out)
      /\ Distinct(written')
      BY <1>1, <1>5, <1>6, WriteKeeps DEF Intercepted
<1>8. captured' = IF capturing THEN captured \cup {x} ELSE captured
      BY <1>1 DEF capture
<1> QED
    BY <1>1, <1>3, <1>4, <1>5, <1>7, <1>8 DEF Intercepted, x

LEMMA KeptInv ==
    ASSUME Inv, NEW d \in 0 .. MaxJitter, NEW o \in BOOLEAN, OutboundKept(d, o)
    PROVE  Inv'
<1> DEFINE x == Head(queue)
<1>1. UNCHANGED <<config, capturing, running>>
      BY DEF OutboundKept
<1>2. /\ x \in Packet \ PacketsOf(pending)
      /\ queue' \in Seq(Packet) /\ Len(queue') <= OUT /\ Distinct(queue')
      /\ Range(queue') \subseteq Range(queue) \ {x}
      /\ captured' = IF capturing THEN captured \cup {x} ELSE captured
      /\ written' \in Seq(Packet \cup {ArpReply})
      /\ Range(written') \subseteq (PacketsOf(pending) \cup {x}) \ PacketsOf(pending')
      /\ pending' \in Seq(Entry(config)) /\ Apart(pending')
      /\ PacketsOf(pending') \subseteq PacketsOf(pending) \cup {x}
      BY KeptStep
<1> HIDE DEF x
<1>3. Types'
      BY <1>1, <1>2 DEF Inv, Types
<1>4. OnePlace'
      BY <1>2 DEF Inv, OnePlace
<1>5. CaptureFirst'
  <2>1. Held' = PacketsOf(pending')
        BY DEF Held, PacketsOf
  <2> QED
        BY <1>1, <1>2, <2>1, HeldIs DEF Inv, CaptureFirst
<1> QED
    BY <1>3, <1>4, <1>5 DEF Inv

\* The ARP reply is written, or it fails and nothing is.
LEMMA InboundStep ==
    ASSUME NEW arp \in BOOLEAN, Inbound(arp)
    PROVE  written' \in Seq(Packet \cup {ArpReply}) /\ Range(written') \subseteq {ArpReply}
<1>1. CASE arp
  <2> DEFINE out == <<ArpReply>>
  <2>1. out \in Seq(Packet \cup {ArpReply}) /\ Range(out) = {ArpReply}
        BY DEF Range
  <2>2. Write(out)
        BY <1>1 DEF Inbound
  <2> HIDE DEF out
  <2> QED
        BY <2>1, <2>2, WriteKeeps
<1>2. CASE ~ arp
      BY <1>2, NothingWritten DEF Inbound
<1> QED
    BY <1>1, <1>2

LEMMA InboundInv ==
    ASSUME Inv, NEW arp \in BOOLEAN, Inbound(arp)
    PROVE  Inv'
<1>1. UNCHANGED <<config, capturing, queue, pending, captured, running>>
      BY DEF Inbound
<1>2. written' \in Seq(Packet \cup {ArpReply}) /\ Range(written') \subseteq {ArpReply}
      BY InboundStep
<1>3. Types'
      BY <1>1, <1>2 DEF Inv, Types
<1>4. OnePlace'
      BY <1>1 DEF Inv, OnePlace
<1>5. Held' = Held
      BY <1>1 DEF Held
<1>6. CaptureFirst'
      BY <1>1, <1>2, <1>5 DEF Inv, CaptureFirst
<1> QED
    BY <1>3, <1>4, <1>6 DEF Inv

LEMMA ReadErrorInv ==
    ASSUME Inv, ReadError
    PROVE  Inv'
<1>1. /\ running' = FALSE /\ queue' = <<>> /\ pending' = <<>> /\ written' = <<>>
      /\ UNCHANGED <<config, capturing, captured>>
      BY DEF ReadError
<1>2. Types'
  <2>1. /\ queue' \in Seq(Packet) /\ Len(queue') <= OUT
        /\ pending' \in Seq(Entry(config)) /\ written' \in Seq(Packet \cup {ArpReply})
        BY <1>1, EventLoopAssumption
  <2> QED
        BY <1>1, <2>1 DEF Inv, Types
<1>3. OnePlace'
      BY <1>1 DEF OnePlace, Distinct, Apart, Range
<1>4. CaptureFirst'
      BY <1>1 DEF CaptureFirst, Held, Range
<1> QED
    BY <1>2, <1>3, <1>4 DEF Inv

\* A millisecond less to wait, for every packet.
LEMMA TickStep ==
    ASSUME Inv, Tick
    PROVE  /\ pending' \in Seq(Entry(config)) /\ Apart(pending') /\ PacketsOf(pending') = PacketsOf(pending)
           /\ written' = <<>> /\ UNCHANGED <<config, capturing, queue, captured, running>>
<1> DEFINE n == Len(pending)
<1>1. config \in Config /\ pending \in Seq(Entry(config)) /\ Apart(pending)
      BY DEF Inv, Types, OnePlace
<1>2. /\ n \in Nat /\ DOMAIN pending = 1 .. n
      /\ \A i \in 1 .. n : pending[i] \in Entry(config)
      BY <1>1, EntryTypes
<1>3. pending' = [i \in 1 .. n |-> [pending[i] EXCEPT !.left = IF @ > 0 THEN @ - 1 ELSE 0]]
      BY <1>2 DEF Tick
<1> HIDE DEF n
<1>4. ASSUME NEW e \in Entry(config)
      PROVE  LET f == [e EXCEPT !.left = IF @ > 0 THEN @ - 1 ELSE 0]
             IN  f \in Entry(config) /\ f.packet = e.packet
  <2>1. config.max_jitter \in Nat
        BY <1>1, EventLoopAssumption DEF Config
  <2> QED
        BY <2>1 DEF Entry
<1>5. DOMAIN pending' = 1 .. n
      BY <1>3
<1>6. \A i \in 1 .. n : pending'[i] \in Entry(config) /\ pending'[i].packet = pending[i].packet
      BY <1>2, <1>3, <1>4
<1>7. pending' \in Seq(Entry(config))
  <2>1. pending' \in [1 .. n -> Entry(config)]
        BY <1>3, <1>6
  <2> QED
        BY <1>2, <2>1, SeqDef
<1>8. Apart(pending')
      BY <1>1, <1>2, <1>5, <1>6 DEF Apart
<1>9. PacketsOf(pending') = PacketsOf(pending)
      BY <1>2, <1>5, <1>6 DEF PacketsOf
<1> QED
    BY <1>7, <1>8, <1>9 DEF Tick

LEMMA TickInv ==
    ASSUME Inv, Tick
    PROVE  Inv'
<1>1. /\ pending' \in Seq(Entry(config)) /\ Apart(pending') /\ PacketsOf(pending') = PacketsOf(pending)
      /\ written' = <<>> /\ UNCHANGED <<config, capturing, queue, captured, running>>
      BY TickStep
<1>2. written' \in Seq(Packet \cup {ArpReply}) /\ Range(written') = {}
      BY <1>1, NothingWritten
<1>3. Types'
      BY <1>1, <1>2 DEF Inv, Types
<1>4. OnePlace'
      BY <1>1 DEF Inv, OnePlace
<1>5. Held' = Held
      BY <1>1 DEF Held, PacketsOf
<1>6. CaptureFirst'
      BY <1>1, <1>2, <1>5 DEF Inv, CaptureFirst
<1> QED
    BY <1>3, <1>4, <1>6 DEF Inv

LEMMA StepInv == Inv /\ [Next]_vars => Inv'
<1> SUFFICES ASSUME Inv, [Next]_vars PROVE Inv'
    OBVIOUS
<1>1. CASE UNCHANGED vars
      BY <1>1 DEF Inv, vars, Types, OnePlace, CaptureFirst, Held
<1>2. CASE \E p \in Packet : TaskSend(p)
      BY <1>2, TaskSendInv
<1>3. CASE OutboundDropped
      BY <1>3, DroppedInv
<1>4. CASE Kept
      BY <1>4, KeptInv DEF Kept
<1>5. CASE \E arp \in BOOLEAN : Inbound(arp)
      BY <1>5, InboundInv
<1>6. CASE ReadError
      BY <1>6, ReadErrorInv
<1>7. CASE Tick
      BY <1>7, TickInv
<1> QED
    BY <1>1, <1>2, <1>3, <1>4, <1>5, <1>6, <1>7 DEF Next

\* The channel, the middleware and the capture file stay consistent.
THEOREM InOnePlace == Spec => []Inv
BY InitInv, StepInv, PTL DEF Spec
-----------------------------------------------------------------------------
(* What follows from it.                                                   *)

LEMMA InvTypes == Inv => TypeOK
<1> SUFFICES ASSUME Inv PROVE TypeOK
    OBVIOUS
<1>1. config \in Config /\ pending \in Seq(Entry(config)) /\ queue \in Seq(Packet)
      /\ written \in Seq(Packet \cup {ArpReply})
      BY DEF Inv, Types
<1>2. \A i \in DOMAIN pending :
          pending[i].packet \in Packet /\ pending[i].left \in 0 .. config.max_jitter
      BY <1>1, EntryTypes
<1>3. Range(queue) \subseteq Packet /\ Range(written) \subseteq Packet \cup {ArpReply}
      BY <1>1 DEF Range
<1> QED
    BY <1>2, <1>3 DEF Inv, Types, TypeOK

\* The outbound channel never exceeds its capacity, holds only packets of the
\* connections, and no held packet has more time left than the configured jitter.
THEOREM LoopTypeCorrect == Spec => []TypeOK
BY InOnePlace, InvTypes, PTL

\* Whatever the middleware does with a packet, it is in the capture file before
\* it can be held or written.
THEOREM CapturedFirst == Spec => []CaptureFirst
<1>1. Inv => CaptureFirst
      BY DEF Inv
<1> QED
    BY <1>1, InOnePlace, PTL

\* The body of NotEarly.
Punctual == \A i \in DOMAIN pending : pending[i].left > 0 => pending[i].packet \notin Range(written')

LEMMA StepPunctual ==
    ASSUME Inv, Next
    PROVE  Punctual
<1>1. ASSUME Range(written') = {} PROVE Punctual
      BY <1>1 DEF Punctual
<1>2. CASE \E p \in Packet : TaskSend(p)
      BY <1>1, <1>2, NothingWritten DEF TaskSend
<1>3. CASE OutboundDropped
      BY <1>1, <1>3, NothingWritten DEF OutboundDropped
<1>4. CASE Kept
      BY <1>4, KeptStep DEF Kept, Punctual
<1>5. CASE \E arp \in BOOLEAN : Inbound(arp)
  <2>1. Range(written') \subseteq {ArpReply}
        BY <1>5, InboundStep
  <2>2. \A i \in DOMAIN pending : pending[i].packet \in Packet
        BY EntryTypes DEF Inv, Types
  <2> QED
        BY <2>1, <2>2, EventLoopAssumption DEF Punctual
<1>6. CASE ReadError
      BY <1>1, <1>6, NothingWritten DEF ReadError
<1>7. CASE Tick
      BY <1>1, <1>7, NothingWritten DEF Tick
<1> QED
    BY <1>2, <1>3, <1>4, <1>5, <1>6, <1>7 DEF Next

\* No step writes a packet whose delay is not over, wherever it stands in the
\* middleware's queue and whatever overtakes it.
THEOREM NeverEarly == Spec => NotEarly
<1>1. Inv /\ [Next]_vars => [Punctual]_vars
      BY StepPunctual
<1> QED
    BY <1>1, InOnePlace, PTL DEF Spec, NotEarly, Punctual
-----------------------------------------------------------------------------
(* The refinement of LossyLink.                                            *)

\* Nothing of a connection is written.
LEMMA NoDelivery ==
    ASSUME written' \in Seq(Packet \cup {ArpReply}), Range(written') \subseteq {ArpReply}
    PROVE  Select(written, Packet)' = <<>>
<1>1. Range(written') \cap Packet = {}
      BY EventLoopAssumption
<1> QED
    BY <1>1, SelectKeeps

\* A step that delivers nothing and lets no packet in.
LEMMA QuietStep ==
    ASSUME InTransit' \subseteq InTransit, written' \in Seq(Packet \cup {ArpReply}),
           Range(written') \subseteq {ArpReply}
    PROVE  Link!LinkNext
<1>1. Select(written, Packet)' = <<>>
      BY NoDelivery
<1>2. Link!OnceEach(<<>>) /\ Link!Members(<<>>) = {}
      BY DEF Link!OnceEach, Link!Members
<1>3. Link!Leave
      BY <1>1, <1>2 DEF Link!Leave
<1> QED
    BY <1>3 DEF Link!LinkNext

LEMMA InitLink == Init => Link!LinkInit
<1> SUFFICES ASSUME Init PROVE Link!LinkInit
    OBVIOUS
<1>1. written = <<>> /\ InTransit = {}
      BY DEF Init, InTransit, Held, Range
<1>2. written \in Seq(Packet) /\ Range(written) \cap Packet = {}
      BY <1>1 DEF Range
<1>3. Select(written, Packet) = <<>>
      BY <1>2, SelectKeeps
<1> QED
    BY <1>1, <1>3 DEF Link!LinkInit

LEMMA StepLink ==
    ASSUME Inv, [Next]_vars
    PROVE  [Link!LinkNext]_(Link!linkVars)
<1>0. /\ InTransit = Range(queue) \cup PacketsOf(pending)
      /\ InTransit' = Range(queue') \cup PacketsOf(pending')
      BY DEF InTransit, Held, PacketsOf
<1>1. CASE UNCHANGED vars
      BY <1>1 DEF vars, InTransit, Held, Link!linkVars
<1>2. CASE \E p \in Packet : TaskSend(p)
  <2>1. PICK p \in Packet : TaskSend(p)
        BY <1>2
  <2>2. /\ p \notin InTransit /\ Len(queue) < OUT
        /\ queue' = Append(queue, p) /\ written' = <<>> /\ pending' = pending
        BY <2>1 DEF TaskSend, InTransit
  <2>3. queue \in Seq(Packet) /\ Distinct(queue)
        BY DEF Inv, Types, OnePlace
  <2>4. p \in Packet \ Range(queue)
        BY <2>2 DEF InTransit
  <2>5. Range(queue') = Range(queue) \cup {p}
        BY <2>2, <2>3, <2>4, PutLast
  <2>6. InTransit' = InTransit \cup {p}
        BY <1>0, <2>2, <2>5
  <2>7. Select(written, Packet)' = <<>>
        BY <2>2, NothingWritten, NoDelivery
  <2>8. Link!Enter(p)
        BY <2>2, <2>6, <2>7 DEF Link!Enter
  <2> QED
        BY <2>8 DEF Link!LinkNext
<1>3. CASE OutboundDropped
  <2>1. queue # <<>> /\ queue' = Tail(queue) /\ written' = <<>> /\ pending' = pending
        BY <1>3 DEF OutboundDropped
  <2>2. queue \in Seq(Packet) /\ Distinct(queue) /\ Len(queue) <= OUT
        BY DEF Inv, Types, OnePlace
  <2>3. Range(queue') \subseteq Range(queue)
        BY <2>1, <2>2, TakeHead
  <2>4. InTransit' \subseteq InTransit
        BY <1>0, <2>1, <2>3
  <2> QED
        BY <2>1, <2>4, NothingWritten, QuietStep
<1>4. CASE Kept
  <2>1. PICK d \in 0 .. MaxJitter, o \in BOOLEAN : OutboundKept(d, o)
        BY <1>4 DEF Kept
  <2> DEFINE x == Head(queue)
             t == Select(written', Packet)
  <2>2. /\ x \in Packet \ PacketsOf(pending)
        /\ written' \in Seq(Packet \cup {ArpReply}) /\ Distinct(written')
        /\ Range(queue') \subseteq Range(queue) \ {x}
        /\ Range(written') \subseteq (PacketsOf(pending) \cup {x}) \ PacketsOf(pending')
        /\ PacketsOf(pending') \subseteq PacketsOf(pending) \cup {x}
        BY <2>1, KeptStep
  <2>3. x \in Range(queue) /\ Range(queue) \cap PacketsOf(pending) = {}
    <3>1. queue # <<>>
          BY <2>1 DEF OutboundKept
    <3> QED
          BY <3>1, TakeHead DEF Inv, Types, OnePlace
  <2>4. Range(t) \subseteq Range(written') /\ Distinct(t)
        BY <2>2, SelectKeeps
  <2> HIDE DEF x, t
  <2>5. Link!OnceEach(t) /\ Link!Members(t) = Range(t)
        BY <2>4 DEF Link!OnceEach, Link!Members, Distinct, Range
  <2>6. Range(t) \subseteq InTransit /\ InTransit' \subseteq InTransit \ Range(t)
        BY <1>0, <2>2, <2>3, <2>4
  <2>7. Link!Leave
        BY <2>5, <2>6 DEF Link!Leave, t
  <2> QED
        BY <2>7 DEF Link!LinkNext
<1>5. CASE \E arp \in BOOLEAN : Inbound(arp)
  <2>1. PICK arp \in BOOLEAN : Inbound(arp)
        BY <1>5
  <2>2. InTransit' = InTransit
        BY <2>1 DEF Inbound, InTransit, Held
  <2> QED
        BY <2>1, <2>2, InboundStep, QuietStep
<1>6. CASE ReadError
  <2>1. InTransit' = {} /\ written' = <<>>
        BY <1>6 DEF ReadError, InTransit, Held, Range
  <2> QED
        BY <2>1, NothingWritten, QuietStep
<1>7. CASE Tick
  <2>1. written' = <<>> /\ PacketsOf(pending') = PacketsOf(pending) /\ queue' = queue
        BY <1>7, TickStep
  <2>2. InTransit' = InTransit
        BY <1>0, <2>1
  <2> QED
        BY <2>1, <2>2, NothingWritten, QuietStep
<1> QED
    BY <1>1, <1>2, <1>3, <1>4, <1>5, <1>6, <1>7 DEF Next

\* Event loop, middleware and device implement the lossy link: every packet a
\* connection hands over is delivered at most once, and nothing else is.
THEOREM LoopImplementsLink == Spec => ImplementsLink
<1>1. Inv /\ [Next]_vars => [Link!LinkNext]_(Link!linkVars)
      BY StepLink
<1> QED
    BY <1>1, InitLink, InOnePlace, PTL DEF Spec, ImplementsLink, Link!LinkSpec
=============================================================================
