----------------------------- MODULE WireProofs -----------------------------
(***************************************************************************)
(* Proofs about Codec and Wire, for every segment, payload, option and     *)
(* damaged byte.                                                           *)
(*                                                                         *)
(* Checksums are sums of words modulo 65535; Accepts says which packets    *)
(* the two parsers let through, and never with a slice out of range;       *)
(* Sealed is what intact packets have in common; Robust is what a receiver *)
(* makes of a frame as it is, padded, cut or with a byte changed.  The     *)
(* inductive invariant says that every frame put on the wire is Robust.    *)
(***************************************************************************)
EXTENDS Wire, Induction
-----------------------------------------------------------------------------
(* Bytes and words.                                                        *)

\* A byte is a number up to 255.
LEMMA ByteRange == \A b : b \in Byte <=> b \in Nat /\ b <= 255
<1>1. ASSUME NEW b \in Byte PROVE b \in Nat /\ b <= 255
      BY DEF Byte
<1>2. ASSUME NEW b \in Nat, b <= 255 PROVE b \in Byte
  <2> DEFINE m == 255
  <2>1. m \in Nat /\ b <= m
        BY <1>2
  <2> HIDE DEF m
  <2>2. b \in 0 .. m
        BY <2>1
  <2> QED
        BY <2>2, Zenon DEF m, Byte
<1> QED
    BY <1>1, <1>2

\* A word is its two halves.
LEMMA Halves ==
    ASSUME NEW w \in Word
    PROVE  /\ w \div 256 \in Byte /\ w % 256 \in Byte /\ w \in Nat
           /\ 256 * (w \div 256) + (w % 256) = w
<1>1. w \div 256 \in Nat /\ w \div 256 <= 255
      BY DEF Word
<1>2. w % 256 \in Nat /\ w % 256 <= 255
      BY DEF Word
<1>3. 256 * (w \div 256) + (w % 256) = w /\ w \in Nat
      BY DEF Word
<1> QED
    BY <1>1, <1>2, <1>3, ByteRange
-----------------------------------------------------------------------------
(* The fold.                                                               *)

\* What repeated folding leaves: the representative of the sum modulo 65535
\* that is 0 only for 0.
Folded(s) == IF s = 0 THEN 0 ELSE 1 + ((s - 1) % 65535)

\* One round of the loop keeps that value and makes the sum smaller.
LEMMA FoldRound ==
    ASSUME NEW s \in Nat, s >= 65536
    PROVE  LET t == (s % 65536) + (s \div 65536)
           IN  t \in Nat /\ t < s /\ Folded(t) = Folded(s)
<1> DEFINE t == (s % 65536) + (s \div 65536)
<1>1. t \in Nat
      OBVIOUS
<1>2. t < s
      OBVIOUS
<1>3. Folded(t) = Folded(s)
      BY DEF Folded
<1> QED
    BY <1>1, <1>2, <1>3

\* The loop ends with that value.
LEMMA FoldValue ==
    ASSUME NEW s \in Nat
    PROVE  fold[s] = Folded(s)
<1> DEFINE round(x) == (x % 65536) + (x \div 65536)
           Eq(f) == f = [x \in Nat |-> IF x < 65536 THEN x ELSE f[round(x)]]
           g == [x \in Nat |-> Folded(x)]
<1>1. Eq(g)
  <2>1. ASSUME NEW x \in Nat
        PROVE  g[x] = IF x < 65536 THEN x ELSE g[round(x)]
    <3>1. CASE x < 65536
          BY <3>1 DEF Folded
    <3>2. CASE x >= 65536
      <4>1. round(x) \in Nat /\ Folded(round(x)) = Folded(x)
            BY <3>2, FoldRound
      <4> HIDE DEF round
      <4> QED
            BY <3>2, <4>1
    <3> QED
        BY <3>1, <3>2
  <2> HIDE DEF round
  <2> QED
        BY <2>1
<1>2. fold = CHOOSE f : Eq(f)
      BY DEF fold
<1>3. Eq(fold)
  <2> HIDE DEF Eq, g
  <2> QED
        BY <1>1, <1>2
<1>4. \A x \in Nat : fold[x] = IF x < 65536 THEN x ELSE fold[round(x)]
  <2> HIDE DEF round
  <2> QED
        BY <1>3
<1> DEFINE T == {x \in Nat : fold[x] # Folded(x)}
<1> SUFFICES ASSUME T # {} PROVE FALSE
    OBVIOUS
<1>5. PICK m \in T : \A k \in T : m <= k
  <2>1. T \in SUBSET Nat
        OBVIOUS
  <2> HIDE DEF T
  <2> QED
        BY <2>1, LeastNat
<1>6. m >= 65536
  <2>1. m < 65536 => Folded(m) = m
        BY <1>5 DEF Folded
  <2> QED
        BY <1>4, <1>5, <2>1
<1>7. round(m) \in Nat /\ round(m) < m /\ Folded(round(m)) = Folded(m)
      BY <1>5, <1>6, FoldRound
<1>8. fold[m] = fold[round(m)]
  <2> HIDE DEF round
  <2> QED
        BY <1>4, <1>5, <1>6
<1>9. round(m) \notin T
  <2> HIDE DEF round, T
  <2> QED
        BY <1>5, <1>7 DEF T
<1> HIDE DEF round
<1> QED
    BY <1>5, <1>7, <1>8, <1>9

\* A checksum is a word, and it is 0 for the positive multiples of 65535 only.
LEMMA ComplementValue ==
    ASSUME NEW s \in Nat
    PROVE  complement(s) \in Word /\ (complement(s) = 0 <=> s > 0 /\ s % 65535 = 0)
<1>1. complement(s) = 65535 - Folded(s)
      BY FoldValue DEF complement
<1>2. Folded(s) \in Nat /\ Folded(s) <= 65535
  <2>1. Folded(s) \in Nat
        BY DEF Folded
  <2>2. Folded(s) <= 65535
        BY DEF Folded
  <2> QED
        BY <2>1, <2>2
<1>3. Folded(s) = 65535 <=> s > 0 /\ s % 65535 = 0
      BY DEF Folded
<1> DEFINE c == complement(s)
           r == Folded(s)
<1>4. c = 65535 - r /\ r \in Nat /\ r <= 65535
      BY <1>1, <1>2
<1> HIDE DEF c, r
<1>5. c \in Word /\ (c = 0 <=> r = 65535)
      BY <1>4 DEF Word
<1>6. complement(s) = 0 <=> Folded(s) = 65535
      BY <1>5 DEF c, r
<1> QED
    BY <1>3, <1>5, <1>6 DEF c

\* A sum that includes its own checksum passes.
LEMMA ComplementCompletes ==
    ASSUME NEW s \in Nat
    PROVE  complement(s + complement(s)) = 0
<1>1. complement(s) = 65535 - Folded(s)
      BY FoldValue DEF complement
<1> DEFINE c == 65535 - Folded(s)
<1>2. c \in Nat /\ s + c \in Nat /\ s + c > 0 /\ (s + c) % 65535 = 0
      BY DEF Folded
<1> HIDE DEF c
<1>3. complement(s + c) = 0
      BY <1>2, ComplementValue
<1> QED
    BY <1>1, <1>3 DEF c
-----------------------------------------------------------------------------
(* The sum of the words.                                                   *)

\* What byte b adds to the sum at place i.
Part(i, b) == IF i % 2 = 1 THEN 256 * b ELSE b

\* f holds the running sums of s.
Sums(f, s) ==
    /\ f \in [0 .. Len(s) -> Nat] /\ f[0] = 0
    /\ \A i \in 1 .. Len(s) : f[i] = f[i - 1] + Part(i, s[i])

\* The parts of two bytes at the same place differ modulo 65535.
LEMMA PartDiffers ==
    ASSUME NEW i \in Nat, NEW a \in Byte, NEW b \in Byte, NEW x \in Nat, NEW y \in Nat, a # b,
           x + Part(i, b) = y + Part(i, a), x % 65535 = 0
    PROVE  y % 65535 # 0
<1>1. a \in Nat /\ a <= 255 /\ b \in Nat /\ b <= 255
      BY ByteRange
<1>2. CASE i % 2 = 1
      BY <1>1, <1>2 DEF Part
<1>3. CASE i % 2 # 1
      BY <1>1, <1>3 DEF Part
<1> QED
    BY <1>2, <1>3

\* word_sum is the last of the running sums.
LEMMA WordSums ==
    ASSUME NEW s \in Seq(Byte)
    PROVE  \E f : Sums(f, s) /\ word_sum(s) = f[Len(s)]
<1> DEFINE n == Len(s)
           next(i, x) == x + (IF i % 2 = 1 THEN 256 * s[i] ELSE s[i])
           g == [i \in 1 .. n |-> [x \in Nat |-> next(i, x)]]
           Eq(h) == h = [i \in 0 .. n |-> IF i = 0 THEN 0 ELSE next(i, h[i - 1])]
           f == CHOOSE h : Eq(h)
<1>0. n \in Nat /\ \A i \in 1 .. n : s[i] \in Nat
      BY ByteRange
<1>1. \A i \in 1 .. n : \A x \in Nat : next(i, x) \in Nat
  <2> HIDE DEF n
  <2> QED
      BY <1>0
<1>2. word_sum(s) = f[n]
      BY DEF word_sum
<1>3. PICK h : Runs(h, n, Nat, 0, g)
  <2> HIDE DEF n, next
  <2>1. g \in [1 .. n -> [Nat -> Nat]]
        BY <1>0, <1>1
  <2> HIDE DEF g
  <2> QED
        BY <1>0, <2>1, Recursion
<1>4. ASSUME NEW i \in 1 .. n PROVE h[i] = next(i, h[i - 1])
  <2>1. i - 1 \in 0 .. n
        BY <1>0
  <2>2. h[i - 1] \in Nat
    <3> HIDE DEF n, g, next
    <3> QED
        BY <1>3, <2>1 DEF Runs
  <2> HIDE DEF n, next
  <2> QED
        BY <1>3, <2>2 DEF Runs
<1> HIDE DEF g, n, next
<1>5. Eq(h)
  <2>1. \A i \in 0 .. n : h[i] = IF i = 0 THEN 0 ELSE next(i, h[i - 1])
        BY <1>0, <1>3, <1>4 DEF Runs
  <2> QED
        BY <1>3, <2>1 DEF Runs
<1>6. Eq(f)
  <2> HIDE DEF Eq
  <2> QED
        BY <1>5
<1> DEFINE S == {i \in 0 .. n : f[i] = h[i]}
<1> HIDE DEF f
<1>7. 0 \in S /\ \A i \in 1 .. n : i - 1 \in S => i \in S
  <2>1. f[0] = 0 /\ h[0] = 0
        BY <1>0, <1>3, <1>6 DEF Runs
  <2>2. ASSUME NEW i \in 1 .. n, f[i - 1] = h[i - 1] PROVE f[i] = h[i]
    <3>1. \A j \in 0 .. n : f[j] = IF j = 0 THEN 0 ELSE next(j, f[j - 1])
          BY <1>6
    <3>2. i \in 0 .. n /\ i # 0
          BY <1>0
    <3>3. f[i] = next(i, f[i - 1])
          BY <3>1, <3>2
    <3> QED
          BY <1>4, <2>2, <3>3
  <2> QED
        BY <1>0, <2>1, <2>2
<1> HIDE DEF S
<1>8. n \in S
  <2>1. \A i \in 0 .. n : i \in S
        BY <1>0, <1>7, UpTo
  <2> QED
        BY <1>0, <2>1
<1>9. word_sum(s) = h[n]
      BY <1>2, <1>8 DEF S
<1>10. ASSUME NEW i \in 1 .. n PROVE h[i] = h[i - 1] + Part(i, s[i])
      BY <1>4 DEF next, Part
<1>11. Sums(h, s)
      BY <1>3, <1>10 DEF Runs, Sums, n
<1> QED
    BY <1>9, <1>11 DEF n

\* The types of the running sums.
LEMMA SumsTypes ==
    ASSUME NEW s \in Seq(Byte), NEW f, Sums(f, s)
    PROVE  /\ Len(s) \in Nat /\ f[0] = 0 /\ \A i \in 0 .. Len(s) : f[i] \in Nat
           /\ \A i \in 1 .. Len(s) : /\ s[i] \in Byte /\ Part(i, s[i]) \in Nat
                                     /\ f[i] = f[i - 1] + Part(i, s[i])
<1>1. Len(s) \in Nat /\ \A i \in 1 .. Len(s) : s[i] \in Byte
      OBVIOUS
<1>2. ASSUME NEW i \in 1 .. Len(s) PROVE Part(i, s[i]) \in Nat
      BY <1>1, ByteRange DEF Part
<1> QED
    BY <1>1, <1>2 DEF Sums

\* The running sums of a sequence and of what it starts with.
LEMMA PrefixSums ==
    ASSUME NEW s \in Seq(Byte), NEW u \in Seq(Byte), NEW h, Sums(h, u),
           Len(s) <= Len(u), \A i \in 1 .. Len(s) : u[i] = s[i]
    PROVE  h[Len(s)] = word_sum(s)
<1>1. PICK f : Sums(f, s) /\ word_sum(s) = f[Len(s)]
      BY WordSums
<1> DEFINE n == Len(s)
           m == Len(u)
           S == {i \in 0 .. n : h[i] = f[i]}
<1>2. /\ n \in Nat /\ m \in Nat /\ n <= m /\ f[0] = 0 /\ h[0] = 0
      /\ \A i \in 1 .. n : f[i] = f[i - 1] + Part(i, s[i]) /\ u[i] = s[i]
      /\ \A i \in 1 .. m : h[i] = h[i - 1] + Part(i, u[i])
      BY <1>1, SumsTypes
<1> HIDE DEF n, m
<1>3. 0 \in S /\ \A i \in 1 .. n : i - 1 \in S => i \in S
  <2>1. 0 \in S
        BY <1>2
  <2>2. ASSUME NEW i \in 1 .. n, i - 1 \in S PROVE i \in S
    <3>1. h[i - 1] = f[i - 1] /\ i \in 1 .. m
          BY <1>2, <2>2
    <3>2. h[i] = f[i]
          BY <1>2, <3>1
    <3> QED
          BY <1>2, <3>2
  <2> QED
        BY <2>1, <2>2
<1> HIDE DEF S
<1>4. n \in S
  <2>1. \A i \in 0 .. n : i \in S
        BY <1>2, <1>3, UpTo
  <2> QED
        BY <1>2, <2>1
<1> QED
    BY <1>1, <1>4 DEF S, n

\* The sum is a number.
LEMMA SumType ==
    ASSUME NEW s \in Seq(Byte)
    PROVE  word_sum(s) \in Nat
<1>1. PICK f : Sums(f, s) /\ word_sum(s) = f[Len(s)]
      BY WordSums
<1>2. Len(s) \in 0 .. Len(s)
      OBVIOUS
<1> QED
    BY <1>1, <1>2, SumsTypes

\* The same added to both sides.
LEMMA AddSame ==
    ASSUME NEW a \in Nat, NEW b \in Nat, NEW p \in Nat, NEW q \in Nat, NEW r \in Nat, b + p = a + q
    PROVE  (b + r) + p = (a + r) + q
OBVIOUS

\* The sums of two sequences that differ in one byte differ by its part.
LEMMA SumOneByte ==
    ASSUME NEW s \in Seq(Byte), NEW t \in Seq(Byte), Len(t) = Len(s), NEW j \in 1 .. Len(s),
           \A i \in 1 .. Len(s) : i # j => t[i] = s[i]
    PROVE  word_sum(t) + Part(j, s[j]) = word_sum(s) + Part(j, t[j])
<1>1. PICK f : Sums(f, s) /\ word_sum(s) = f[Len(s)]
      BY WordSums
<1>2. PICK g : Sums(g, t) /\ word_sum(t) = g[Len(t)]
      BY WordSums
<1> DEFINE n == Len(s)
           p == Part(j, s[j])
           q == Part(j, t[j])
           S == {i \in 0 .. n : IF i < j THEN g[i] = f[i] ELSE g[i] + p = f[i] + q}
<1>3. /\ n \in Nat /\ j \in 1 .. n /\ f[0] = 0 /\ g[0] = 0 /\ p \in Nat /\ q \in Nat
      /\ \A i \in 0 .. n : f[i] \in Nat /\ g[i] \in Nat
      /\ \A i \in 1 .. n : f[i] = f[i - 1] + Part(i, s[i]) /\ Part(i, s[i]) \in Nat
      /\ \A i \in 1 .. n : g[i] = g[i - 1] + Part(i, t[i]) /\ (i # j => t[i] = s[i])
      BY <1>1, <1>2, SumsTypes
<1>4. word_sum(s) = f[n] /\ word_sum(t) = g[n]
      BY <1>1, <1>2
<1>5. f[j] = f[j - 1] + p /\ g[j] = g[j - 1] + q
      BY <1>3
<1> HIDE DEF n, p, q
<1>6. 0 \in S
      BY <1>3
<1>7. ASSUME NEW i \in 1 .. n, i - 1 \in S PROVE i \in S
  <2> DEFINE a == f[i - 1]
             b == g[i - 1]
  <2>1. a \in Nat /\ b \in Nat
        BY <1>3
  <2>2. CASE i < j
    <3>1. b = a /\ t[i] = s[i]
          BY <1>3, <1>7, <2>2
    <3>2. g[i] = f[i]
          BY <1>3, <3>1
    <3> QED
          BY <1>3, <2>2, <3>2
  <2>3. CASE i = j
    <3>1. b = a
          BY <1>3, <1>7, <2>3
    <3>2. f[i] = a + p /\ g[i] = b + q
          BY <1>5, <2>3
    <3> HIDE DEF a, b
    <3>3. g[i] + p = f[i] + q
          BY <1>3, <2>1, <3>1, <3>2
    <3> QED
          BY <1>3, <2>3, <3>3
  <2>4. CASE i > j
    <3> DEFINE r == Part(i, s[i])
    <3>1. b + p = a + q /\ t[i] = s[i]
          BY <1>3, <1>7, <2>4
    <3>2. f[i] = a + r /\ g[i] = b + r /\ r \in Nat
          BY <1>3, <3>1
    <3> HIDE DEF a, b, r
    <3>3. (b + r) + p = (a + r) + q
      <4>1. p \in Nat /\ q \in Nat
            BY <1>3
      <4> QED
            BY <2>1, <3>1, <3>2, <4>1, AddSame
    <3>4. g[i] + p = f[i] + q
          BY <3>2, <3>3
    <3> QED
          BY <1>3, <2>4, <3>4
  <2> QED
      BY <1>3, <2>2, <2>3, <2>4
<1> HIDE DEF S
<1>8. n \in S
  <2>1. \A i \in 0 .. n : i \in S
        BY <1>3, <1>6, <1>7, UpTo
  <2> QED
        BY <1>3, <2>1
<1> QED
    BY <1>3, <1>4, <1>8 DEF S, p, q

\* The sum of a sequence is that of its two pieces, when the first is of even
\* length.
LEMMA SumConcat ==
    ASSUME NEW s \in Seq(Byte), NEW t \in Seq(Byte), Len(s) % 2 = 0
    PROVE  word_sum(s \o t) = word_sum(s) + word_sum(t)
<1> DEFINE u == s \o t
           n == Len(s)
           m == Len(t)
<1>1. /\ u \in Seq(Byte) /\ Len(u) = n + m /\ n \in Nat /\ m \in Nat
      /\ \A i \in 1 .. n : u[i] = s[i]
      /\ \A i \in 1 .. m : u[n + i] = t[i]
      OBVIOUS
<1>2. n % 2 = 0
      OBVIOUS
<1> HIDE DEF u
<1>3. PICK h : Sums(h, u) /\ word_sum(u) = h[n + m]
      BY <1>1, WordSums
<1>4. PICK g : Sums(g, t) /\ word_sum(t) = g[m]
      BY WordSums
<1>5. h[n] = word_sum(s)
      BY <1>1, <1>3, PrefixSums
<1>6. /\ g[0] = 0 /\ word_sum(s) \in Nat
      /\ \A i \in 1 .. m : g[i] = g[i - 1] + Part(i, t[i]) /\ Part(i, t[i]) \in Nat
      /\ \A i \in 0 .. m : g[i] \in Nat
      BY <1>4, SumsTypes, SumType
<1>7. \A i \in 1 .. (n + m) : h[i] = h[i - 1] + Part(i, u[i])
      BY <1>1, <1>3, SumsTypes
<1> DEFINE x == word_sum(s)
           S == {i \in 0 .. m : h[n + i] = x + g[i]}
<1> HIDE DEF n, m, x
<1>8. 0 \in S
      BY <1>1, <1>5, <1>6 DEF x
<1>9. ASSUME NEW i \in 1 .. m, i - 1 \in S PROVE i \in S
  <2>1. n + i \in 1 .. (n + m) /\ (n + i) - 1 = n + (i - 1)
        BY <1>1
  <2>2. h[n + (i - 1)] = x + g[i - 1]
        BY <1>9
  <2>3. h[n + i] = h[n + (i - 1)] + Part(n + i, t[i])
        BY <1>1, <1>7, <2>1
  <2>4. (n + i) % 2 = i % 2
    <3> DEFINE k == n \div 2
    <3>1. k \in Nat /\ n = 2 * k
          BY <1>1, <1>2
    <3> HIDE DEF k
    <3>2. (2 * k + i) % 2 = i % 2
          BY <3>1
    <3> QED
          BY <3>1, <3>2
  <2>5. Part(n + i, t[i]) = Part(i, t[i])
        BY <2>4 DEF Part
  <2> DEFINE a == g[i - 1]
             r == Part(i, t[i])
  <2>6. a \in Nat /\ r \in Nat /\ g[i] = a + r /\ h[n + i] = (x + a) + r /\ x \in Nat
        BY <1>1, <1>6, <2>2, <2>3, <2>5 DEF x
  <2> HIDE DEF a, r
  <2>7. h[n + i] = x + g[i]
        BY <2>6
  <2> QED
      BY <1>1, <2>7
<1> HIDE DEF S
<1>10. m \in S
  <2>1. \A i \in 0 .. m : i \in S
        BY <1>1, <1>8, <1>9, UpTo
  <2> QED
        BY <1>1, <2>1
<1> QED
    BY <1>3, <1>4, <1>10 DEF S, u, x

\* A zero at the end adds nothing.
LEMMA SumZero ==
    ASSUME NEW s \in Seq(Byte)
    PROVE  s \o <<0>> \in Seq(Byte) /\ Len(s \o <<0>>) = Len(s) + 1
           /\ word_sum(s \o <<0>>) = word_sum(s)
<1> DEFINE u == s \o <<0>>
           n == Len(s)
<1>1. 0 \in Byte
      BY ByteRange
<1>2. /\ u \in Seq(Byte) /\ Len(u) = n + 1 /\ n \in Nat
      /\ \A i \in 1 .. n : u[i] = s[i]
      /\ u[n + 1] = 0
      BY <1>1
<1> HIDE DEF u
<1>3. PICK h : Sums(h, u) /\ word_sum(u) = h[n + 1]
      BY <1>2, WordSums
<1>4. h[n] = word_sum(s) /\ word_sum(s) \in Nat
      BY <1>2, <1>3, PrefixSums, SumType
<1>5. h[n + 1] = h[n] + Part(n + 1, 0)
  <2>1. n + 1 \in 1 .. Len(u) /\ (n + 1) - 1 = n
        BY <1>2
  <2> QED
        BY <1>2, <1>3, <2>1, SumsTypes
<1>6. Part(n + 1, 0) = 0
      BY DEF Part
<1> QED
    BY <1>2, <1>3, <1>4, <1>5, <1>6 DEF u

-----------------------------------------------------------------------------
(* Pieces of sequences.                                                    *)

\* The places of a concatenation.
LEMMA Concat ==
    ASSUME NEW s \in Seq(Byte), NEW t \in Seq(Byte)
    PROVE  /\ s \o t \in Seq(Byte) /\ Len(s \o t) = Len(s) + Len(t)
           /\ Len(s) \in Nat /\ Len(t) \in Nat
           /\ \A i \in 1 .. Len(s) : (s \o t)[i] = s[i]
           /\ \A i \in 1 .. Len(t) : (s \o t)[Len(s) + i] = t[i]
OBVIOUS

\* Three pieces.
LEMMA ConcatAssoc ==
    ASSUME NEW s \in Seq(Byte), NEW t \in Seq(Byte), NEW u \in Seq(Byte)
    PROVE  (s \o t) \o u = s \o (t \o u)
OBVIOUS

\* What is behind the first piece.
LEMMA FromConcat ==
    ASSUME NEW s \in Seq(Byte), NEW t \in Seq(Byte)
    PROVE  from(s \o t, Len(s)) = t
BY DEF from

\* A slice of the first piece.
LEMMA SliceConcat ==
    ASSUME NEW s \in Seq(Byte), NEW t \in Seq(Byte), NEW a \in Nat, NEW b \in Nat, b <= Len(s)
    PROVE  slice(s \o t, a, b) = slice(s, a, b)
BY DEF slice

\* All of it.
LEMMA SliceAll ==
    ASSUME NEW s \in Seq(Byte)
    PROVE  slice(s, 0, Len(s)) = s /\ from(s, 0) = s
BY DEF slice, from

\* A slice that is the second of two pieces.
LEMMA SliceSecond ==
    ASSUME NEW s \in Seq(Byte), NEW t \in Seq(Byte)
    PROVE  slice(s \o t, Len(s), Len(s) + Len(t)) = t
<1>1. slice(s \o t, Len(s), Len(s) + Len(t)) = from(s \o t, Len(s))
      BY Concat DEF slice, from
<1> QED
    BY <1>1, FromConcat

\* A word written at the end is read there, adds itself to the sum, and leaves
\* what is before it.
LEMMA WordAtEnd ==
    ASSUME NEW s \in Seq(Byte), NEW w \in Word
    PROVE  LET u == s \o be16(w)
           IN  /\ u \in Seq(Byte) /\ Len(u) = Len(s) + 2
               /\ \A i \in 1 .. Len(s) : u[i] = s[i]
               /\ u16(u, Len(s)) = w
               /\ Len(s) % 2 = 0 => word_sum(u) = word_sum(s) + w
<1> DEFINE hi == w \div 256
           lo == w % 256
           t == <<hi, lo>>
           u == s \o t
<1>1. hi \in Byte /\ lo \in Byte /\ 256 * hi + lo = w
      BY Halves
<1> HIDE DEF hi, lo
<1>2. t \in Seq(Byte) /\ Len(t) = 2 /\ t[1] = hi /\ t[2] = lo
      BY <1>1
<1> HIDE DEF t
<1>3. /\ u \in Seq(Byte) /\ Len(u) = Len(s) + 2 /\ Len(s) \in Nat
      /\ \A i \in 1 .. Len(s) : u[i] = s[i]
      /\ u[Len(s) + 1] = hi /\ u[Len(s) + 2] = lo
  <2> HIDE DEF u
  <2>1. \A i \in 1 .. 2 : u[Len(s) + i] = t[i]
        BY <1>2, Concat DEF u
  <2>2. u[Len(s) + 1] = hi /\ u[Len(s) + 2] = lo
        BY <1>2, <2>1
  <2>3. /\ u \in Seq(Byte) /\ Len(u) = Len(s) + Len(t) /\ Len(s) \in Nat
        /\ \A i \in 1 .. Len(s) : u[i] = s[i]
        BY <1>2, Concat DEF u
  <2> QED
        BY <1>2, <2>2, <2>3
<1>4. word_sum(t) = w
  <2>1. PICK f : Sums(f, t) /\ word_sum(t) = f[2]
        BY <1>2, WordSums
  <2>2. f[0] = 0 /\ f[1] = f[0] + Part(1, hi) /\ f[2] = f[1] + Part(2, lo)
        BY <1>2, <2>1 DEF Sums
  <2>3. hi \in Nat /\ lo \in Nat
        BY <1>1, ByteRange
  <2>4. Part(1, hi) = 256 * hi /\ Part(2, lo) = lo
        BY DEF Part
  <2> QED
        BY <1>1, <2>1, <2>2, <2>3, <2>4
<1>5. Len(s) % 2 = 0 => word_sum(u) = word_sum(s) + w
      BY <1>2, <1>4, SumConcat
<1>6. u16(u, Len(s)) = w
  <2> HIDE DEF u
  <2>1. at(u, Len(s)) = hi /\ at(u, Len(s) + 1) = lo
        BY <1>3 DEF at
  <2> QED
        BY <1>1, <2>1 DEF u16
<1>7. be16(w) = t
      BY DEF be16, t, hi, lo
<1> QED
    BY <1>3, <1>5, <1>6, <1>7

\* A word is still read after something is written behind it.
LEMMA WordStays ==
    ASSUME NEW s \in Seq(Byte), NEW u \in Seq(Byte), \A i \in 1 .. Len(s) : u[i] = s[i],
           NEW k \in Nat, k + 2 <= Len(s)
    PROVE  u16(u, k) = u16(s, k)
<1>1. k + 1 \in 1 .. Len(s) /\ (k + 1) + 1 \in 1 .. Len(s)
      OBVIOUS
<1> QED
    BY <1>1 DEF u16, at

-----------------------------------------------------------------------------
(* The headers.                                                            *)

\* u starts with s.
Starts(s, u) ==
    s \in Seq(Byte) /\ u \in Seq(Byte) /\ Len(s) <= Len(u) /\ \A i \in 1 .. Len(s) : u[i] = s[i]

\* And with what s starts with.
LEMMA StartsTrans ==
    ASSUME NEW s, NEW t, NEW u, Starts(s, t), Starts(t, u)
    PROVE  Starts(s, u)
<1>1. Len(s) \in Nat /\ Len(t) \in Nat /\ Len(u) \in Nat
      BY DEF Starts
<1> QED
    BY <1>1 DEF Starts

\* A concatenation starts with its first piece.
LEMMA StartsConcat ==
    ASSUME NEW s \in Seq(Byte), NEW t \in Seq(Byte)
    PROVE  Starts(s, s \o t)
BY Concat DEF Starts

\* A word written behind s.
LEMMA StartsWord ==
    ASSUME NEW s \in Seq(Byte), NEW w \in Word, NEW n \in Nat, Len(s) = n
    PROVE  /\ Starts(s, s \o be16(w)) /\ Len(s \o be16(w)) = n + 2
           /\ s \o be16(w) \in Seq(Byte) /\ u16(s \o be16(w), n) = w
<1> DEFINE u == s \o be16(w)
<1>1. /\ u \in Seq(Byte) /\ Len(u) = Len(s) + 2
      /\ \A i \in 1 .. Len(s) : u[i] = s[i]
      /\ u16(u, Len(s)) = w
      BY WordAtEnd
<1> HIDE DEF u
<1>2. Starts(s, u) /\ Len(u) = n + 2 /\ u16(u, n) = w
      BY <1>1 DEF Starts
<1> QED
    BY <1>1, <1>2 DEF u

\* A pair of bytes written behind s.
LEMMA StartsPair ==
    ASSUME NEW s \in Seq(Byte), NEW a \in Byte, NEW b \in Byte, NEW n \in Nat, Len(s) = n
    PROVE  /\ Starts(s, s \o <<a, b>>) /\ Len(s \o <<a, b>>) = n + 2
           /\ s \o <<a, b>> \in Seq(Byte)
           /\ (s \o <<a, b>>)[n + 1] = a /\ (s \o <<a, b>>)[n + 2] = b
BY DEF Starts

\* A word of the start.
LEMMA StartWord ==
    ASSUME NEW s, NEW u, Starts(s, u), NEW k \in Nat, k + 2 <= Len(s)
    PROVE  u16(u, k) = u16(s, k)
BY WordStays DEF Starts

\* The TCP header before the checksum, and the whole of it.
TcpStart(seg, b) ==
    be16(seg.src_port) \o be16(seg.dst_port) \o be32(seg.seq) \o be32(seg.ack_num)
    \o <<b, to_byte(seg.flags)>> \o be16(seg.window)

TcpHeader(seg, b, c) == TcpStart(seg, b) \o be16(c) \o <<0, 0>>

\* Flags are read back as they were written.
LEMMA FlagsRoundTrip ==
    ASSUME NEW F \in SUBSET TcpFlags
    PROVE  to_byte(F) \in Byte /\ from_byte(to_byte(F)) = F
<1>1. to_byte(F) \in Nat /\ to_byte(F) <= 255
      BY DEF TcpFlags, Weight, to_byte
<1>2. from_byte(to_byte(F)) = F
      BY DEF TcpFlags, Weight, from_byte, to_byte
<1> QED
    BY <1>1, <1>2, ByteRange

\* Two words written behind s.
LEMMA StartsWords ==
    ASSUME NEW s \in Seq(Byte), NEW w \in Word \X Word, NEW n \in Nat, Len(s) = n
    PROVE  /\ Starts(s, s \o be32(w)) /\ Len(s \o be32(w)) = n + 4
           /\ s \o be32(w) \in Seq(Byte) /\ u32(s \o be32(w), n) = w
<1> DEFINE t == s \o be16(w[1])
           u == t \o be16(w[2])
<1>1. w[1] \in Word /\ w[2] \in Word /\ w = <<w[1], w[2]>>
      OBVIOUS
<1>2. be16(w[1]) \in Seq(Byte) /\ be16(w[2]) \in Seq(Byte)
      BY <1>1, Halves DEF be16
<1>3. s \o be32(w) = u
      BY <1>2, ConcatAssoc DEF be32
<1>4. Starts(s, t) /\ Len(t) = n + 2 /\ t \in Seq(Byte) /\ u16(t, n) = w[1]
      BY <1>1, StartsWord
<1> HIDE DEF t
<1>5. Starts(t, u) /\ Len(u) = (n + 2) + 2 /\ u \in Seq(Byte) /\ u16(u, n + 2) = w[2]
  <2>1. n + 2 \in Nat
        OBVIOUS
  <2> QED
      BY <1>1, <1>4, <2>1, StartsWord
<1> HIDE DEF u
<1>6. u16(u, n) = w[1]
      BY <1>4, <1>5, StartWord
<1>7. Starts(s, u)
      BY <1>4, <1>5, StartsTrans
<1>8. u32(u, n) = w
      BY <1>1, <1>5, <1>6 DEF u32
<1>9. Len(u) = n + 4
      BY <1>5
<1> QED
    BY <1>3, <1>5, <1>7, <1>8, <1>9

\* The fields of the TCP header at their places.
LEMMA TcpStartFields ==
    ASSUME NEW seg \in Segment, NEW b \in Byte
    PROVE  LET s == TcpStart(seg, b)
           IN  /\ s \in Seq(Byte) /\ Len(s) = 16
               /\ u16(s, 0) = seg.src_port /\ u16(s, 2) = seg.dst_port
               /\ u32(s, 4) = seg.seq /\ u32(s, 8) = seg.ack_num
               /\ s[13] = b /\ s[14] = to_byte(seg.flags) /\ u16(s, 14) = seg.window
<1> DEFINE e == <<>>
           sp == seg.src_port
           dp == seg.dst_port
           sn == seg.seq
           an == seg.ack_num
           wn == seg.window
           f == to_byte(seg.flags)
           p1 == be16(sp)
           p2 == p1 \o be16(dp)
           p3 == p2 \o be32(sn)
           p4 == p3 \o be32(an)
           p5 == p4 \o <<b, f>>
           p6 == p5 \o be16(wn)
<1>0. /\ sp \in Word /\ dp \in Word /\ wn \in Word
      /\ sn \in Word \X Word /\ an \in Word \X Word /\ f \in Byte
      BY FlagsRoundTrip DEF Segment
<1> HIDE DEF sp, dp, sn, an, wn, f
<1>n. 0 \in Nat /\ 2 \in Nat /\ 4 \in Nat /\ 8 \in Nat /\ 12 \in Nat /\ 14 \in Nat
      OBVIOUS
<1>1. p1 \in Seq(Byte) /\ Len(p1) = 2 /\ u16(p1, 0) = sp
  <2>1. p1 \in Seq(Byte)
        BY <1>0, Halves DEF be16
  <2> HIDE DEF p1
  <2>2. e \o p1 = p1 /\ e \in Seq(Byte) /\ Len(e) = 0
        BY <2>1
  <2> HIDE DEF e
  <2>3. Len(e \o p1) = 0 + 2 /\ u16(e \o p1, 0) = sp
        BY <1>0, <1>n, <2>2, StartsWord, Zenon DEF p1
  <2> QED
        BY <2>1, <2>2, <2>3
<1> HIDE DEF p1
<1>2. Starts(p1, p2) /\ p2 \in Seq(Byte) /\ Len(p2) = 4 /\ u16(p2, 2) = dp
  <2>1. Starts(p1, p2) /\ p2 \in Seq(Byte) /\ Len(p2) = 2 + 2 /\ u16(p2, 2) = dp
        BY <1>0, <1>1, <1>n, StartsWord, Zenon
  <2> QED
        BY <2>1
<1> HIDE DEF p2
<1>3. Starts(p2, p3) /\ p3 \in Seq(Byte) /\ Len(p3) = 8 /\ u32(p3, 4) = sn
  <2>1. Starts(p2, p3) /\ p3 \in Seq(Byte) /\ Len(p3) = 4 + 4 /\ u32(p3, 4) = sn
        BY <1>0, <1>2, <1>n, StartsWords, Zenon
  <2> QED
        BY <2>1
<1> HIDE DEF p3
<1>4. Starts(p3, p4) /\ p4 \in Seq(Byte) /\ Len(p4) = 12 /\ u32(p4, 8) = an
  <2>1. Starts(p3, p4) /\ p4 \in Seq(Byte) /\ Len(p4) = 8 + 4 /\ u32(p4, 8) = an
        BY <1>0, <1>3, <1>n, StartsWords, Zenon
  <2> QED
        BY <2>1
<1> HIDE DEF p4
<1>5. Starts(p4, p5) /\ p5 \in Seq(Byte) /\ Len(p5) = 14 /\ p5[13] = b /\ p5[14] = f
  <2> DEFINE n == 12
  <2>1. n \in Nat /\ Len(p4) = n /\ p4 \in Seq(Byte) /\ b \in Byte /\ f \in Byte
        BY <1>0, <1>4
  <2> HIDE DEF n
  <2>2. Starts(p4, p5) /\ p5 \in Seq(Byte) /\ Len(p5) = n + 2 /\ p5[n + 1] = b /\ p5[n + 2] = f
        BY <2>1, StartsPair
  <2> QED
        BY <2>2 DEF n
<1> HIDE DEF p5
<1>6. Starts(p5, p6) /\ p6 \in Seq(Byte) /\ Len(p6) = 16 /\ u16(p6, 14) = wn
  <2>1. Starts(p5, p6) /\ p6 \in Seq(Byte) /\ Len(p6) = 14 + 2 /\ u16(p6, 14) = wn
        BY <1>0, <1>5, <1>n, StartsWord, Zenon
  <2> QED
        BY <2>1
<1> HIDE DEF p6
<1>7. Starts(p4, p6) /\ Starts(p3, p6) /\ Starts(p2, p6) /\ Starts(p1, p6)
      BY <1>2, <1>3, <1>4, <1>5, <1>6, StartsTrans
<1>8. u16(p6, 0) = sp /\ u16(p6, 2) = dp
  <2>1. 0 + 2 <= Len(p1) /\ 2 + 2 <= Len(p2)
        BY <1>1, <1>2
  <2> QED
        BY <1>1, <1>2, <1>7, <1>n, <2>1, StartWord, Zenon
<1>9. u32(p6, 4) = sn /\ u32(p6, 8) = an
  <2>0. /\ 4 + 2 <= Len(p3) /\ (4 + 2) + 2 <= Len(p3) /\ 4 + 2 \in Nat
        /\ 8 + 2 <= Len(p4) /\ (8 + 2) + 2 <= Len(p4) /\ 8 + 2 \in Nat
        BY <1>3, <1>4
  <2>1. u16(p6, 4) = u16(p3, 4) /\ u16(p6, 4 + 2) = u16(p3, 4 + 2)
        BY <1>7, <1>n, <2>0, StartWord, Zenon
  <2>2. u16(p6, 8) = u16(p4, 8) /\ u16(p6, 8 + 2) = u16(p4, 8 + 2)
        BY <1>7, <1>n, <2>0, StartWord, Zenon
  <2> QED
        BY <1>3, <1>4, <2>1, <2>2 DEF u32
<1>10. p6[13] = b /\ p6[14] = f
      BY <1>5, <1>6 DEF Starts
<1>11. TcpStart(seg, b) = p6
      BY DEF TcpStart, p1, p2, p3, p4, p5, p6, f, sp, dp, sn, an, wn
<1> QED
    BY <1>6, <1>8, <1>9, <1>10, <1>11 DEF f, sp, dp, sn, an, wn

\* The sum of a header with its payload is that of the header without its
\* checksum, and the checksum.
LEMMA TcpSum ==
    ASSUME NEW seg \in Segment, NEW b \in Byte, NEW c \in Word, NEW r \in Seq(Byte)
    PROVE  LET t == TcpHeader(seg, b, c) \o r
               s == TcpHeader(seg, b, 0) \o r
           IN  /\ t \in Seq(Byte) /\ Len(t) = 20 + Len(r) /\ s \in Seq(Byte) /\ Len(s) = Len(t)
               /\ TcpHeader(seg, b, c) \in Seq(Byte) /\ Len(TcpHeader(seg, b, c)) = 20
               /\ Starts(TcpStart(seg, b), t)
               /\ word_sum(t) = word_sum(s) + c /\ word_sum(s) \in Nat
<1> DEFINE p == TcpStart(seg, b)
           z == <<0, 0>>
           q(x) == p \o be16(x)
           h(x) == q(x) \o z
<1>1. p \in Seq(Byte) /\ Len(p) = 16
      BY TcpStartFields
<1>2. z \in Seq(Byte) /\ Len(z) = 2 /\ 0 \in Word /\ Len(r) \in Nat
  <2>1. 0 \in Byte
        BY ByteRange
  <2> QED
        BY <2>1 DEF Word
<1> HIDE DEF p, z
<1>3. ASSUME NEW x \in Word
      PROVE  /\ h(x) \in Seq(Byte) /\ Len(h(x)) = 20 /\ Starts(p, h(x) \o r)
             /\ h(x) \o r \in Seq(Byte) /\ Len(h(x) \o r) = 20 + Len(r)
             /\ word_sum(h(x) \o r) = ((word_sum(p) + x) + word_sum(z)) + word_sum(r)
  <2> DEFINE u == q(x)
             v == u \o z
  <2>1. Starts(p, u) /\ u \in Seq(Byte) /\ Len(u) = 18 /\ word_sum(u) = word_sum(p) + x
    <3>1. u \in Seq(Byte) /\ Len(u) = Len(p) + 2 /\ \A i \in 1 .. Len(p) : u[i] = p[i]
          BY <1>1, WordAtEnd
    <3>2. Len(p) % 2 = 0 => word_sum(u) = word_sum(p) + x
          BY <1>1, WordAtEnd
    <3> HIDE DEF u, q
    <3>3. Len(p) % 2 = 0
          BY <1>1
    <3> QED
          BY <1>1, <3>1, <3>2, <3>3 DEF Starts
  <2> HIDE DEF q, u
  <2>2. Starts(u, v) /\ v \in Seq(Byte) /\ Len(v) = 20 /\ word_sum(v) = word_sum(u) + word_sum(z)
    <3>1. Len(v) = Len(u) + Len(z) /\ v \in Seq(Byte) /\ Starts(u, v)
          BY <1>2, <2>1, Concat, StartsConcat
    <3>2. Len(u) % 2 = 0
          BY <2>1
    <3>3. word_sum(v) = word_sum(u) + word_sum(z)
          BY <1>2, <2>1, <3>2, SumConcat
    <3> HIDE DEF v
    <3> QED
          BY <1>2, <2>1, <3>1, <3>3
  <2> HIDE DEF v
  <2>3. /\ Starts(v, v \o r) /\ v \o r \in Seq(Byte) /\ Len(v \o r) = 20 + Len(r)
        /\ word_sum(v \o r) = word_sum(v) + word_sum(r)
    <3>1. Len(v \o r) = Len(v) + Len(r) /\ v \o r \in Seq(Byte) /\ Starts(v, v \o r)
          BY <2>2, Concat, StartsConcat
    <3>2. Len(v) % 2 = 0
          BY <2>2
    <3> QED
          BY <2>2, <3>1, <3>2, SumConcat
  <2>4. Starts(p, v \o r)
        BY <2>1, <2>2, <2>3, StartsTrans
  <2>5. v = h(x)
        BY DEF u, v
  <2> HIDE DEF h
  <2> QED
        BY <2>1, <2>2, <2>3, <2>4, <2>5
<1>4. \A x : TcpHeader(seg, b, x) = h(x)
      BY DEF TcpHeader, p, z
<1> DEFINE wp == word_sum(p)
           wz == word_sum(z)
           wr == word_sum(r)
<1>5. wp \in Nat /\ wz \in Nat /\ wr \in Nat /\ c \in Nat
      BY <1>1, <1>2, SumType DEF Word
<1> HIDE DEF h
<1>6. /\ word_sum(h(c) \o r) = ((wp + c) + wz) + wr
      /\ word_sum(h(0) \o r) = ((wp + 0) + wz) + wr
      BY <1>2, <1>3
<1> HIDE DEF wp, wz, wr
<1>7. ((wp + c) + wz) + wr = (((wp + 0) + wz) + wr) + c /\ ((wp + 0) + wz) + wr \in Nat
      BY <1>5
<1>8. word_sum(h(c) \o r) = word_sum(h(0) \o r) + c /\ word_sum(h(0) \o r) \in Nat
      BY <1>6, <1>7
<1>9. /\ h(c) \in Seq(Byte) /\ Len(h(c)) = 20 /\ Starts(p, h(c) \o r)
      /\ h(c) \o r \in Seq(Byte) /\ Len(h(c) \o r) = 20 + Len(r)
      /\ h(0) \o r \in Seq(Byte) /\ Len(h(0) \o r) = 20 + Len(r)
      BY <1>2, <1>3
<1> QED
    BY <1>4, <1>8, <1>9 DEF p

Address == {a \in Seq(Byte) : Len(a) = 4}

\* What the addresses add to a TCP checksum.
Pseudo(src, dst) == u16(src, 0) + u16(src, 2) + u16(dst, 0) + u16(dst, 2) + PROTO_TCP

\* A positive number.
LEMMA PseudoType ==
    ASSUME NEW src \in Address, NEW dst \in Address
    PROVE  Pseudo(src, dst) \in Nat /\ Pseudo(src, dst) > 0
<1>1. ASSUME NEW a \in Address PROVE u16(a, 0) \in Nat /\ u16(a, 2) \in Nat
  <2>1. a[1] \in Byte /\ a[2] \in Byte /\ a[3] \in Byte /\ a[4] \in Byte
        BY DEF Address
  <2>2. a[1] \in Nat /\ a[2] \in Nat /\ a[3] \in Nat /\ a[4] \in Nat
        BY <2>1, ByteRange
  <2> QED
        BY <2>2 DEF u16, at
<1> QED
    BY <1>1 DEF Pseudo, PROTO_TCP

\* A segment passes the checksum that was computed for it.
LEMMA TcpChecksum ==
    ASSUME NEW seg \in Segment, NEW b \in Byte, NEW r \in Seq(Byte),
           NEW src \in Address, NEW dst \in Address
    PROVE  LET c == tcp_checksum(TcpHeader(seg, b, 0) \o r, src, dst)
           IN  c \in Word /\ tcp_checksum(TcpHeader(seg, b, c) \o r, src, dst) = 0
<1> DEFINE s == TcpHeader(seg, b, 0) \o r
           c == tcp_checksum(s, src, dst)
           t == TcpHeader(seg, b, c) \o r
           x == Pseudo(src, dst) + Len(s) + word_sum(s)
<1>1. Pseudo(src, dst) \in Nat
      BY PseudoType
<1>2. s \in Seq(Byte) /\ Len(s) \in Nat /\ word_sum(s) \in Nat
  <2>1. 0 \in Word
        BY DEF Word
  <2>2. s \in Seq(Byte) /\ word_sum(s) \in Nat
        BY <2>1, TcpSum
  <2> QED
        BY <2>2
<1>3. x \in Nat
      BY <1>1, <1>2
<1>4. c = complement(x)
      BY DEF tcp_checksum, Pseudo
<1> HIDE DEF s, c, x
<1>5. c \in Word
      BY <1>3, <1>4, ComplementValue
<1>6. Len(t) = Len(s) /\ word_sum(t) = word_sum(s) + c
      BY <1>5, TcpSum DEF s
<1>7. tcp_checksum(t, src, dst) = complement(Pseudo(src, dst) + Len(t) + word_sum(t))
      BY DEF tcp_checksum, Pseudo
<1>8. Pseudo(src, dst) + Len(t) + word_sum(t) = x + c
  <2> DEFINE k == Pseudo(src, dst)
             m == Len(s)
             w == word_sum(s)
  <2>1. k \in Nat /\ m \in Nat /\ w \in Nat /\ c \in Nat
        BY <1>1, <1>2, <1>5 DEF Word
  <2>2. x = k + m + w
        BY DEF x
  <2>3. Pseudo(src, dst) + Len(t) + word_sum(t) = k + m + (w + c)
        BY <1>6
  <2> HIDE DEF k, m, w
  <2> QED
        BY <2>1, <2>2, <2>3
<1>9. complement(x + c) = 0
      BY <1>3, <1>4, ComplementCompletes
<1> QED
    BY <1>5, <1>7, <1>8, <1>9 DEF s, c

\* TcpSegment::parse tests the lengths before it indexes what they admit.
LEMMA SegmentValue ==
    ASSUME NEW t \in Seq(Byte), NEW src, NEW dst
    PROVE  LET d == t[13] \div 16
           IN  segment_parse(t, src, dst) =
                   IF Len(t) < 20 THEN Err("TcpHeaderTooShort")
                   ELSE IF d < 5 THEN Err("TcpDataOffsetTooSmall")
                   ELSE IF Len(t) < 4 * d THEN Err("TcpHeaderTooShort")
                   ELSE IF tcp_checksum(t, src, dst) # 0 THEN Err("TcpChecksumMismatch")
                   ELSE [err |-> "none",
                         seg |-> [src_port |-> u16(t, 0), dst_port |-> u16(t, 2),
                                  seq |-> u32(t, 4), ack_num |-> u32(t, 8),
                                  flags |-> from_byte(t[14]), window |-> u16(t, 14),
                                  payload |-> from(t, 4 * d)]]
<1> DEFINE n == Len(t)
           d == t[13] \div 16
           c == tcp_checksum(t, src, dst)
           r == [err |-> "none",
                 seg |-> [src_port |-> u16(t, 0), dst_port |-> u16(t, 2),
                          seq |-> u32(t, 4), ack_num |-> u32(t, 8),
                          flags |-> from_byte(t[14]), window |-> u16(t, 14),
                          payload |-> from(t, 4 * d)]]
<1>1. n \in Nat /\ (n >= 20 => t[13] \in Nat)
  <2>1. n \in Nat /\ (n >= 20 => t[13] \in Byte)
        OBVIOUS
  <2> QED
        BY <2>1, ByteRange
<1>2. n >= 20 => d \in Nat
      BY <1>1
<1>3. segment_parse(t, src, dst) =
          IF n < 20 THEN Err("TcpHeaderTooShort")
          ELSE reads(t, 0, 20,
               IF d < 5 THEN Err("TcpDataOffsetTooSmall")
               ELSE IF n < 4 * d THEN Err("TcpHeaderTooShort")
               ELSE IF c # 0 THEN Err("TcpChecksumMismatch")
               ELSE reads(t, 4 * d, n, r))
      BY DEF segment_parse, TCP_MIN_HEADER_LEN, at
<1>4. ~ (n < 20) => 0 <= 20 /\ 20 <= n
      BY <1>1
<1>5. ~ (n < 20) /\ ~ (n < 4 * d) => 4 * d <= n /\ n <= n
      BY <1>1, <1>2
<1>6. ~ (n < 20) => \A x : reads(t, 0, 20, x) = x
      BY <1>4 DEF reads
<1>7. ~ (n < 20) /\ ~ (n < 4 * d) => reads(t, 4 * d, n, r) = r
      BY <1>5 DEF reads
<1> HIDE DEF n, d, c, r
<1>8. segment_parse(t, src, dst) =
          IF n < 20 THEN Err("TcpHeaderTooShort")
          ELSE IF d < 5 THEN Err("TcpDataOffsetTooSmall")
          ELSE IF n < 4 * d THEN Err("TcpHeaderTooShort")
          ELSE IF c # 0 THEN Err("TcpChecksumMismatch") ELSE r
      BY <1>3, <1>6, <1>7
<1> QED
    BY <1>8 DEF n, d, c, r

\* So it never panics.
LEMMA SegmentInRange ==
    ASSUME NEW t \in Seq(Byte), NEW src, NEW dst
    PROVE  segment_parse(t, src, dst).err # "panic"
<1> DEFINE p == segment_parse(t, src, dst)
<1>1. \/ p = Err("TcpHeaderTooShort") \/ p = Err("TcpDataOffsetTooSmall")
      \/ p = Err("TcpChecksumMismatch") \/ \E x : p = [err |-> "none", seg |-> x]
      BY SegmentValue, Zenon
<1> HIDE DEF p
<1>2. p.err # "panic"
      BY <1>1 DEF Err
<1> QED
    BY <1>2 DEF p

\* What the parser has tested when it accepts a segment.
LEMMA SegmentAccepted ==
    ASSUME NEW t \in Seq(Byte), NEW src, NEW dst,
           segment_parse(t, src, dst).err = "none"
    PROVE  /\ Len(t) >= 20 /\ t[13] \div 16 >= 5 /\ 4 * (t[13] \div 16) <= Len(t)
           /\ tcp_checksum(t, src, dst) = 0
<1> DEFINE d == t[13] \div 16
           c == tcp_checksum(t, src, dst)
<1>1. Len(t) \in Nat /\ (Len(t) >= 20 => t[13] \in Nat)
  <2>1. Len(t) \in Nat /\ (Len(t) >= 20 => t[13] \in Byte)
        OBVIOUS
  <2> QED
        BY <2>1, ByteRange
<1>2. Len(t) >= 20 => d \in Nat
      BY <1>1
<1>3. segment_parse(t, src, dst) =
          IF Len(t) < 20 THEN Err("TcpHeaderTooShort")
          ELSE IF d < 5 THEN Err("TcpDataOffsetTooSmall")
          ELSE IF Len(t) < 4 * d THEN Err("TcpHeaderTooShort")
          ELSE IF c # 0 THEN Err("TcpChecksumMismatch")
          ELSE [err |-> "none",
                seg |-> [src_port |-> u16(t, 0), dst_port |-> u16(t, 2),
                         seq |-> u32(t, 4), ack_num |-> u32(t, 8),
                         flags |-> from_byte(t[14]), window |-> u16(t, 14),
                         payload |-> from(t, 4 * d)]]
      BY SegmentValue
<1> HIDE DEF d, c
<1>4. /\ Err("TcpHeaderTooShort").err # "none" /\ Err("TcpDataOffsetTooSmall").err # "none"
      /\ Err("TcpChecksumMismatch").err # "none"
      BY DEF Err
<1>5. ~ (Len(t) < 20) /\ ~ (d < 5) /\ ~ (Len(t) < 4 * d) /\ c = 0
      BY <1>3, <1>4
<1> QED
    BY <1>1, <1>2, <1>5 DEF d, c

\* o is n words of options, of the ten a header can have.
OptionWords(o, n) == o \in Seq(Byte) /\ n \in 0 .. 10 /\ Len(o) = 4 * n

\* A segment with n words of options is read back as it was built.
LEMMA SegmentRoundTrip ==
    ASSUME NEW seg \in Segment, NEW o, NEW n, OptionWords(o, n),
           NEW src \in Address, NEW dst \in Address, NEW b \in Byte, b = 16 * (5 + n)
    PROVE  LET r == o \o seg.payload
               c == tcp_checksum(TcpHeader(seg, b, 0) \o r, src, dst)
               t == TcpHeader(seg, b, c) \o r
           IN  segment_parse(t, src, dst) = [err |-> "none", seg |-> seg]
<1> DEFINE pl == seg.payload
           r == o \o pl
           c == tcp_checksum(TcpHeader(seg, b, 0) \o r, src, dst)
           h == TcpHeader(seg, b, c)
           t == h \o r
           p == TcpStart(seg, b)
           m == 4 * (5 + n)
<1>0. n \in 0 .. 10 /\ o \in Seq(Byte) /\ Len(o) = 4 * n
      BY DEF OptionWords
<1>1. /\ pl \in Seq(Byte) /\ seg.flags \in SUBSET TcpFlags
      /\ seg = [src_port |-> seg.src_port, dst_port |-> seg.dst_port, seq |-> seg.seq,
                ack_num |-> seg.ack_num, flags |-> seg.flags, window |-> seg.window,
                payload |-> pl]
      BY DEF Segment
<1> HIDE DEF pl
<1>2. r \in Seq(Byte) /\ Len(r) = 4 * n + Len(pl) /\ Len(pl) \in Nat
      BY <1>0, <1>1, Concat
<1> HIDE DEF r
<1>3. c \in Word /\ tcp_checksum(t, src, dst) = 0
      BY <1>2, TcpChecksum
<1> HIDE DEF c
<1>4. /\ t \in Seq(Byte) /\ Len(t) = 20 + Len(r) /\ Starts(p, t)
      /\ h \in Seq(Byte) /\ Len(h) = 20
  <2>1. h \o r \in Seq(Byte) /\ Len(h \o r) = 20 + Len(r) /\ Starts(p, h \o r)
        BY <1>2, <1>3, TcpSum
  <2>2. h \in Seq(Byte) /\ Len(h) = 20
        BY <1>2, <1>3, TcpSum
  <2> HIDE DEF h, p
  <2> QED
        BY <2>1, <2>2
<1> HIDE DEF h
<1>5. from(t, m) = pl
  <2>1. h \o o \in Seq(Byte) /\ Len(h \o o) = 20 + 4 * n
        BY <1>0, <1>4, Concat
  <2>2. t = (h \o o) \o pl
        BY <1>0, <1>1, <1>4, ConcatAssoc DEF r
  <2> DEFINE g == h \o o
  <2>3. g \in Seq(Byte) /\ Len(g) = m /\ t = g \o pl
        BY <1>0, <2>1, <2>2
  <2> HIDE DEF g, t, m
  <2> QED
        BY <1>1, <2>3, FromConcat
<1> HIDE DEF t, p
<1>6. /\ p \in Seq(Byte) /\ Len(p) = 16
      /\ u16(p, 0) = seg.src_port /\ u16(p, 2) = seg.dst_port
      /\ u32(p, 4) = seg.seq /\ u32(p, 8) = seg.ack_num
      /\ p[13] = b /\ p[14] = to_byte(seg.flags) /\ u16(p, 14) = seg.window
      BY TcpStartFields DEF p
<1>7. /\ u16(t, 0) = u16(p, 0) /\ u16(t, 2) = u16(p, 2) /\ u16(t, 14) = u16(p, 14)
      /\ u16(t, 4) = u16(p, 4) /\ u16(t, 4 + 2) = u16(p, 4 + 2)
      /\ u16(t, 8) = u16(p, 8) /\ u16(t, 8 + 2) = u16(p, 8 + 2)
  <2>1. /\ 0 \in Nat /\ 2 \in Nat /\ 4 \in Nat /\ 4 + 2 \in Nat /\ 8 \in Nat /\ 8 + 2 \in Nat /\ 14 \in Nat
        /\ 0 + 2 <= Len(p) /\ 2 + 2 <= Len(p) /\ 4 + 2 <= Len(p) /\ (4 + 2) + 2 <= Len(p)
        /\ 8 + 2 <= Len(p) /\ (8 + 2) + 2 <= Len(p) /\ 14 + 2 <= Len(p)
        BY <1>6
  <2> QED
        BY <1>4, <2>1, StartWord, Zenon
<1>8. t[13] = b /\ t[14] = to_byte(seg.flags)
      BY <1>4, <1>6 DEF Starts
<1>9. u32(t, 4) = seg.seq /\ u32(t, 8) = seg.ack_num
      BY <1>6, <1>7 DEF u32
<1>10. from_byte(t[14]) = seg.flags
      BY <1>1, <1>8, FlagsRoundTrip
<1>11. t[13] \div 16 = 5 + n
      BY <1>0, <1>8
<1> DEFINE d == t[13] \div 16
           cc == tcp_checksum(t, src, dst)
<1>12. segment_parse(t, src, dst) =
          IF Len(t) < 20 THEN Err("TcpHeaderTooShort")
          ELSE IF d < 5 THEN Err("TcpDataOffsetTooSmall")
          ELSE IF Len(t) < 4 * d THEN Err("TcpHeaderTooShort")
          ELSE IF cc # 0 THEN Err("TcpChecksumMismatch")
          ELSE [err |-> "none",
                seg |-> [src_port |-> u16(t, 0), dst_port |-> u16(t, 2),
                         seq |-> u32(t, 4), ack_num |-> u32(t, 8),
                         flags |-> from_byte(t[14]), window |-> u16(t, 14),
                         payload |-> from(t, 4 * d)]]
      BY <1>4, SegmentValue
<1>13. ~ (Len(t) < 20) /\ ~ (d < 5) /\ ~ (Len(t) < 4 * d) /\ cc = 0 /\ 4 * d = m
      BY <1>0, <1>2, <1>3, <1>4, <1>11
<1> HIDE DEF d, cc, m
<1>14. segment_parse(t, src, dst) =
          [err |-> "none",
                seg |-> [src_port |-> seg.src_port, dst_port |-> seg.dst_port,
                         seq |-> seg.seq, ack_num |-> seg.ack_num,
                         flags |-> seg.flags, window |-> seg.window,
                         payload |-> pl]]
      BY <1>5, <1>6, <1>7, <1>9, <1>10, <1>12, <1>13
<1>15. segment_parse(t, src, dst) = [err |-> "none", seg |-> seg]
      BY <1>1, <1>14
<1> QED
    BY <1>15 DEF t, h, c, r, pl

\* The IPv4 header before the checksum, and the whole of it without options.
IpStart(v, total, x, y, p) == <<v, 0>> \o be16(total) \o <<x, y, 64, 0, 64, p>>

IpHeader(v, total, x, y, p, c, src, dst) == IpStart(v, total, x, y, p) \o be16(c) \o src \o dst

\* The fields of the IPv4 header at their places.
LEMMA IpStartFields ==
    ASSUME NEW v \in Byte, NEW total \in Word, NEW x \in Byte, NEW y \in Byte, NEW p \in Byte
    PROVE  LET s == IpStart(v, total, x, y, p)
           IN  s \in Seq(Byte) /\ Len(s) = 10 /\ s[1] = v /\ u16(s, 2) = total /\ s[10] = p
<1> DEFINE a == <<v, 0>>
           b == a \o be16(total)
           t == <<x, y, 64, 0, 64, p>>
           s == b \o t
<1>0. 0 \in Byte /\ 64 \in Byte /\ 2 \in Nat
      BY ByteRange
<1>1. a \in Seq(Byte) /\ Len(a) = 2 /\ a[1] = v
      BY <1>0
<1>2. t \in Seq(Byte) /\ Len(t) = 6 /\ t[6] = p
      BY <1>0
<1> HIDE DEF a, t
<1>3. Starts(a, b) /\ b \in Seq(Byte) /\ Len(b) = 2 + 2 /\ u16(b, 2) = total
      BY <1>0, <1>1, StartsWord, Zenon
<1> HIDE DEF b
<1>4. s \in Seq(Byte) /\ Len(s) = Len(b) + Len(t) /\ Starts(b, s) /\ s[Len(b) + 6] = t[6]
  <2>1. s \in Seq(Byte) /\ Len(s) = Len(b) + Len(t) /\ Starts(b, s)
        BY <1>2, <1>3, Concat, StartsConcat
  <2>2. \A i \in 1 .. Len(t) : s[Len(b) + i] = t[i]
        BY <1>2, <1>3, Concat
  <2> HIDE DEF s
  <2>3. 6 \in 1 .. Len(t)
        BY <1>2
  <2>4. s[Len(b) + 6] = t[6]
        BY <2>2, <2>3, Zenon
  <2> QED
        BY <2>1, <2>4
<1> HIDE DEF s
<1>5. Len(b) = 4
      BY <1>3
<1>6. u16(s, 2) = u16(b, 2)
  <2>1. 2 + 2 <= Len(b)
        BY <1>5
  <2> QED
        BY <1>0, <1>4, <2>1, StartWord, Zenon
<1>7. s[1] = v
      BY <1>1, <1>3, <1>4 DEF Starts
<1>8. Len(s) = 10 /\ s[10] = p
      BY <1>2, <1>4, <1>5
<1>9. IpStart(v, total, x, y, p) = s
      BY DEF IpStart, s, b, a, t
<1> QED
    BY <1>3, <1>4, <1>6, <1>7, <1>8, <1>9

\* The addresses at theirs, and the sum, to which the checksum adds itself.
LEMMA IpHeaderFields ==
    ASSUME NEW v \in Byte, NEW total \in Word, NEW x \in Byte, NEW y \in Byte, NEW p \in Byte,
           NEW c \in Word, NEW src \in Address, NEW dst \in Address
    PROVE  LET h == IpHeader(v, total, x, y, p, c, src, dst)
               z == IpHeader(v, total, x, y, p, 0, src, dst)
           IN  /\ h \in Seq(Byte) /\ Len(h) = 20 /\ z \in Seq(Byte) /\ Len(z) = 20
               /\ h[1] = v /\ u16(h, 2) = total /\ h[10] = p
               /\ slice(h, 12, 16) = src /\ slice(h, 16, 20) = dst
               /\ word_sum(h) = word_sum(z) + c /\ word_sum(z) \in Nat
<1> DEFINE s == IpStart(v, total, x, y, p)
           q(w) == s \o be16(w)
           g(w) == q(w) \o src
           h(w) == g(w) \o dst
<1>1. s \in Seq(Byte) /\ Len(s) = 10 /\ s[1] = v /\ u16(s, 2) = total /\ s[10] = p
      BY IpStartFields
<1>2. src \in Seq(Byte) /\ Len(src) = 4 /\ dst \in Seq(Byte) /\ Len(dst) = 4
      BY DEF Address
<1> HIDE DEF s
<1>3. ASSUME NEW w \in Word
      PROVE  /\ h(w) \in Seq(Byte) /\ Len(h(w)) = 20
             /\ h(w)[1] = v /\ u16(h(w), 2) = total /\ h(w)[10] = p
             /\ slice(h(w), 12, 16) = src /\ slice(h(w), 16, 20) = dst
             /\ word_sum(h(w)) = ((word_sum(s) + w) + word_sum(src)) + word_sum(dst)
  <2> DEFINE e == q(w)
             f == e \o src
             k == f \o dst
  <2>1. Starts(s, e) /\ e \in Seq(Byte) /\ Len(e) = 12 /\ word_sum(e) = word_sum(s) + w
    <3>1. e \in Seq(Byte) /\ Len(e) = Len(s) + 2 /\ \A i \in 1 .. Len(s) : e[i] = s[i]
          BY <1>1, WordAtEnd
    <3>2. Len(s) % 2 = 0 => word_sum(e) = word_sum(s) + w
          BY <1>1, WordAtEnd
    <3> HIDE DEF e, q
    <3>3. Len(s) % 2 = 0
          BY <1>1
    <3> QED
          BY <1>1, <3>1, <3>2, <3>3 DEF Starts
  <2> HIDE DEF q, e
  <2>2. /\ Starts(e, f) /\ f \in Seq(Byte) /\ Len(f) = 16 /\ slice(f, 12, 16) = src
        /\ word_sum(f) = word_sum(e) + word_sum(src)
    <3>1. Len(f) = Len(e) + Len(src) /\ f \in Seq(Byte) /\ Starts(e, f)
          BY <1>2, <2>1, Concat, StartsConcat
    <3>2. Len(e) % 2 = 0
          BY <2>1
    <3>3. word_sum(f) = word_sum(e) + word_sum(src)
          BY <1>2, <2>1, <3>2, SumConcat
    <3>4. slice(f, Len(e), Len(e) + Len(src)) = src
          BY <1>2, <2>1, SliceSecond
    <3> HIDE DEF f
    <3>5. Len(e) = 12 /\ Len(e) + Len(src) = 16
          BY <1>2, <2>1
    <3>6. slice(f, 12, 16) = src
          BY <3>4, <3>5
    <3> QED
          BY <1>2, <2>1, <3>1, <3>3, <3>6
  <2> HIDE DEF f
  <2>3. /\ Starts(f, k) /\ k \in Seq(Byte) /\ Len(k) = 20
        /\ slice(k, 12, 16) = slice(f, 12, 16) /\ slice(k, 16, 20) = dst
        /\ word_sum(k) = word_sum(f) + word_sum(dst)
    <3>1. Len(k) = Len(f) + Len(dst) /\ k \in Seq(Byte) /\ Starts(f, k)
          BY <1>2, <2>2, Concat, StartsConcat
    <3>2. Len(f) % 2 = 0
          BY <2>2
    <3>3. word_sum(k) = word_sum(f) + word_sum(dst)
          BY <1>2, <2>2, <3>2, SumConcat
    <3>4. slice(k, Len(f), Len(f) + Len(dst)) = dst
          BY <1>2, <2>2, SliceSecond
    <3>5. 12 \in Nat /\ 16 \in Nat /\ 16 <= Len(f)
          BY <2>2
    <3>6. slice(k, 12, 16) = slice(f, 12, 16)
          BY <1>2, <2>2, <3>5, SliceConcat, Zenon
    <3> HIDE DEF k
    <3>7. Len(f) = 16 /\ Len(f) + Len(dst) = 20
          BY <1>2, <2>2
    <3>8. slice(k, 16, 20) = dst
          BY <3>4, <3>7
    <3> QED
          BY <1>2, <2>2, <3>1, <3>3, <3>6, <3>8
  <2> HIDE DEF k
  <2>4. Starts(s, k)
        BY <2>1, <2>2, <2>3, StartsTrans
  <2>5. k[1] = v /\ k[10] = p
        BY <1>1, <2>4 DEF Starts
  <2>6. u16(k, 2) = total
    <3>1. 2 \in Nat /\ 2 + 2 <= Len(s)
          BY <1>1
    <3> QED
          BY <1>1, <2>4, <3>1, StartWord, Zenon
  <2>7. h(w) = k
        BY DEF k, f, e
  <2> HIDE DEF h
  <2> QED
        BY <2>1, <2>2, <2>3, <2>5, <2>6, <2>7
<1>4. \A w : IpHeader(v, total, x, y, p, w, src, dst) = h(w)
      BY DEF IpHeader, s
<1> DEFINE a == word_sum(s)
           b == word_sum(src)
           d == word_sum(dst)
<1>5. a \in Nat /\ b \in Nat /\ d \in Nat /\ c \in Nat /\ 0 \in Word
      BY <1>1, <1>2, SumType DEF Word
<1> HIDE DEF h
<1>6. word_sum(h(c)) = ((a + c) + b) + d /\ word_sum(h(0)) = ((a + 0) + b) + d
      BY <1>3, <1>5
<1> HIDE DEF a, b, d
<1>7. ((a + c) + b) + d = (((a + 0) + b) + d) + c /\ ((a + 0) + b) + d \in Nat
      BY <1>5
<1>8. word_sum(h(c)) = word_sum(h(0)) + c /\ word_sum(h(0)) \in Nat
      BY <1>6, <1>7
<1>9. h(0) \in Seq(Byte) /\ Len(h(0)) = 20
      BY <1>3, <1>5
<1>10. /\ h(c) \in Seq(Byte) /\ Len(h(c)) = 20
       /\ h(c)[1] = v /\ u16(h(c), 2) = total /\ h(c)[10] = p
       /\ slice(h(c), 12, 16) = src /\ slice(h(c), 16, 20) = dst
      BY <1>3
<1> QED
    BY <1>4, <1>8, <1>9, <1>10

-----------------------------------------------------------------------------
(* What the parsers accept.                                                *)

\* The bytes of a slice.
LEMMA SliceBytes ==
    ASSUME NEW s \in Seq(Byte), NEW a \in Nat, NEW b \in Nat, a <= b, b <= Len(s)
    PROVE  /\ slice(s, a, b) \in Seq(Byte) /\ Len(slice(s, a, b)) = b - a /\ b - a \in Nat
           /\ \A i \in 1 .. (b - a) : slice(s, a, b)[i] = s[a + i]
<1>1. Len(slice(s, a, b)) = b - a /\ b - a \in Nat
      BY DEF slice
<1>2. \A i \in 1 .. (b - a) : slice(s, a, b)[i] = s[a + i] /\ a + i \in 1 .. Len(s)
      BY DEF slice
<1>3. slice(s, a, b) \in Seq(Byte)
      BY DEF slice
<1> QED
    BY <1>1, <1>2, <1>3

\* What is left of a buffer.
LEMMA FromBytes ==
    ASSUME NEW s \in Seq(Byte), NEW a \in Nat, a <= Len(s)
    PROVE  from(s, a) \in Seq(Byte)
<1>1. from(s, a) = slice(s, a, Len(s)) /\ Len(s) \in Nat /\ Len(s) <= Len(s)
      BY DEF from, slice
<1> QED
    BY <1>1, SliceBytes

\* A sequence is what is before a place and what is behind it.
LEMMA Split ==
    ASSUME NEW s \in Seq(Byte), NEW k \in Nat, k <= Len(s)
    PROVE  s = slice(s, 0, k) \o slice(s, k, Len(s))
<1> DEFINE n == Len(s)
           x == slice(s, 0, k)
           y == slice(s, k, n)
           u == x \o y
<1>0. n \in Nat /\ k <= n /\ 0 \in Nat /\ 0 <= k
      OBVIOUS
<1>1. x \in Seq(Byte) /\ Len(x) = k /\ \A i \in 1 .. k : x[i] = s[i]
  <2> DEFINE z == 0
  <2>1. z \in Nat /\ z <= k /\ z = 0
        BY <1>0
  <2> HIDE DEF z
  <2>2. /\ slice(s, z, k) \in Seq(Byte) /\ Len(slice(s, z, k)) = k - z
        /\ \A i \in 1 .. (k - z) : slice(s, z, k)[i] = s[z + i]
        BY <1>0, <2>1, SliceBytes
  <2> QED
        BY <2>1, <2>2
<1>2. y \in Seq(Byte) /\ Len(y) = n - k /\ \A i \in 1 .. (n - k) : y[i] = s[k + i]
  <2>1. n <= Len(s)
        BY <1>0
  <2> HIDE DEF n
  <2> QED
        BY <1>0, <2>1, SliceBytes
<1> HIDE DEF x, y
<1>3. /\ u \in Seq(Byte) /\ Len(u) = Len(x) + Len(y)
      /\ \A i \in 1 .. Len(x) : u[i] = x[i]
      /\ \A i \in 1 .. Len(y) : u[Len(x) + i] = y[i]
      BY <1>1, <1>2, Concat
<1> HIDE DEF u
<1>4. Len(u) = n
      BY <1>0, <1>1, <1>2, <1>3
<1>5. ASSUME NEW i \in 1 .. n PROVE u[i] = s[i]
  <2>1. CASE i <= k
        BY <1>0, <1>1, <1>3, <2>1
  <2>2. CASE i > k
    <3> DEFINE j == i - k
    <3>1. j \in 1 .. (n - k) /\ k + j = i
          BY <1>0, <2>2
    <3> HIDE DEF j
    <3> QED
          BY <1>1, <1>2, <1>3, <3>1
  <2> QED
        BY <1>0, <2>1, <2>2
<1>6. u = s
      BY <1>0, <1>3, <1>4, <1>5
<1> QED
    BY <1>6 DEF u, x, y

\* The lengths a packet states.
HeaderLen(raw) == 4 * (raw[1] % 16)
TotalLen(raw)  == u16(raw, 2)

\* The tests of Ipv4Packet::parse.
IpAccepts(raw) ==
    /\ Len(raw) >= 20 /\ raw[1] % 16 >= 5
    /\ HeaderLen(raw) <= TotalLen(raw) /\ TotalLen(raw) <= Len(raw)
    /\ checksum(slice(raw, 0, HeaderLen(raw))) = 0

\* The types of what they look at.
LEMMA Lengths ==
    ASSUME NEW raw \in Seq(Byte), Len(raw) >= 20
    PROVE  /\ raw[1] \in Nat /\ HeaderLen(raw) \in Nat /\ HeaderLen(raw) <= 60
           /\ HeaderLen(raw) % 2 = 0 /\ TotalLen(raw) \in Nat /\ Len(raw) \in Nat
           /\ raw[10] \in Nat
<1>1. raw[1] \in Byte /\ raw[3] \in Byte /\ raw[4] \in Byte /\ raw[10] \in Byte
      OBVIOUS
<1>2. raw[1] \in Nat /\ raw[3] \in Nat /\ raw[4] \in Nat /\ raw[10] \in Nat
      BY <1>1, ByteRange
<1>3. HeaderLen(raw) \in Nat /\ HeaderLen(raw) <= 60 /\ HeaderLen(raw) % 2 = 0
      BY <1>2 DEF HeaderLen
<1>4. TotalLen(raw) \in Nat
      BY <1>2 DEF TotalLen, u16, at
<1> QED
    BY <1>2, <1>3, <1>4

\* Ipv4Packet::parse returns the part of the buffer that the packet's lengths
\* delimit when these tests pass, an error when one fails, and never slices out
\* of range.
LEMMA Ipv4Value ==
    ASSUME NEW raw \in Seq(Byte)
    PROVE  IF IpAccepts(raw)
           THEN ipv4_parse(raw) =
                    [err |-> "none", protocol |-> raw[10], src |-> slice(raw, 12, 16),
                     dst |-> slice(raw, 16, 20),
                     payload |-> slice(raw, HeaderLen(raw), TotalLen(raw))]
           ELSE ipv4_parse(raw).err \notin {"none", "panic"}
<1> DEFINE n == Len(raw)
           k == raw[1] % 16
           hl == HeaderLen(raw)
           tl == TotalLen(raw)
           c == checksum(slice(raw, 0, hl))
           e == total_len_error(tl, hl, n)
           ok == [err |-> "none", protocol |-> raw[10], src |-> slice(raw, 12, 16),
                  dst |-> slice(raw, 16, 20), payload |-> slice(raw, hl, tl)]
<1>0. ipv4_parse(raw) =
          IF n < 20 THEN Err("Ipv4HeaderTooShort")
          ELSE reads(raw, 0, 20,
               IF k < 5 THEN Err("Ipv4IhlTooSmall")
               ELSE IF n < hl THEN Err("Ipv4HeaderTooShort")
               ELSE reads(raw, 0, hl,
                    IF c # 0 THEN Err("Ipv4ChecksumMismatch")
                    ELSE IF e # "none" THEN Err(e) ELSE reads(raw, hl, tl, ok)))
      BY DEF ipv4_parse, IPV4_MIN_HEADER_LEN, at, HeaderLen, TotalLen
<1>2. IpAccepts(raw) <=> n >= 20 /\ k >= 5 /\ hl <= tl /\ tl <= n /\ c = 0
      BY DEF IpAccepts
<1>3. n \in Nat /\ (n >= 20 => hl \in Nat /\ tl \in Nat /\ k \in Nat)
      BY Lengths
<1>4. e = IF tl < hl THEN "Ipv4TotalLenTooSmall"
          ELSE IF tl > n THEN "Ipv4TruncatedPacket" ELSE "none"
      BY DEF total_len_error
<1>5. \A x : Err(x).err = x
      BY DEF Err
<1>6. \A x : x \notin {"none", "panic"} => Err(x).err \notin {"none", "panic"}
      BY <1>5
<1>9. /\ ~ (n < 20) => \A x : reads(raw, 0, 20, x) = x
      /\ ~ (n < 20) /\ ~ (n < hl) => \A x : reads(raw, 0, hl, x) = x
      /\ ~ (n < 20) /\ ~ (n < hl) /\ e = "none" => reads(raw, hl, tl, ok) = ok
  <2>1. ~ (n < 20) => 0 <= 20 /\ 20 <= n
        BY <1>3
  <2>2. ~ (n < 20) /\ ~ (n < hl) => 0 <= hl /\ hl <= n
        BY <1>3
  <2>3. ~ (n < 20) /\ e = "none" => hl <= tl /\ tl <= n
        BY <1>3, <1>4
  <2> QED
        BY <2>1, <2>2, <2>3 DEF reads
<1> HIDE DEF n, k, hl, tl, c, e, ok
<1>1. ipv4_parse(raw) =
          IF n < 20 THEN Err("Ipv4HeaderTooShort")
          ELSE IF k < 5 THEN Err("Ipv4IhlTooSmall")
          ELSE IF n < hl THEN Err("Ipv4HeaderTooShort")
          ELSE IF c # 0 THEN Err("Ipv4ChecksumMismatch")
          ELSE IF e # "none" THEN Err(e) ELSE ok
      BY <1>0, <1>9
<1>7. CASE IpAccepts(raw)
  <2>1. e = "none"
        BY <1>2, <1>3, <1>4, <1>7
  <2>2. ipv4_parse(raw) = ok
        BY <1>1, <1>2, <1>3, <1>7, <2>1
  <2> QED
        BY <1>7, <2>2 DEF ok, hl, tl
<1>8. CASE ~ IpAccepts(raw)
  <2>1. e \in {"Ipv4TotalLenTooSmall", "Ipv4TruncatedPacket", "none"}
        BY <1>4
  <2>2. e = "none" => n < 20 \/ k < 5 \/ n < hl \/ c # 0
        BY <1>2, <1>3, <1>4, <1>8
  <2>3. \/ ipv4_parse(raw) = Err("Ipv4HeaderTooShort") \/ ipv4_parse(raw) = Err("Ipv4IhlTooSmall")
        \/ ipv4_parse(raw) = Err("Ipv4ChecksumMismatch")
        \/ ipv4_parse(raw) = Err("Ipv4TotalLenTooSmall") \/ ipv4_parse(raw) = Err("Ipv4TruncatedPacket")
        BY <1>1, <2>1, <2>2
  <2> QED
        BY <1>5, <1>8, <2>3
<1> QED
    BY <1>7, <1>8

\* The tests a packet passes on its way to its connection.
Accepts(raw) ==
    /\ IpAccepts(raw) /\ raw[10] = PROTO_TCP
    /\ segment_parse(slice(raw, HeaderLen(raw), TotalLen(raw)),
                     slice(raw, 12, 16), slice(raw, 16, 20)).err = "none"

\* The segment in such a packet.
Parsed(raw) ==
    segment_parse(slice(raw, HeaderLen(raw), TotalLen(raw)),
                  slice(raw, 12, 16), slice(raw, 16, 20)).seg

\* The second half of inbound_dispatch hands on the segment of a packet that
\* passes, and nothing else.
LEMMA DispatchValue ==
    ASSUME NEW raw \in Seq(Byte), NEW es, NEW ed
    PROVE  dispatch_packet(raw, es, ed) =
               IF Accepts(raw)
               THEN [kind |-> "tcp", remote_ip |-> slice(raw, 12, 16),
                     local_ip |-> slice(raw, 16, 20), ether_src |-> es, ether_dst |-> ed,
                     seg |-> Parsed(raw)]
               ELSE None
<1> DEFINE p == ipv4_parse(raw)
           q == segment_parse(p.payload, p.src, p.dst)
<1>1. dispatch_packet(raw, es, ed) =
          IF p.err # "none" THEN rejected(p)
          ELSE IF p.protocol # PROTO_TCP THEN None
          ELSE IF q.err # "none" THEN rejected(q)
          ELSE [kind |-> "tcp", remote_ip |-> p.src, local_ip |-> p.dst,
                ether_src |-> es, ether_dst |-> ed, seg |-> q.seg]
      BY DEF dispatch_packet
<1>2. CASE IpAccepts(raw)
  <2> DEFINE a == slice(raw, 12, 16)
             b == slice(raw, 16, 20)
             t == slice(raw, HeaderLen(raw), TotalLen(raw))
             x == raw[10]
  <2>1. p = [err |-> "none", protocol |-> x, src |-> a, dst |-> b, payload |-> t]
        BY <1>2, Ipv4Value
  <2>6. segment_parse(t, a, b).err # "panic"
    <3>1. HeaderLen(raw) \in Nat /\ TotalLen(raw) \in Nat
          BY <1>2, Lengths DEF IpAccepts
    <3>2. t \in Seq(Byte)
          BY <1>2, <3>1, SliceBytes DEF IpAccepts
    <3> HIDE DEF t, a, b
    <3> QED
          BY <3>2, SegmentInRange
  <2> HIDE DEF p, a, b, t, x
  <2>2. p.err = "none" /\ p.protocol = x /\ p.src = a /\ p.dst = b /\ p.payload = t
        BY <2>1
  <2>3. dispatch_packet(raw, es, ed) =
          IF x # PROTO_TCP \/ segment_parse(t, a, b).err # "none" THEN None
          ELSE [kind |-> "tcp", remote_ip |-> a, local_ip |-> b,
                ether_src |-> es, ether_dst |-> ed, seg |-> segment_parse(t, a, b).seg]
        BY <1>1, <2>2, <2>6 DEF rejected
  <2>4. Accepts(raw) <=> x = PROTO_TCP /\ segment_parse(t, a, b).err = "none"
        BY <1>2 DEF Accepts, a, b, t, x
  <2>5. Parsed(raw) = segment_parse(t, a, b).seg
        BY DEF Parsed, a, b, t
  <2> QED
        BY <2>3, <2>4, <2>5 DEF a, b
<1>3. CASE ~ IpAccepts(raw)
  <2>1. p.err \notin {"none", "panic"}
        BY <1>3, Ipv4Value
  <2> HIDE DEF p, q
  <2>2. dispatch_packet(raw, es, ed) = None
        BY <1>1, <2>1 DEF rejected
  <2>3. ~ Accepts(raw)
        BY <1>3 DEF Accepts
  <2> QED
        BY <2>2, <2>3
<1> QED
    BY <1>2, <1>3

\* What a packet that is accepted satisfies.
LEMMA AcceptedPacket ==
    ASSUME NEW raw \in Seq(Byte), Accepts(raw)
    PROVE  LET k == HeaderLen(raw)
               n == TotalLen(raw)
               t == slice(raw, k, n)
           IN  /\ k \in Nat /\ n \in Nat /\ Len(raw) \in Nat /\ Len(raw) >= 20
               /\ 20 <= k /\ k <= 60 /\ k <= n /\ n <= Len(raw) /\ k % 2 = 0
               /\ raw[10] = 6
               /\ checksum(slice(raw, 0, k)) = 0
               /\ t \in Seq(Byte) /\ Len(t) = n - k
               /\ Len(t) >= 20 /\ t[13] \div 16 >= 5 /\ 4 * (t[13] \div 16) <= Len(t)
               /\ tcp_checksum(t, slice(raw, 12, 16), slice(raw, 16, 20)) = 0
<1> DEFINE k == HeaderLen(raw)
           n == TotalLen(raw)
           t == slice(raw, k, n)
           a == slice(raw, 12, 16)
           b == slice(raw, 16, 20)
<1>1. /\ IpAccepts(raw) /\ raw[10] = 6 /\ segment_parse(t, a, b).err = "none"
      BY DEF Accepts, PROTO_TCP
<1>2. /\ Len(raw) >= 20 /\ raw[1] % 16 >= 5 /\ k <= n /\ n <= Len(raw)
      /\ checksum(slice(raw, 0, k)) = 0
      BY <1>1 DEF IpAccepts
<1>3. k \in Nat /\ n \in Nat /\ Len(raw) \in Nat /\ k <= 60 /\ k % 2 = 0 /\ raw[1] \in Nat
      BY <1>2, Lengths
<1>4. 20 <= k
      BY <1>2, <1>3 DEF HeaderLen
<1> HIDE DEF k, n, a, b
<1>5. t \in Seq(Byte) /\ Len(t) = n - k
      BY <1>2, <1>3, SliceBytes
<1> HIDE DEF t
<1>6. /\ Len(t) >= 20 /\ t[13] \div 16 >= 5 /\ 4 * (t[13] \div 16) <= Len(t)
      /\ tcp_checksum(t, a, b) = 0
      BY <1>1, <1>5, SegmentAccepted
<1> QED
    BY <1>1, <1>2, <1>3, <1>4, <1>5, <1>6 DEF k, n, t, a, b

-----------------------------------------------------------------------------
(* Packets that are intact, damaged and cut.                               *)

\* A header that states its own length, this total length and protocol and
\* these addresses, and passes its checksum.
GoodHeader(h, total, p, src, dst) ==
    /\ h \in Seq(Byte) /\ Len(h) = HeaderLen(h) /\ Len(h) >= 20
    /\ TotalLen(h) = total /\ h[10] = p
    /\ slice(h, 12, 16) = src /\ slice(h, 16, 20) = dst
    /\ checksum(h) = 0

\* What a packet says is read from its header, whatever follows.
LEMMA HeaderRead ==
    ASSUME NEW h, NEW total, NEW p, NEW src, NEW dst, GoodHeader(h, total, p, src, dst),
           NEW r \in Seq(Byte)
    PROVE  LET raw == h \o r
           IN  /\ raw \in Seq(Byte) /\ Len(raw) = Len(h) + Len(r) /\ Len(h) \in Nat /\ Len(r) \in Nat
               /\ Len(raw) >= 20
               /\ HeaderLen(raw) = Len(h) /\ TotalLen(raw) = total /\ raw[10] = p
               /\ slice(raw, 12, 16) = src /\ slice(raw, 16, 20) = dst
               /\ slice(raw, 0, Len(h)) = h
               /\ total \in Nat /\ Len(h) <= 60 /\ Len(h) % 2 = 0 /\ raw[1] % 16 >= 5
<1> DEFINE raw == h \o r
           n == Len(h)
<1>0. h \in Seq(Byte) /\ n = HeaderLen(h) /\ n >= 20 /\ TotalLen(h) = total /\ h[10] = p
      BY DEF GoodHeader
<1>1. /\ raw \in Seq(Byte) /\ Len(raw) = n + Len(r) /\ n \in Nat /\ Len(r) \in Nat
      /\ \A i \in 1 .. n : raw[i] = h[i]
      BY <1>0, Concat
<1>2. Starts(h, raw)
      BY <1>0, StartsConcat
<1>3. slice(raw, 12, 16) = slice(h, 12, 16) /\ slice(raw, 16, 20) = slice(h, 16, 20)
  <2>1. 12 \in Nat /\ 16 \in Nat /\ 20 \in Nat /\ 16 <= Len(h) /\ 20 <= Len(h)
        BY <1>0, <1>1
  <2> QED
        BY <1>0, <2>1, SliceConcat, Zenon
<1>4. slice(raw, 0, n) = h
  <2>1. 0 \in Nat /\ n \in Nat /\ n <= Len(h)
        BY <1>1
  <2>2. slice(raw, 0, n) = slice(h, 0, n)
        BY <1>0, <2>1, SliceConcat, Zenon
  <2> QED
        BY <1>0, <2>2, SliceAll
<1> HIDE DEF raw
<1>5. TotalLen(raw) = TotalLen(h)
  <2>1. 2 \in Nat /\ 2 + 2 <= Len(h)
        BY <1>0, <1>1
  <2> QED
        BY <1>2, <2>1, StartWord, Zenon DEF TotalLen
<1>6. raw[1] = h[1] /\ raw[10] = h[10]
      BY <1>0, <1>1
<1>7. HeaderLen(raw) = n
      BY <1>0, <1>6 DEF HeaderLen
<1>8. Len(raw) >= 20
      BY <1>0, <1>1
<1>9. total \in Nat /\ n <= 60 /\ n % 2 = 0 /\ h[1] \in Nat
      BY <1>0, Lengths
<1>10. raw[1] % 16 >= 5
      BY <1>0, <1>6, <1>9 DEF HeaderLen
<1>11. slice(h, 12, 16) = src /\ slice(h, 16, 20) = dst
      BY DEF GoodHeader
<1> QED
    BY <1>0, <1>1, <1>3, <1>4, <1>5, <1>6, <1>7, <1>8, <1>9, <1>10, <1>11 DEF raw

\* A packet with such a header and a segment that its length delimits is
\* accepted with exactly that segment, whatever padding follows.
LEMMA IntactAccepted ==
    ASSUME NEW h, NEW total, NEW src, NEW dst, GoodHeader(h, total, PROTO_TCP, src, dst),
           NEW t \in Seq(Byte), total = Len(h) + Len(t), NEW seg,
           segment_parse(t, src, dst) = [err |-> "none", seg |-> seg], NEW pad \in Seq(Byte)
    PROVE  LET raw == (h \o t) \o pad
           IN  /\ raw \in Seq(Byte) /\ Accepts(raw) /\ Parsed(raw) = seg
               /\ slice(raw, 12, 16) = src /\ slice(raw, 16, 20) = dst
<1> DEFINE raw == (h \o t) \o pad
           r == t \o pad
           n == Len(h)
           m == Len(t)
<1>0. h \in Seq(Byte) /\ checksum(h) = 0
      BY DEF GoodHeader
<1>1. r \in Seq(Byte) /\ Len(r) = m + Len(pad) /\ m \in Nat /\ Len(pad) \in Nat
      BY Concat
<1>2. raw = h \o r
      BY <1>0, ConcatAssoc
<1>3. slice(raw, n, n + m) = t
  <2> DEFINE g == h \o t
  <2>1. g \in Seq(Byte) /\ Len(g) = n + m /\ n \in Nat
        BY <1>0, Concat
  <2>2. slice(g, n, n + m) = t
        BY <1>0, SliceSecond
  <2> HIDE DEF g
  <2>3. slice(g \o pad, n, n + m) = slice(g, n, n + m)
        BY <1>1, <2>1, SliceConcat
  <2> QED
        BY <2>2, <2>3 DEF g
<1> HIDE DEF r
<1>4. /\ h \o r \in Seq(Byte) /\ Len(h \o r) = n + Len(r) /\ n \in Nat
      /\ Len(h \o r) >= 20
      /\ HeaderLen(h \o r) = n /\ TotalLen(h \o r) = total /\ (h \o r)[10] = PROTO_TCP
      /\ slice(h \o r, 12, 16) = src /\ slice(h \o r, 16, 20) = dst
      /\ slice(h \o r, 0, n) = h /\ (h \o r)[1] % 16 >= 5
  <2> DEFINE p == PROTO_TCP
  <2>1. GoodHeader(h, total, p, src, dst) /\ r \in Seq(Byte)
        BY <1>1
  <2> HIDE DEF p, n, m, raw
  <2>2. /\ h \o r \in Seq(Byte) /\ Len(h \o r) = Len(h) + Len(r) /\ Len(h) \in Nat
      /\ Len(h \o r) >= 20
      /\ HeaderLen(h \o r) = Len(h) /\ TotalLen(h \o r) = total /\ (h \o r)[10] = p
      /\ slice(h \o r, 12, 16) = src /\ slice(h \o r, 16, 20) = dst
      /\ slice(h \o r, 0, Len(h)) = h /\ (h \o r)[1] % 16 >= 5
        BY ONLY <2>1, HeaderRead
  <2> QED
        BY <2>2 DEF p, n
<1>5. total = n + m
      OBVIOUS
<1> HIDE DEF raw, n, m
<1>6. /\ raw \in Seq(Byte) /\ Len(raw) = n + Len(r) /\ n \in Nat
      /\ Len(raw) >= 20
      /\ HeaderLen(raw) = n /\ TotalLen(raw) = n + m /\ raw[10] = PROTO_TCP
      /\ slice(raw, 12, 16) = src /\ slice(raw, 16, 20) = dst
      /\ slice(raw, 0, n) = h /\ raw[1] % 16 >= 5
      BY <1>2, <1>4, <1>5
<1>7. n <= n + m /\ n + m <= Len(raw)
      BY <1>1, <1>6
<1>8. IpAccepts(raw)
      BY <1>0, <1>6, <1>7 DEF IpAccepts
<1>9. segment_parse(t, src, dst).err = "none" /\ segment_parse(t, src, dst).seg = seg
      OBVIOUS
<1>10. Accepts(raw) /\ Parsed(raw) = seg
      BY <1>3, <1>6, <1>8, <1>9 DEF Accepts, Parsed
<1> QED
    BY <1>6, <1>10 DEF raw

\* A packet that was cut is not accepted: its total length is beyond its end.
LEMMA CutRejected ==
    ASSUME NEW raw \in Seq(Byte), Len(raw) >= 20, TotalLen(raw) = Len(raw),
           NEW n \in Nat, n < Len(raw)
    PROVE  SubSeq(raw, 1, n) \in Seq(Byte) /\ ~ Accepts(SubSeq(raw, 1, n))
<1> DEFINE s == SubSeq(raw, 1, n)
<1>1. s \in Seq(Byte) /\ Len(s) = n /\ \A i \in 1 .. n : s[i] = raw[i]
      OBVIOUS
<1> HIDE DEF s
<1>2. SUFFICES ASSUME Accepts(s) PROVE FALSE
      BY <1>1 DEF s
<1>3. n >= 20 /\ TotalLen(s) <= n
      BY <1>1, <1>2, AcceptedPacket
<1>4. s[3] = raw[3] /\ s[4] = raw[4]
      BY <1>1, <1>3
<1>5. TotalLen(s) = TotalLen(raw)
      BY <1>4 DEF TotalLen, u16, at
<1> QED
    BY <1>3, <1>5

\* Two sums that both pass differ by a multiple of 65535: not by the parts of
\* two bytes at one place, with or without the change of the header's length
\* that comes with the first byte.
LEMMA PassingSums ==
    ASSUME NEW x \in Nat, NEW y \in Nat, complement(x) = 0, complement(y) = 0
    PROVE  /\ x % 65535 = 0 /\ y % 65535 = 0
           /\ \A a \in Byte, b \in Byte, i \in Nat :
                 x + Part(i, b) = y + Part(i, a) => a = b
<1>1. x % 65535 = 0 /\ y % 65535 = 0
      BY ComplementValue
<1> QED
    BY <1>1, PartDiffers

\* Multiples of 65535 add up to one.
LEMMA SumOfMultiples ==
    ASSUME NEW x \in Nat, NEW y \in Nat, x % 65535 = 0, y % 65535 = 0
    PROVE  x + y \in Nat /\ (x + y) % 65535 = 0
<1> DEFINE u == x \div 65535
           v == y \div 65535
<1>1. u \in Nat /\ v \in Nat /\ x = 65535 * u /\ y = 65535 * v
      OBVIOUS
<1> HIDE DEF u, v
<1>2. x + y = 65535 * (u + v)
      BY <1>1
<1> QED
    BY <1>1, <1>2

\* A byte changed in the header, behind its first, is found by the header's
\* checksum.
LEMMA HeaderDamage ==
    ASSUME NEW h, NEW total, NEW p, NEW src, NEW dst, GoodHeader(h, total, p, src, dst),
           NEW r \in Seq(Byte), NEW raw \in Seq(Byte), Len(raw) = Len(h \o r),
           NEW j \in 2 .. Len(h), raw[j] # (h \o r)[j],
           \A i \in 1 .. Len(raw) : i # j => raw[i] = (h \o r)[i]
    PROVE  ~ Accepts(raw)
<1> SUFFICES ASSUME Accepts(raw) PROVE FALSE
    OBVIOUS
<1> DEFINE n == Len(h)
           s == slice(raw, 0, n)
<1>1. /\ Len(raw) = n + Len(r) /\ n \in Nat /\ Len(r) \in Nat
      /\ HeaderLen(h \o r) = n /\ Len(raw) >= 20
      BY HeaderRead
<1>2. h \in Seq(Byte) /\ checksum(h) = 0 /\ n >= 20
      BY DEF GoodHeader
<1>3. \A i \in 1 .. n : (h \o r)[i] = h[i]
      BY <1>2, Concat
<1>4. HeaderLen(raw) = n
  <2>1. raw[1] = (h \o r)[1]
        BY <1>1
  <2> QED
        BY <1>1, <2>1 DEF HeaderLen
<1>5. checksum(s) = 0
      BY <1>4, AcceptedPacket
<1>6. s \in Seq(Byte) /\ Len(s) = n /\ \A i \in 1 .. n : s[i] = raw[i]
  <2> DEFINE z == 0
  <2>1. z \in Nat /\ z <= n /\ n <= Len(raw) /\ z = 0
        BY <1>1
  <2> HIDE DEF z, n, s
  <2>2. /\ slice(raw, z, n) \in Seq(Byte) /\ Len(slice(raw, z, n)) = n - z
        /\ \A i \in 1 .. (n - z) : slice(raw, z, n)[i] = raw[z + i]
        BY <1>1, <2>1, SliceBytes
  <2>3. s = slice(raw, z, n)
        BY DEF z, s
  <2> QED
        BY <1>1, <2>1, <2>2, <2>3
<1> HIDE DEF s
<1>7. \A i \in 1 .. n : i # j => s[i] = h[i]
      BY <1>1, <1>3, <1>6
<1>8. s[j] # h[j] /\ s[j] \in Byte /\ h[j] \in Byte /\ j \in Nat
      BY <1>1, <1>2, <1>3, <1>6
<1>9. word_sum(s) + Part(j, h[j]) = word_sum(h) + Part(j, s[j])
      BY <1>2, <1>6, <1>7, SumOneByte
<1>10. word_sum(s) \in Nat /\ word_sum(h) \in Nat
      BY <1>2, <1>6, SumType
<1>11. complement(word_sum(s)) = 0 /\ complement(word_sum(h)) = 0
      BY <1>2, <1>5 DEF checksum
<1> DEFINE x == word_sum(s)
           y == word_sum(h)
           a == s[j]
           b == h[j]
<1> HIDE DEF x, y, a, b
<1>12. x + Part(j, b) = y + Part(j, a) /\ a # b
      BY <1>8, <1>9 DEF x, y, a, b
<1>13. x \in Nat /\ y \in Nat /\ complement(x) = 0 /\ complement(y) = 0 /\ a \in Byte /\ b \in Byte
      BY <1>8, <1>10, <1>11 DEF x, y, a, b
<1> QED
    BY <1>8, <1>12, <1>13, PassingSums

\* A byte changed behind the header is found by the TCP checksum.
LEMMA SegmentDamage ==
    ASSUME NEW h, NEW total, NEW p, NEW src, NEW dst, GoodHeader(h, total, p, src, dst),
           src \in Address, dst \in Address,
           NEW t \in Seq(Byte), total = Len(h) + Len(t), tcp_checksum(t, src, dst) = 0,
           NEW raw \in Seq(Byte), Len(raw) = Len(h \o t),
           NEW j \in Nat, Len(h) < j, j <= Len(raw), raw[j] # (h \o t)[j],
           \A i \in 1 .. Len(raw) : i # j => raw[i] = (h \o t)[i]
    PROVE  ~ Accepts(raw)
<1> SUFFICES ASSUME Accepts(raw) PROVE FALSE
    OBVIOUS
<1> DEFINE n == Len(h)
           m == Len(t)
           q == h \o t
           s == slice(raw, n, n + m)
           e == j - n
<1>1. /\ Len(raw) = n + m /\ n \in Nat /\ m \in Nat
      /\ HeaderLen(q) = n /\ TotalLen(q) = total /\ Len(raw) >= 20 /\ q \in Seq(Byte)
      /\ slice(q, 12, 16) = src /\ slice(q, 16, 20) = dst
      BY HeaderRead
<1>2. h \in Seq(Byte) /\ n >= 20 /\ total = n + m
      BY DEF GoodHeader
<1>3. \A i \in 1 .. m : q[n + i] = t[i]
      BY <1>2, Concat
<1> HIDE DEF q
<1>4. \A i \in 1 .. 20 : raw[i] = q[i] /\ i \in 1 .. Len(raw) /\ i # j
      BY <1>1, <1>2 DEF q
<1>5. HeaderLen(raw) = n /\ TotalLen(raw) = n + m
  <2>1. raw[1] = q[1] /\ raw[3] = q[3] /\ raw[4] = q[4]
        BY <1>4
  <2> QED
        BY <1>1, <1>2, <2>1 DEF HeaderLen, TotalLen, u16, at
<1>6. slice(raw, 12, 16) = src /\ slice(raw, 16, 20) = dst
  <2>1. slice(raw, 12, 16) = slice(q, 12, 16)
        BY <1>1, <1>4 DEF slice
  <2>2. slice(raw, 16, 20) = slice(q, 16, 20)
        BY <1>1, <1>4 DEF slice
  <2> QED
        BY <1>1, <2>1, <2>2
<1>7. tcp_checksum(s, src, dst) = 0
      BY <1>5, <1>6, AcceptedPacket
<1>8. s \in Seq(Byte) /\ Len(s) = m /\ \A i \in 1 .. m : s[i] = raw[n + i]
  <2> DEFINE z == n + m
  <2>1. z \in Nat /\ n <= z /\ z <= Len(raw) /\ z - n = m
        BY <1>1
  <2> HIDE DEF z, n, s
  <2>2. /\ slice(raw, n, z) \in Seq(Byte) /\ Len(slice(raw, n, z)) = z - n
        /\ \A i \in 1 .. (z - n) : slice(raw, n, z)[i] = raw[n + i]
        BY <1>1, <2>1, SliceBytes
  <2>3. s = slice(raw, n, z)
        BY DEF z, s
  <2> QED
        BY <1>1, <2>1, <2>2, <2>3
<1> HIDE DEF s
<1>9. e \in 1 .. m /\ n + e = j
      BY <1>1
<1>10. \A i \in 1 .. m : i # e => s[i] = t[i]
  <2> SUFFICES ASSUME NEW i \in 1 .. m, i # e PROVE s[i] = t[i]
      OBVIOUS
  <2>1. n + i \in 1 .. Len(raw) /\ n + i # j
        BY <1>1, <1>9
  <2> HIDE DEF n, m, e
  <2>2. raw[n + i] = q[n + i]
        BY <2>1 DEF q
  <2> QED
        BY <1>3, <1>8, <2>2
<1> HIDE DEF e
<1>11. s[e] # t[e] /\ s[e] \in Byte /\ t[e] \in Byte /\ e \in Nat
  <2>1. s[e] = raw[j] /\ t[e] = q[j]
        BY <1>3, <1>8, <1>9
  <2>2. s[e] \in Byte /\ t[e] \in Byte /\ e \in Nat
        BY <1>8, <1>9
  <2> QED
        BY <2>1, <2>2 DEF q
<1>12. word_sum(s) + Part(e, t[e]) = word_sum(t) + Part(e, s[e])
      BY <1>8, <1>9, <1>10, SumOneByte
<1>13. word_sum(s) \in Nat /\ word_sum(t) \in Nat /\ Pseudo(src, dst) \in Nat
      BY <1>8, SumType, PseudoType
<1>14. /\ complement(Pseudo(src, dst) + Len(s) + word_sum(s)) = 0
       /\ complement(Pseudo(src, dst) + Len(t) + word_sum(t)) = 0
      BY <1>7 DEF tcp_checksum, Pseudo
<1> DEFINE g == Pseudo(src, dst)
           u == word_sum(s)
           v == word_sum(t)
           x == g + m + u
           y == g + m + v
           a == s[e]
           b == t[e]
           pa == Part(e, a)
           pb == Part(e, b)
<1>15. pa \in Nat /\ pb \in Nat
  <2>1. a \in Nat /\ b \in Nat
        BY <1>11, ByteRange
  <2> HIDE DEF a, b
  <2> QED
        BY <2>1 DEF Part
<1>16. u + pb = v + pa /\ u \in Nat /\ v \in Nat /\ g \in Nat /\ m \in Nat
      BY <1>1, <1>12, <1>13
<1>17. complement(x) = 0 /\ complement(y) = 0
      BY <1>8, <1>14
<1> HIDE DEF u, v, g, pa, pb, m
<1>18. x \in Nat /\ y \in Nat /\ x + pb = y + pa
      BY <1>15, <1>16
<1>19. a \in Byte /\ b \in Byte /\ a # b
      BY <1>11
<1> HIDE DEF x, y, a, b
<1>20. x + Part(e, b) = y + Part(e, a)
      BY <1>18 DEF pa, pb
<1> QED
    BY <1>11, <1>17, <1>18, <1>19, <1>20, PassingSums

\* The first byte changed: either checksum could be met by moving the border
\* between header and segment, but not both.
LEMMA FirstByteDamage ==
    ASSUME NEW h, NEW total, NEW p, NEW src, NEW dst, GoodHeader(h, total, p, src, dst),
           src \in Address, dst \in Address,
           NEW t \in Seq(Byte), total = Len(h) + Len(t), tcp_checksum(t, src, dst) = 0,
           NEW raw \in Seq(Byte), Len(raw) = Len(h \o t), raw[1] # (h \o t)[1],
           \A i \in 1 .. Len(raw) : i # 1 => raw[i] = (h \o t)[i]
    PROVE  ~ Accepts(raw)
<1> SUFFICES ASSUME Accepts(raw) PROVE FALSE
    OBVIOUS
<1> DEFINE n == Len(h)
           m == Len(t)
           q == h \o t
           N == Len(raw)
           k == HeaderLen(raw)
           g == slice(raw, 0, k)
           s == slice(raw, k, N)
<1>1. /\ N = n + m /\ n \in Nat /\ m \in Nat /\ N \in Nat
      /\ TotalLen(q) = total /\ N >= 20 /\ q \in Seq(Byte) /\ n <= 60 /\ n % 2 = 0
      /\ slice(q, 12, 16) = src /\ slice(q, 16, 20) = dst
      BY HeaderRead
<1>2. h \in Seq(Byte) /\ n >= 20 /\ total = n + m /\ checksum(h) = 0
      BY DEF GoodHeader
<1>3. word_sum(q) = word_sum(h) + word_sum(t)
      BY <1>1, <1>2, SumConcat
<1> HIDE DEF q
<1>4. \A i \in 2 .. 20 : raw[i] = q[i]
  <2>1. \A i \in 2 .. 20 : i \in 1 .. Len(raw) /\ i # 1
    <3>1. N >= 20 /\ N \in Nat
          BY <1>1
    <3> HIDE DEF N
    <3>2. \A i \in 2 .. 20 : i \in 1 .. N /\ i # 1
          BY <3>1
    <3> QED
          BY <3>2 DEF N
  <2> QED
        BY <2>1 DEF q
<1>5. TotalLen(raw) = N
  <2>1. raw[3] = q[3] /\ raw[4] = q[4]
        BY <1>4
  <2> QED
        BY <1>1, <1>2, <2>1 DEF TotalLen, u16, at
<1>6. slice(raw, 12, 16) = src /\ slice(raw, 16, 20) = dst
  <2>1. slice(raw, 12, 16) = slice(q, 12, 16)
        BY <1>1, <1>4 DEF slice
  <2>2. slice(raw, 16, 20) = slice(q, 16, 20)
        BY <1>1, <1>4 DEF slice
  <2> QED
        BY <1>1, <2>1, <2>2
<1>7. /\ k \in Nat /\ 20 <= k /\ k <= 60 /\ k <= N /\ k % 2 = 0
      /\ checksum(g) = 0 /\ s \in Seq(Byte) /\ Len(s) = N - k /\ tcp_checksum(s, src, dst) = 0
      BY <1>5, <1>6, AcceptedPacket
<1>8. g \in Seq(Byte) /\ Len(g) = k
  <2> DEFINE z == 0
  <2>1. z \in Nat /\ z <= k /\ k <= Len(raw) /\ k - z = k
        BY <1>7
  <2> HIDE DEF z, k, g
  <2>2. slice(raw, z, k) \in Seq(Byte) /\ Len(slice(raw, z, k)) = k - z
        BY <1>7, <2>1, SliceBytes
  <2>3. g = slice(raw, z, k)
        BY DEF z, g
  <2> QED
        BY <2>1, <2>2, <2>3
<1>9. raw = g \o s
  <2> HIDE DEF k
  <2> QED
      BY <1>7, Split
<1> HIDE DEF g, s, k
<1>10. word_sum(raw) = word_sum(g) + word_sum(s)
      BY <1>7, <1>8, <1>9, SumConcat
<1>11. word_sum(raw) + Part(1, q[1]) = word_sum(q) + Part(1, raw[1])
  <2> DEFINE j == 1
  <2>1. j \in 1 .. Len(q) /\ Len(q) = Len(raw) /\ \A i \in 1 .. Len(q) : i # j => raw[i] = q[i]
        BY <1>1 DEF q
  <2> HIDE DEF j
  <2>2. word_sum(raw) + Part(j, q[j]) = word_sum(q) + Part(j, raw[j])
        BY <1>1, <2>1, SumOneByte
  <2> QED
        BY <2>2 DEF j
<1>12. q[1] \in Byte /\ raw[1] \in Byte /\ q[1] # raw[1]
  <2>1. Len(q) = N /\ q[1] # raw[1]
        BY DEF q
  <2>2. 1 \in 1 .. Len(q) /\ 1 \in 1 .. Len(raw)
        BY <1>1, <2>1
  <2> QED
        BY <1>1, <2>1, <2>2
<1>13. /\ word_sum(g) \in Nat /\ word_sum(s) \in Nat /\ word_sum(h) \in Nat /\ word_sum(t) \in Nat
       /\ Pseudo(src, dst) \in Nat
      BY <1>2, <1>7, <1>8, SumType, PseudoType
<1>14. /\ complement(Pseudo(src, dst) + Len(s) + word_sum(s)) = 0
       /\ complement(Pseudo(src, dst) + Len(t) + word_sum(t)) = 0
       /\ complement(word_sum(g)) = 0 /\ complement(word_sum(h)) = 0
      BY <1>2, <1>7 DEF tcp_checksum, Pseudo, checksum
<1> DEFINE f == Pseudo(src, dst)
           l == N - k
           wg == word_sum(g)
           ws == word_sum(s)
           wh == word_sum(h)
           wt == word_sum(t)
           x1 == f + l + ws
           y1 == f + m + wt
           a == q[1]
           b == raw[1]
<1>15. a \in Nat /\ b \in Nat
      BY <1>12, ByteRange
<1>16. (wg + ws) + 256 * a = (wh + wt) + 256 * b
      BY <1>3, <1>10, <1>11 DEF Part
<1>17. complement(x1) = 0 /\ complement(y1) = 0 /\ complement(wg) = 0 /\ complement(wh) = 0
      BY <1>7, <1>14
<1>18. l \in Nat /\ l + k = n + m /\ n \in Nat /\ m \in Nat /\ k \in Nat
      BY <1>1, <1>7
<1>19. f \in Nat /\ wg \in Nat /\ ws \in Nat /\ wh \in Nat /\ wt \in Nat
      BY <1>13
<1>20. a \in Byte /\ b \in Byte /\ a # b /\ 20 <= n /\ n <= 60 /\ 20 <= k /\ k <= 60
      BY <1>1, <1>2, <1>7, <1>12
<1> HIDE DEF f, l, wg, ws, wh, wt, a, b, n, m, N
<1>21. x1 \in Nat /\ y1 \in Nat
      BY <1>18, <1>19
<1>22. x1 % 65535 = 0 /\ y1 % 65535 = 0 /\ wg % 65535 = 0 /\ wh % 65535 = 0
  <2> HIDE DEF x1, y1
  <2> QED
      BY <1>17, <1>19, <1>21, ComplementValue
<1> DEFINE x == x1 + wg
           y == y1 + wh
<1>23. x \in Nat /\ y \in Nat /\ x % 65535 = 0 /\ y % 65535 = 0
  <2> HIDE DEF x1, y1
  <2> QED
      BY <1>19, <1>21, <1>22, SumOfMultiples
<1>24. (x + 256 * a) + k = (y + 256 * b) + n
      BY <1>15, <1>16, <1>18, <1>19
<1> HIDE DEF x, y
\* The sum changes by 256 for each unit of the byte, the length by at most 40.
<1>25. a <= 255 /\ b <= 255
      BY <1>20, ByteRange
<1> DEFINE u == x \div 65535
           v == y \div 65535
<1>26. u \in Nat /\ v \in Nat /\ x = 65535 * u /\ y = 65535 * v
      BY <1>23
<1> HIDE DEF u, v
<1>27. 65535 * (u - v) = 256 * (b - a) + (n - k)
      BY <1>15, <1>18, <1>24, <1>26
<1>28. u = v
      BY <1>15, <1>18, <1>20, <1>25, <1>26, <1>27
<1>29. 256 * a + k = 256 * b + n
      BY <1>15, <1>18, <1>24, <1>26, <1>28
<1>30. a = b
      BY <1>15, <1>18, <1>20, <1>29
<1> QED
    BY <1>20, <1>30

\* No change of one byte gets a packet past the tests.
LEMMA DamagedRejected ==
    ASSUME NEW h, NEW total, NEW p, NEW src, NEW dst, GoodHeader(h, total, p, src, dst),
           src \in Address, dst \in Address,
           NEW t \in Seq(Byte), total = Len(h) + Len(t), tcp_checksum(t, src, dst) = 0,
           NEW j \in 1 .. Len(h \o t), NEW b \in Byte, (h \o t)[j] # b
    PROVE  [h \o t EXCEPT ![j] = b] \in Seq(Byte) /\ ~ Accepts([h \o t EXCEPT ![j] = b])
<1> DEFINE q == h \o t
           raw == [q EXCEPT ![j] = b]
<1>1. h \in Seq(Byte) /\ Len(h) >= 20 /\ Len(h) \in Nat
      BY DEF GoodHeader
<1>2. q \in Seq(Byte) /\ Len(q) = Len(h) + Len(t)
      BY <1>1, Concat
<1> HIDE DEF q
<1>3. /\ raw \in Seq(Byte) /\ Len(raw) = Len(q) /\ raw[j] = b /\ j \in 1 .. Len(q)
      /\ \A i \in 1 .. Len(raw) : i # j => raw[i] = q[i]
  <2>1. j \in 1 .. Len(q)
        BY DEF q
  <2> QED
        BY <1>2, <2>1
<1>4. raw[j] # q[j]
      BY <1>3 DEF q
<1> HIDE DEF raw
<1>5. CASE j = 1
  <2>1. raw[1] # q[1] /\ \A i \in 1 .. Len(raw) : i # 1 => raw[i] = q[i]
        BY <1>3, <1>4, <1>5
  <2>2. ~ Accepts(raw)
        BY <1>3, <2>1, FirstByteDamage DEF q
  <2> QED
        BY <1>3, <2>2 DEF raw, q
<1>6. CASE j \in 2 .. Len(h)
  <2>1. ~ Accepts(raw)
        BY <1>3, <1>4, <1>6, HeaderDamage DEF q
  <2> QED
        BY <1>3, <2>1 DEF raw, q
<1>7. CASE j \in Nat /\ Len(h) < j /\ j <= Len(raw)
  <2>1. ~ Accepts(raw)
        BY <1>3, <1>4, <1>7, SegmentDamage DEF q
  <2> QED
        BY <1>3, <2>1 DEF raw, q
<1> QED
    BY <1>1, <1>2, <1>3, <1>5, <1>6, <1>7

-----------------------------------------------------------------------------
(* The packets the hosts send.                                             *)

\* A header with options and the checksum computed for it.
BuiltIp(v, total, x, y, p, src, dst, o) ==
    LET c == checksum(IpHeader(v, total, x, y, p, 0, src, dst) \o o)
    IN  IpHeader(v, total, x, y, p, c, src, dst) \o o

\* It is good.
LEMMA BuiltHeader ==
    ASSUME NEW v \in Byte, NEW total \in Word, NEW x \in Byte, NEW y \in Byte, NEW p \in Byte,
           NEW src \in Address, NEW dst \in Address,
           NEW o, NEW n, OptionWords(o, n), v % 16 = 5 + n
    PROVE  LET h == BuiltIp(v, total, x, y, p, src, dst, o)
           IN  GoodHeader(h, total, p, src, dst) /\ Len(h) = 20 + 4 * n
<1> DEFINE z == IpHeader(v, total, x, y, p, 0, src, dst)
           s == z \o o
           c == checksum(s)
           g == IpHeader(v, total, x, y, p, c, src, dst)
           h == g \o o
<1>0. n \in 0 .. 10 /\ o \in Seq(Byte) /\ Len(o) = 4 * n
      BY DEF OptionWords
<1>1. z \in Seq(Byte) /\ Len(z) = 20 /\ word_sum(z) \in Nat
  <2>1. 0 \in Word
        BY DEF Word
  <2> QED
        BY <2>1, IpHeaderFields
<1> HIDE DEF z
<1>2. Len(z) % 2 = 0
      BY <1>1
<1>3. s \in Seq(Byte) /\ word_sum(s) = word_sum(z) + word_sum(o) /\ word_sum(o) \in Nat
      BY <1>0, <1>1, <1>2, Concat, SumConcat, SumType
<1> HIDE DEF s
<1>4. c = complement(word_sum(s)) /\ word_sum(s) \in Nat
      BY <1>3, SumType DEF checksum
<1>5. c \in Word /\ complement(word_sum(s) + c) = 0
      BY <1>4, ComplementValue, ComplementCompletes
<1> HIDE DEF c
<1>6. /\ g \in Seq(Byte) /\ Len(g) = 20
      /\ g[1] = v /\ u16(g, 2) = total /\ g[10] = p
      /\ slice(g, 12, 16) = src /\ slice(g, 16, 20) = dst
      /\ word_sum(g) = word_sum(z) + c
      BY <1>5, IpHeaderFields DEF z
<1> HIDE DEF g
<1>7. Len(g) % 2 = 0
      BY <1>6
<1>8. word_sum(h) = word_sum(g) + word_sum(o)
      BY <1>0, <1>6, <1>7, SumConcat
<1>9. h \in Seq(Byte) /\ Len(h) = 20 + 4 * n /\ Starts(g, h) /\ \A i \in 1 .. 20 : h[i] = g[i]
  <2>1. h \in Seq(Byte) /\ Len(h) = Len(g) + Len(o) /\ Starts(g, h)
        BY <1>0, <1>6, Concat, StartsConcat
  <2>2. \A i \in 1 .. Len(g) : h[i] = g[i]
        BY <1>0, <1>6, Concat
  <2> HIDE DEF h
  <2> QED
        BY <1>0, <1>6, <2>1, <2>2
<1>10. slice(h, 12, 16) = src /\ slice(h, 16, 20) = dst
  <2>1. 12 \in Nat /\ 16 \in Nat /\ 20 \in Nat /\ 16 <= Len(g) /\ 20 <= Len(g)
        BY <1>6
  <2>2. slice(h, 12, 16) = slice(g, 12, 16) /\ slice(h, 16, 20) = slice(g, 16, 20)
        BY <1>0, <1>6, <2>1, SliceConcat, Zenon
  <2> QED
        BY <1>6, <2>2
<1> HIDE DEF h
<1>11. u16(h, 2) = u16(g, 2)
  <2>1. 2 \in Nat /\ 2 + 2 <= Len(g)
        BY <1>6
  <2> QED
        BY <1>9, <2>1, StartWord, Zenon
<1>12. h[1] = v /\ h[10] = p
      BY <1>6, <1>9
<1>13. HeaderLen(h) = 20 + 4 * n /\ TotalLen(h) = total /\ Len(h) >= 20
      BY <1>0, <1>6, <1>9, <1>11, <1>12 DEF HeaderLen, TotalLen
<1>14. checksum(h) = 0
  <2> DEFINE a == word_sum(z)
             b == word_sum(o)
  <2>1. a \in Nat /\ b \in Nat /\ c \in Nat
        BY <1>1, <1>3, <1>5 DEF Word
  <2>2. word_sum(h) = (a + c) + b /\ word_sum(s) + c = (a + b) + c
        BY <1>3, <1>6, <1>8
  <2> HIDE DEF a, b
  <2>3. word_sum(h) = word_sum(s) + c
        BY <2>1, <2>2
  <2> QED
        BY <1>5, <2>3 DEF checksum
<1>15. GoodHeader(h, total, p, src, dst)
      BY <1>9, <1>10, <1>12, <1>13, <1>14 DEF GoodHeader
<1> QED
    BY <1>9, <1>15 DEF h, g, c, s, z, BuiltIp

\* A packet that carries seg, header and segment both intact.
Sealed(q, seg, src, dst) ==
    \E h, t : /\ q = h \o t /\ t \in Seq(Byte)
              /\ GoodHeader(h, Len(h) + Len(t), PROTO_TCP, src, dst)
              /\ segment_parse(t, src, dst) = [err |-> "none", seg |-> seg]

\* Its parts.
LEMMA SealedIs ==
    ASSUME NEW h, NEW t \in Seq(Byte), NEW seg, NEW src, NEW dst, NEW total,
           GoodHeader(h, total, PROTO_TCP, src, dst), total = Len(h) + Len(t),
           segment_parse(t, src, dst) = [err |-> "none", seg |-> seg]
    PROVE  Sealed(h \o t, seg, src, dst)
BY DEF Sealed

\* The segment the stack builds is read back as it was.
LEMMA OwnSegment ==
    ASSUME NEW seg \in Segment, NEW src \in Address, NEW dst \in Address
    PROVE  LET t == segment_build(src, dst, seg)
           IN  /\ t \in Seq(Byte) /\ Len(t) = 20 + Len(seg.payload)
               /\ segment_parse(t, src, dst) = [err |-> "none", seg |-> seg]
<1> DEFINE pl == seg.payload
           e == <<>>
           r == e \o pl
           buf(c) == TcpHeader(seg, 80, c) \o pl
           n == 0
           b == 80
<1>1. pl \in Seq(Byte) /\ e \in Seq(Byte) /\ r = pl
      BY DEF Segment
<1>2. segment_build(src, dst, seg) = buf(tcp_checksum(buf(0), src, dst))
      BY DEF segment_build, TcpHeader, TcpStart
<1>3. n \in 0 .. 10 /\ Len(e) = 4 * n /\ b \in Byte /\ b = 16 * (5 + n) /\ b = 80
  <2>1. b \in Byte
        BY ByteRange
  <2> QED
        BY <2>1
<1> HIDE DEF n, e, b
<1> DEFINE cc == tcp_checksum(TcpHeader(seg, b, 0) \o (e \o seg.payload), src, dst)
           tt == TcpHeader(seg, b, cc) \o (e \o seg.payload)
<1>4. segment_parse(tt, src, dst) = [err |-> "none", seg |-> seg]
  <2>1. OptionWords(e, n)
        BY <1>1, <1>3 DEF OptionWords
  <2> QED
        BY <1>3, <2>1, SegmentRoundTrip
<1>5. tt = buf(tcp_checksum(buf(0), src, dst))
      BY <1>1, <1>3
<1>6. cc \in Word /\ tt \in Seq(Byte) /\ Len(tt) = 20 + Len(pl)
  <2> HIDE DEF r
  <2>1. TcpHeader(seg, b, 0) \o r = TcpHeader(seg, b, 0) \o (e \o seg.payload) /\ r \in Seq(Byte)
        BY <1>1 DEF r
  <2>2. cc \in Word
        BY <1>3, <2>1, TcpChecksum DEF r
  <2> HIDE DEF cc
  <2>3. tt \in Seq(Byte) /\ Len(tt) = 20 + Len(r)
    <3>1. r \in Seq(Byte)
          BY <2>1
    <3>2. TcpHeader(seg, b, cc) \o r \in Seq(Byte) /\ Len(TcpHeader(seg, b, cc) \o r) = 20 + Len(r)
          BY <1>3, <2>2, <3>1, TcpSum
    <3> QED
          BY <3>2 DEF r
  <2> QED
        BY <1>1, <2>2, <2>3
<1> QED
    BY <1>2, <1>4, <1>5, <1>6

\* The packet the stack builds for it is sealed.
LEMMA OwnPacket ==
    ASSUME NEW seg \in Segment, NEW src \in Address, NEW dst \in Address,
           Len(seg.payload) + 121 <= 65535
    PROVE  Sealed(build_packet(src, dst, PROTO_TCP, segment_build(src, dst, seg)), seg, src, dst)
<1> DEFINE t == segment_build(src, dst, seg)
           l == Len(seg.payload)
           total == (20 + Len(t)) % 65536
           hdr(c) == IpHeader(69, total, 0, 0, PROTO_TCP, c, src, dst)
           h == hdr(checksum(hdr(0)))
<1>1. /\ t \in Seq(Byte) /\ Len(t) = 20 + l
      /\ segment_parse(t, src, dst) = [err |-> "none", seg |-> seg]
      BY OwnSegment
<1>2. l \in Nat /\ l + 121 <= 65535
      BY DEF Segment
<1>3. build_packet(src, dst, PROTO_TCP, t) = h \o t
      BY DEF build_packet, IPV4_MIN_HEADER_LEN, IpHeader, IpStart
<1> HIDE DEF t, l
<1>4. total = 20 + Len(t) /\ total \in Word
      BY <1>1, <1>2 DEF Word
<1> HIDE DEF total
<1> DEFINE n == 0
           v == 69
           x == 0
           p == PROTO_TCP
           e == <<>>
<1>5. /\ n \in 0 .. 10 /\ v \in Byte /\ v % 16 = 5 + n /\ x \in Byte /\ p \in Byte
      /\ e \in Seq(Byte) /\ OptionWords(e, n) /\ 20 + 4 * n = 20
  <2>1. v \in Byte /\ x \in Byte /\ p \in Byte
        BY ByteRange DEF PROTO_TCP
  <2> QED
        BY <2>1 DEF OptionWords
<1>6. \A c \in Word : hdr(c) \o e = hdr(c)
  <2> SUFFICES ASSUME NEW c \in Word PROVE hdr(c) \o e = hdr(c)
      OBVIOUS
  <2> DEFINE g == IpHeader(v, total, x, x, p, c, src, dst)
  <2> HIDE DEF v, x, p
  <2>1. g \in Seq(Byte)
        BY <1>4, <1>5, IpHeaderFields
  <2>2. hdr(c) = g
        BY DEF v, x, p
  <2> HIDE DEF g, hdr
  <2> QED
        BY <2>1, <2>2
<1> DEFINE z == IpHeader(v, total, x, x, p, 0, src, dst) \o e
           f == BuiltIp(v, total, x, x, p, src, dst, e)
<1>7. GoodHeader(f, total, p, src, dst) /\ Len(f) = 20
  <2> HIDE DEF n, v, x, p, e
  <2>1. GoodHeader(f, total, p, src, dst) /\ Len(f) = 20 + 4 * n
        BY <1>4, <1>5, BuiltHeader
  <2> HIDE DEF f
  <2> QED
        BY <1>5, <2>1
<1>8. z = hdr(0)
  <2>1. 0 \in Word
        BY DEF Word
  <2>2. hdr(0) \o e = hdr(0)
        BY <1>6, <2>1
  <2> QED
        BY <2>2
<1>9. f = h
  <2>1. z \in Seq(Byte)
    <3>1. 0 \in Word
          BY DEF Word
    <3>2. IpHeader(v, total, x, x, p, 0, src, dst) \in Seq(Byte)
      <4> HIDE DEF v, x, p
      <4> QED
          BY <1>4, <1>5, <3>1, IpHeaderFields
    <3> QED
          BY <1>5, <3>2, Concat
  <2> HIDE DEF z
  <2>2. checksum(z) \in Word
        BY <2>1, SumType, ComplementValue DEF checksum
  <2>3. f = hdr(checksum(z)) \o e
        BY DEF BuiltIp, z
  <2> HIDE DEF f, hdr
  <2> QED
        BY <1>6, <1>8, <2>2, <2>3
<1> HIDE DEF f, h, z
<1>10. GoodHeader(h, total, PROTO_TCP, src, dst) /\ total = Len(h) + Len(t)
  <2>1. GoodHeader(h, total, PROTO_TCP, src, dst)
        BY <1>7, <1>9
  <2>2. Len(h) = 20
        BY <1>7, <1>9
  <2>3. total = Len(h) + Len(t)
        BY <1>1, <1>4, <2>2
  <2> QED
      BY <2>1, <2>3
<1>11. Sealed(h \o t, seg, src, dst)
      BY <1>1, <1>10, SealedIs
<1> QED
    BY <1>3, <1>11 DEF t

\* The same of a segment.
BuiltTcp(seg, b, r, src, dst) ==
    LET c == tcp_checksum(TcpHeader(seg, b, 0) \o r, src, dst) IN TcpHeader(seg, b, c) \o r

\* It has the data offset it was given and passes its checksum.
LEMMA BuiltSegment ==
    ASSUME NEW seg \in Segment, NEW b \in Byte, NEW r \in Seq(Byte),
           NEW src \in Address, NEW dst \in Address
    PROVE  LET t == BuiltTcp(seg, b, r, src, dst)
           IN  /\ t \in Seq(Byte) /\ Len(t) = 20 + Len(r) /\ t[13] = b
               /\ tcp_checksum(t, src, dst) = 0
<1> DEFINE c == tcp_checksum(TcpHeader(seg, b, 0) \o r, src, dst)
           t == TcpHeader(seg, b, c) \o r
           s == TcpStart(seg, b)
<1>1. c \in Word /\ tcp_checksum(t, src, dst) = 0
      BY TcpChecksum
<1> HIDE DEF c
<1>2. t \in Seq(Byte) /\ Len(t) = 20 + Len(r) /\ Starts(s, t)
      BY <1>1, TcpSum
<1>3. Len(s) = 16 /\ s[13] = b
      BY TcpStartFields
<1> HIDE DEF t, s
<1>4. t[13] = b
      BY <1>2, <1>3 DEF Starts
<1> QED
    BY <1>1, <1>2, <1>4 DEF BuiltTcp, t, c

\* Options and payload may be written one after the other.
PiecedTcp(seg, b, o, p, src, dst) ==
    LET tcp(c) == TcpHeader(seg, b, c) \o o \o p IN tcp(tcp_checksum(tcp(0), src, dst))

\* That makes no difference.
LEMMA BuiltInPieces ==
    ASSUME NEW seg \in Segment, NEW b \in Byte, NEW o \in Seq(Byte), NEW p \in Seq(Byte),
           NEW src \in Address, NEW dst \in Address
    PROVE  PiecedTcp(seg, b, o, p, src, dst) = BuiltTcp(seg, b, o \o p, src, dst)
<1> DEFINE r == o \o p
           c == tcp_checksum(TcpHeader(seg, b, 0) \o r, src, dst)
<1>1. r \in Seq(Byte)
      BY Concat
<1>2. ASSUME NEW w \in Word PROVE (TcpHeader(seg, b, w) \o o) \o p = TcpHeader(seg, b, w) \o r
  <2> DEFINE g == TcpHeader(seg, b, w)
  <2>1. g \in Seq(Byte)
        BY <1>1, TcpSum
  <2> HIDE DEF g
  <2>2. (g \o o) \o p = g \o (o \o p)
        BY <2>1, ConcatAssoc
  <2> QED
        BY <2>2 DEF g
<1>3. c \in Word
  <2> HIDE DEF r
  <2> QED
        BY <1>1, TcpChecksum
<1>4. 0 \in Word
      BY DEF Word
<1>5. tcp_checksum((TcpHeader(seg, b, 0) \o o) \o p, src, dst) = c
  <2>1. (TcpHeader(seg, b, 0) \o o) \o p = TcpHeader(seg, b, 0) \o r
        BY <1>2, <1>4
  <2> QED
        BY <2>1
<1>6. (TcpHeader(seg, b, c) \o o) \o p = TcpHeader(seg, b, c) \o r
  <2> HIDE DEF c, r
  <2> QED
        BY <1>2, <1>3
<1> QED
    BY <1>5, <1>6 DEF BuiltTcp, PiecedTcp

\* The two length fields of a foreign packet.
ForeignTotal(o, l) == foreign_total_len(o, 20 + 4 * o.ip, 20 + 4 * o.tcp + l)

\* Options that say "no operation".
LEMMA NoOperationWords ==
    ASSUME NEW n \in 0 .. 10
    PROVE  OptionWords(no_operation(n), n)
<1> DEFINE m == 4 * n
<1>1. m \in Nat
      OBVIOUS
<1>2. 1 \in Byte
      BY ByteRange
<1> HIDE DEF m
<1>3. [i \in 1 .. m |-> 1] \in Seq(Byte) /\ Len([i \in 1 .. m |-> 1]) = m
      BY <1>1, <1>2
<1> QED
    BY <1>3 DEF OptionWords, no_operation, m

\* The addresses are addresses.
LEMMA HostAddress == \A h \in Host : Ip[h] \in Address /\ Mac[h] \in Seq(Byte) /\ Len(Mac[h]) = 6
<1>1. \A b \in Nat : b <= 255 => b \in Byte
      BY ByteRange
<1>2. /\ 192 \in Byte /\ 168 \in Byte /\ 100 \in Byte /\ 1 \in Byte /\ 2 \in Byte /\ 0 \in Byte
      /\ 94 \in Byte /\ 16 \in Byte /\ 10 \in Byte /\ 177 \in Byte /\ 233 \in Byte
      BY <1>1
<1>3. <<192, 168, 100, 1>> \in Address /\ <<192, 168, 100, 2>> \in Address
      BY <1>2 DEF Address
<1>4. /\ <<2, 0, 94, 16, 0, 1>> \in Seq(Byte) /\ Len(<<2, 0, 94, 16, 0, 1>>) = 6
      /\ <<10, 177, 233, 0, 0, 1>> \in Seq(Byte) /\ Len(<<10, 177, 233, 0, 0, 1>>) = 6
      BY <1>2
<1>5. Ip["A"] = <<192, 168, 100, 1>> /\ Ip["B"] = <<192, 168, 100, 2>>
      BY DEF Ip
<1>6. Mac["A"] = <<2, 0, 94, 16, 0, 1>> /\ Mac["B"] = <<10, 177, 233, 0, 0, 1>>
      BY DEF Mac
<1>7. Ip["A"] \in Address /\ Mac["A"] \in Seq(Byte) /\ Len(Mac["A"]) = 6
      BY <1>3, <1>4, <1>5, <1>6
<1>8. Ip["B"] \in Address /\ Mac["B"] \in Seq(Byte) /\ Len(Mac["B"]) = 6
      BY <1>3, <1>4, <1>5, <1>6
<1> QED
    BY <1>7, <1>8 DEF Host

\* A foreign packet in its two parts.
ForeignHeader(o, seg) ==
    BuiltIp(69 + o.ip, ForeignTotal(o, Len(seg.payload)), 18, 52, o.protocol, Ip["A"], Ip["B"],
            no_operation(o.ip))

ForeignSegment(o, seg) ==
    BuiltTcp(seg, 16 * foreign_data_offset(o), no_operation(o.tcp) \o seg.payload, Ip["A"], Ip["B"])

\* What they are.
ForeignFacts(o, seg, h, t, l) ==
    /\ foreign_packet(o, seg) = h \o t
    /\ GoodHeader(h, ForeignTotal(o, l), o.protocol, Ip["A"], Ip["B"])
    /\ Len(h) = 20 + 4 * o.ip
    /\ t \in Seq(Byte) /\ Len(t) = 20 + 4 * o.tcp + l
    /\ t[13] = 16 * foreign_data_offset(o) /\ tcp_checksum(t, Ip["A"], Ip["B"]) = 0
    /\ o.data_offset = "right" =>
          segment_parse(t, Ip["A"], Ip["B"]) = [err |-> "none", seg |-> seg]

\* It is so.
LEMMA ForeignParts ==
    ASSUME NEW o \in Option, NEW seg \in Segment, Len(seg.payload) + 121 <= 65535
    PROVE  ForeignFacts(o, seg, ForeignHeader(o, seg), ForeignSegment(o, seg), Len(seg.payload))
<1> DEFINE pl == seg.payload
           l == Len(pl)
           src == Ip["A"]
           dst == Ip["B"]
           a == o.ip
           b == o.tcp
           p == o.protocol
           total == ForeignTotal(o, l)
           off == foreign_data_offset(o)
           v == 69 + a
           x == 18
           y == 52
           w == 16 * off
           fa == no_operation(a)
           fb == no_operation(b)
           r == fb \o pl
           h == BuiltIp(v, total, x, y, p, src, dst, fa)
           t == BuiltTcp(seg, w, r, src, dst)
           c0 == tcp_checksum(TcpHeader(seg, w, 0) \o r, src, dst)
<1>1. /\ a \in 0 .. 10 /\ b \in 0 .. 10 /\ p \in Byte
      /\ o.total_len \in {"right", "long", "short", "zero"}
      /\ o.data_offset \in {"right", "long", "short"}
      BY DEF Option
<1>2. pl \in Seq(Byte) /\ l \in Nat /\ l + 121 <= 65535
      BY DEF Segment
<1>3. src \in Address /\ dst \in Address
      BY HostAddress DEF Host
<1>4. OptionWords(fa, a) /\ OptionWords(fb, b) /\ fb \in Seq(Byte) /\ Len(fb) = 4 * b
  <2>1. OptionWords(fa, a) /\ OptionWords(fb, b)
        BY <1>1, NoOperationWords
  <2> QED
        BY <2>1 DEF OptionWords
<1>5. total \in Word
  <2> DEFINE H == 20 + 4 * a
             S == 20 + 4 * b + l
  <2>1. H \in Nat /\ H >= 20 /\ H <= 60 /\ S \in Nat /\ S <= 60 + l
    <3> HIDE DEF a, b, l
    <3> QED
        BY <1>1, <1>2
  <2> HIDE DEF H, S
  <2>2. foreign_total_len(o, H, S) \in {H + S, H + S + 1, 0, H - 1}
        BY <1>1 DEF foreign_total_len
  <2>3. total = foreign_total_len(o, H, S)
        BY DEF ForeignTotal, H, S
  <2> HIDE DEF total, l
  <2>4. total \in Nat /\ total < 65536
        BY <1>2, <2>1, <2>2, <2>3
  <2> QED
        BY <2>4 DEF Word
<1>6. off \in Nat /\ off <= 15 /\ (o.data_offset = "right" => off = 5 + b)
      BY <1>1 DEF foreign_data_offset
<1>7. v \in Byte /\ x \in Byte /\ y \in Byte /\ v % 16 = 5 + a /\ w \in Byte
  <2> HIDE DEF a, off
  <2>1. v \in Nat /\ v <= 255 /\ w \in Nat /\ w <= 255
        BY <1>1, <1>6
  <2> QED
        BY <1>1, <2>1, ByteRange
<1>8. r \in Seq(Byte) /\ Len(r) = 4 * b + l
  <2> HIDE DEF fb, pl
  <2> QED
      BY <1>2, <1>4, Concat
<1>9. GoodHeader(h, total, p, src, dst) /\ Len(h) = 20 + 4 * a
  <2>1. /\ v \in Byte /\ total \in Word /\ x \in Byte /\ y \in Byte /\ p \in Byte
        /\ src \in Address /\ dst \in Address /\ OptionWords(fa, a) /\ v % 16 = 5 + a
        BY <1>1, <1>3, <1>4, <1>5, <1>7
  <2> HIDE DEF a, p, v, x, y, total, fa, src, dst
  <2> QED
        BY <2>1, BuiltHeader
<1>10. t \in Seq(Byte) /\ Len(t) = 20 + Len(r) /\ t[13] = w /\ tcp_checksum(t, src, dst) = 0
  <2>1. w \in Byte /\ r \in Seq(Byte) /\ src \in Address /\ dst \in Address
        BY <1>3, <1>7, <1>8
  <2> HIDE DEF w, r, src, dst
  <2> QED
        BY <2>1, BuiltSegment
<1>11. o.data_offset = "right" => segment_parse(t, src, dst) = [err |-> "none", seg |-> seg]
  <2> SUFFICES ASSUME o.data_offset = "right"
               PROVE  segment_parse(t, src, dst) = [err |-> "none", seg |-> seg]
      OBVIOUS
  <2>1. w = 16 * (5 + b)
        BY <1>6
  <2>2. t = TcpHeader(seg, w, tcp_checksum(TcpHeader(seg, w, 0) \o (fb \o seg.payload), src, dst))
            \o (fb \o seg.payload)
        BY DEF BuiltTcp
  <2> HIDE DEF w, fb, src, dst, b, t
  <2> QED
        BY <1>3, <1>4, <1>7, <2>1, <2>2, SegmentRoundTrip
<1>12. foreign_packet(o, seg) = h \o t
  <2> DEFINE tc(c) == TcpHeader(seg, w, c) \o fb \o pl
             ip(c) == IpHeader(v, total, x, y, p, c, src, dst) \o fa
  <2>1. foreign_packet(o, seg) = ip(checksum(ip(0))) \o tc(tcp_checksum(tc(0), src, dst))
        BY DEF foreign_packet, IpHeader, IpStart, TcpHeader, TcpStart, ForeignTotal
  <2>2. ip(checksum(ip(0))) = h
        BY DEF BuiltIp
  <2>3. tc(tcp_checksum(tc(0), src, dst)) = t
    <3>1. w \in Byte /\ fb \in Seq(Byte) /\ pl \in Seq(Byte) /\ src \in Address /\ dst \in Address
          BY <1>2, <1>3, <1>4, <1>7
    <3>2. tc(tcp_checksum(tc(0), src, dst)) = PiecedTcp(seg, w, fb, pl, src, dst)
          BY DEF PiecedTcp
    <3> HIDE DEF w, fb, pl, src, dst
    <3>3. PiecedTcp(seg, w, fb, pl, src, dst) = BuiltTcp(seg, w, fb \o pl, src, dst)
          BY <3>1, BuiltInPieces
    <3> HIDE DEF tc
    <3> QED
          BY <3>2, <3>3
  <2> HIDE DEF ip, tc, h, t
  <2> QED
        BY <2>1, <2>2, <2>3
<1>13. Len(t) = 20 + 4 * b + l
  <2> HIDE DEF t, r, l, b
  <2> QED
      BY <1>1, <1>2, <1>8, <1>10
<1>14. ForeignHeader(o, seg) = h /\ ForeignSegment(o, seg) = t
      BY DEF ForeignHeader, ForeignSegment
<1> QED
    BY <1>9, <1>10, <1>11, <1>12, <1>13, <1>14 DEF ForeignFacts

\* A sealed packet is accepted as it is and padded, and neither cut nor with a
\* byte changed.
LEMMA SealedPacket ==
    ASSUME NEW q, NEW seg, NEW src \in Address, NEW dst \in Address, Sealed(q, seg, src, dst)
    PROVE  /\ q \in Seq(Byte)
           /\ \A pad \in Seq(Byte) :
                 /\ q \o pad \in Seq(Byte) /\ Accepts(q \o pad) /\ Parsed(q \o pad) = seg
                 /\ slice(q \o pad, 12, 16) = src /\ slice(q \o pad, 16, 20) = dst
           /\ \A n \in Nat : n < Len(q) =>
                 SubSeq(q, 1, n) \in Seq(Byte) /\ ~ Accepts(SubSeq(q, 1, n))
           /\ \A j \in 1 .. Len(q), b \in Byte : q[j] # b =>
                 [q EXCEPT ![j] = b] \in Seq(Byte) /\ ~ Accepts([q EXCEPT ![j] = b])
<1>1. PICK h, t : /\ q = h \o t /\ t \in Seq(Byte)
                  /\ GoodHeader(h, Len(h) + Len(t), PROTO_TCP, src, dst)
                  /\ segment_parse(t, src, dst) = [err |-> "none", seg |-> seg]
      BY Zenon DEF Sealed
<1> DEFINE total == Len(h) + Len(t)
           p == PROTO_TCP
<1>2. GoodHeader(h, total, p, src, dst) /\ total = Len(h) + Len(t) /\ t \in Seq(Byte)
      BY <1>1
<1> HIDE DEF total, p
<1>3. segment_parse(t, src, dst) = [err |-> "none", seg |-> seg]
      BY <1>1
<1>4. tcp_checksum(t, src, dst) = 0
  <2>1. segment_parse(t, src, dst).err = "none"
        BY <1>3
  <2> QED
        BY <1>2, <2>1, SegmentAccepted
<1>5. /\ h \o t \in Seq(Byte) /\ Len(h \o t) >= 20 /\ TotalLen(h \o t) = Len(h \o t)
  <2>1. /\ h \o t \in Seq(Byte) /\ Len(h \o t) >= 20 /\ TotalLen(h \o t) = total
        /\ Len(h \o t) = Len(h) + Len(t)
        BY <1>2, HeaderRead
  <2> QED
        BY <1>2, <2>1
<1>6. ASSUME NEW pad \in Seq(Byte)
      PROVE  LET raw == (h \o t) \o pad
             IN  /\ raw \in Seq(Byte) /\ Accepts(raw) /\ Parsed(raw) = seg
                 /\ slice(raw, 12, 16) = src /\ slice(raw, 16, 20) = dst
      BY <1>2, <1>3, IntactAccepted DEF p
<1>7. ASSUME NEW n \in Nat, n < Len(h \o t)
      PROVE  SubSeq(h \o t, 1, n) \in Seq(Byte) /\ ~ Accepts(SubSeq(h \o t, 1, n))
      BY <1>5, <1>7, CutRejected
<1>8. ASSUME NEW j \in 1 .. Len(h \o t), NEW b \in Byte, (h \o t)[j] # b
      PROVE  [h \o t EXCEPT ![j] = b] \in Seq(Byte) /\ ~ Accepts([h \o t EXCEPT ![j] = b])
      BY <1>2, <1>4, <1>8, DamagedRejected
<1>9. q = h \o t
      BY <1>1
<1> QED
    BY <1>5, <1>6, <1>7, <1>8, <1>9

\* A foreign packet whose lengths are right is sealed.
LEMMA ForeignSealed ==
    ASSUME NEW o \in Option, NEW seg \in Segment, Len(seg.payload) + 121 <= 65535,
           o.total_len = "right", o.data_offset = "right", o.protocol = PROTO_TCP
    PROVE  Sealed(foreign_packet(o, seg), seg, Ip["A"], Ip["B"])
<1> DEFINE src == Ip["A"]
           dst == Ip["B"]
           l == Len(seg.payload)
           total == ForeignTotal(o, l)
           h == ForeignHeader(o, seg)
           t == ForeignSegment(o, seg)
           a == o.ip
           b == o.tcp
<1>1. /\ foreign_packet(o, seg) = h \o t
      /\ GoodHeader(h, total, o.protocol, src, dst)
      /\ Len(h) = 20 + 4 * a
      /\ t \in Seq(Byte) /\ Len(t) = 20 + 4 * b + l
      /\ segment_parse(t, src, dst) = [err |-> "none", seg |-> seg]
  <2>1. ForeignFacts(o, seg, h, t, l)
        BY ForeignParts
  <2> HIDE DEF h, t, l
  <2> QED
        BY <2>1 DEF ForeignFacts
<1>2. total = (20 + 4 * a) + (20 + 4 * b + l)
      BY DEF ForeignTotal, foreign_total_len
<1> HIDE DEF total, h, t, src, dst, a, b, l
<1>3. total = Len(h) + Len(t)
      BY <1>1, <1>2
<1>4. Sealed(h \o t, seg, src, dst)
  <2>1. GoodHeader(h, total, PROTO_TCP, src, dst)
        BY <1>1
  <2>2. t \in Seq(Byte) /\ segment_parse(t, src, dst) = [err |-> "none", seg |-> seg]
        BY <1>1
  <2> QED
        BY ONLY <1>3, <2>1, <2>2, SealedIs
<1> QED
    BY <1>1, <1>4 DEF src, dst

\* A packet with padding behind it.
Padded(h, t, pad) == (h \o t) \o pad

\* The bytes of s follow the first n, and those of pad the next m.
Holds(raw, n, s) == \A i \in 1 .. Len(s) : raw[n + i] = s[i]
Behind(raw, n, m, pad) == \A i \in 1 .. Len(pad) : raw[n + (m + i)] = pad[i]

\* What it says.
LEMMA PaddedRead ==
    ASSUME NEW h, NEW total, NEW p, NEW src, NEW dst, GoodHeader(h, total, p, src, dst),
           NEW t \in Seq(Byte), NEW pad \in Seq(Byte)
    PROVE  LET raw == Padded(h, t, pad)
           IN  /\ raw \in Seq(Byte) /\ raw[10] = p /\ total \in Nat
               /\ HeaderLen(raw) = Len(h) /\ TotalLen(raw) = total
               /\ slice(raw, 12, 16) = src /\ slice(raw, 16, 20) = dst
               /\ Len(h) \in Nat /\ Len(t) \in Nat /\ Len(pad) \in Nat
               /\ Len(raw) = Len(h) + (Len(t) + Len(pad))
               /\ Holds(raw, Len(h), t) /\ Behind(raw, Len(h), Len(t), pad)
<1> DEFINE r == t \o pad
           raw == (h \o t) \o pad
<1>1. h \in Seq(Byte)
      BY DEF GoodHeader
<1>2. /\ r \in Seq(Byte) /\ Len(r) = Len(t) + Len(pad) /\ Len(t) \in Nat /\ Len(pad) \in Nat
      /\ \A i \in 1 .. Len(t) : r[i] = t[i]
      /\ \A i \in 1 .. Len(pad) : r[Len(t) + i] = pad[i]
      BY Concat
<1>3. raw = h \o r
      BY <1>1, ConcatAssoc
<1> HIDE DEF r, raw
<1>4. /\ h \o r \in Seq(Byte) /\ Len(h \o r) = Len(h) + Len(r) /\ Len(h) \in Nat
      /\ \A i \in 1 .. Len(r) : (h \o r)[Len(h) + i] = r[i]
      BY <1>1, <1>2, Concat
<1>5. /\ raw \in Seq(Byte) /\ Len(raw) = Len(h) + Len(r) /\ Len(h) \in Nat
      /\ \A i \in 1 .. Len(r) : raw[Len(h) + i] = r[i]
      BY <1>3, <1>4
<1>6. /\ HeaderLen(raw) = Len(h) /\ TotalLen(raw) = total /\ raw[10] = p /\ total \in Nat
      /\ slice(raw, 12, 16) = src /\ slice(raw, 16, 20) = dst
      BY <1>2, <1>3, HeaderRead
<1>7. ASSUME NEW i \in 1 .. Len(t) PROVE raw[Len(h) + i] = t[i]
  <2>1. i \in 1 .. Len(r)
        BY <1>2
  <2> QED
        BY <1>2, <1>5, <2>1
<1>8. ASSUME NEW i \in 1 .. Len(pad) PROVE raw[Len(h) + (Len(t) + i)] = pad[i]
  <2> DEFINE j == Len(t) + i
  <2>1. j \in 1 .. Len(r) /\ r[j] = pad[i]
        BY <1>2
  <2> HIDE DEF j
  <2>2. raw[Len(h) + j] = pad[i]
        BY <1>5, <2>1
  <2> QED
        BY <2>2 DEF j
<1>9. Len(raw) = Len(h) + (Len(t) + Len(pad))
      BY <1>2, <1>5
<1>10. Padded(h, t, pad) = raw
      BY DEF Padded, raw
<1> QED
    BY <1>2, <1>5, <1>6, <1>7, <1>8, <1>9, <1>10 DEF Holds, Behind

\* A total length below that of the header, or another protocol.
LEMMA ShortTotal ==
    ASSUME NEW h, NEW total, NEW p, NEW src, NEW dst, GoodHeader(h, total, p, src, dst),
           NEW t \in Seq(Byte), NEW pad \in Seq(Byte), total < Len(h) \/ p # PROTO_TCP
    PROVE  ~ Accepts(Padded(h, t, pad))
<1> DEFINE raw == Padded(h, t, pad)
<1>1. /\ raw \in Seq(Byte) /\ HeaderLen(raw) = Len(h) /\ TotalLen(raw) = total /\ raw[10] = p
      /\ total \in Nat /\ Len(h) \in Nat
      BY PaddedRead
<1> HIDE DEF raw
<1> SUFFICES ASSUME Accepts(raw) PROVE FALSE
    BY DEF raw
<1>2. HeaderLen(raw) <= TotalLen(raw) /\ raw[10] = 6
      BY <1>1, AcceptedPacket
<1> QED
    BY <1>1, <1>2 DEF PROTO_TCP

\* A data offset below 5 or beyond the end of the segment.
LEMMA WrongOffset ==
    ASSUME NEW h, NEW total, NEW p, NEW src, NEW dst, GoodHeader(h, total, p, src, dst),
           NEW t \in Seq(Byte), NEW pad \in Seq(Byte), total = Len(h) + Len(t),
           NEW off \in Nat, t[13] = 16 * off, off < 5 \/ Len(t) < 4 * off
    PROVE  ~ Accepts(Padded(h, t, pad))
<1> DEFINE raw == Padded(h, t, pad)
           g == h \o t
           n == Len(h)
           k == n + Len(t)
           s == slice(raw, n, k)
<1>1. /\ raw \in Seq(Byte) /\ HeaderLen(raw) = n /\ TotalLen(raw) = k /\ n \in Nat
      /\ Len(t) \in Nat
      BY PaddedRead
<1>2. h \in Seq(Byte)
      BY DEF GoodHeader
<1>3. g \in Seq(Byte) /\ Len(g) = k /\ slice(g, n, k) = t
      BY <1>2, Concat, SliceSecond
<1>4. k \in Nat /\ k <= Len(g)
      BY <1>1, <1>3
<1>5. s = t
  <2> HIDE DEF g, k, n
  <2>1. slice(g \o pad, n, k) = slice(g, n, k)
        BY <1>1, <1>3, <1>4, SliceConcat
  <2>2. raw = g \o pad
        BY DEF Padded, g
  <2> QED
        BY <1>3, <2>1, <2>2
<1> HIDE DEF raw, s, n, k
<1> SUFFICES ASSUME Accepts(raw) PROVE FALSE
    BY DEF raw
<1>6. s[13] \div 16 >= 5 /\ 4 * (s[13] \div 16) <= Len(s)
      BY <1>1, AcceptedPacket DEF s
<1>7. t[13] \div 16 = off
      BY <1>1
<1> QED
    BY <1>1, <1>5, <1>6, <1>7

\* A total length of one byte more, and zeros behind the packet: the byte is
\* taken for one of the segment and adds nothing to its sum, but its length is
\* summed as well.
LEMMA OneTooLong ==
    ASSUME NEW h, NEW total, NEW p, NEW src \in Address, NEW dst \in Address,
           GoodHeader(h, total, p, src, dst),
           NEW t \in Seq(Byte), total = Len(h) + Len(t) + 1, tcp_checksum(t, src, dst) = 0,
           NEW pad \in Seq(Byte), \A i \in 1 .. Len(pad) : pad[i] = 0
    PROVE  ~ Accepts(Padded(h, t, pad))
<1> DEFINE raw == Padded(h, t, pad)
           n == Len(h)
           m == Len(t)
           l == Len(pad)
           u == t \o <<0>>
           s == slice(raw, n, total)
<1>1. /\ raw \in Seq(Byte) /\ total \in Nat /\ HeaderLen(raw) = n /\ TotalLen(raw) = total
      /\ slice(raw, 12, 16) = src /\ slice(raw, 16, 20) = dst
      /\ n \in Nat /\ m \in Nat /\ l \in Nat /\ Len(raw) = n + (m + l)
      /\ \A i \in 1 .. m : raw[n + i] = t[i]
      /\ \A i \in 1 .. l : raw[n + (m + i)] = pad[i]
  <2>1. GoodHeader(h, total, p, src, dst) /\ t \in Seq(Byte) /\ pad \in Seq(Byte)
        OBVIOUS
  <2> HIDE DEF raw
  <2>2. LET q == Padded(h, t, pad)
        IN  /\ q \in Seq(Byte) /\ total \in Nat /\ HeaderLen(q) = n /\ TotalLen(q) = total
            /\ slice(q, 12, 16) = src /\ slice(q, 16, 20) = dst
            /\ n \in Nat /\ m \in Nat /\ l \in Nat /\ Len(q) = n + (m + l)
        BY ONLY <2>1, PaddedRead
  <2>3. LET q == Padded(h, t, pad)
        IN  Holds(q, n, t) /\ Behind(q, n, m, pad)
        BY ONLY <2>1, PaddedRead
  <2> QED
        BY <2>2, <2>3 DEF raw, Holds, Behind
<1>3. total = n + m + 1
      OBVIOUS
<1>4. 0 \in Byte
      BY ByteRange
<1>5. /\ u \in Seq(Byte) /\ Len(u) = m + 1 /\ u[m + 1] = 0 /\ \A i \in 1 .. m : u[i] = t[i]
      BY <1>4
<1>6. word_sum(u) = word_sum(t)
      BY SumZero
<1> HIDE DEF raw, u
<1> SUFFICES ASSUME Accepts(raw) PROVE FALSE
    BY DEF raw
<1>7. /\ total <= Len(raw) /\ n <= total
      /\ s \in Seq(Byte) /\ Len(s) = total - n /\ tcp_checksum(s, src, dst) = 0
  <2>1. LET k == HeaderLen(raw)
            e == TotalLen(raw)
            v == slice(raw, k, e)
        IN  /\ k <= e /\ e <= Len(raw) /\ v \in Seq(Byte) /\ Len(v) = e - k
            /\ tcp_checksum(v, slice(raw, 12, 16), slice(raw, 16, 20)) = 0
        BY <1>1, AcceptedPacket
  <2> HIDE DEF n
  <2> QED
        BY <1>1, <2>1
<1>8. l >= 1
  <2> HIDE DEF n, m, l
  <2> QED
      BY <1>1, <1>3, <1>7
<1>9. \A i \in 1 .. (m + 1) : s[i] = raw[n + i]
  <2>1. \A i \in 1 .. (total - n) : s[i] = raw[n + i]
    <3> HIDE DEF n
    <3> QED
      BY <1>1, <1>7, SliceBytes
  <2>2. total - n = m + 1
    <3> HIDE DEF n, m
    <3> QED
        BY <1>1, <1>3
  <2> HIDE DEF n, m, s
  <2> QED
        BY <2>1, <2>2
<1>10. pad[1] = 0
      BY <1>1, <1>8
<1> HIDE DEF s, n, m, l
<1>11. ASSUME NEW i \in 1 .. (m + 1) PROVE s[i] = u[i]
  <2>1. s[i] = raw[n + i]
        BY <1>9
  <2>2. CASE i \in 1 .. m
        BY <1>1, <1>5, <2>1, <2>2
  <2>3. CASE i = m + 1
    <3>1. 1 \in 1 .. l
          BY <1>1, <1>8
    <3>2. raw[n + (m + 1)] = pad[1]
          BY <1>1, <3>1
    <3> QED
          BY <1>5, <1>10, <2>1, <2>3, <3>2
  <2> QED
      BY <1>1, <2>2, <2>3
<1>12. Len(s) = m + 1
      BY <1>1, <1>3, <1>7
<1>13. s = u
      BY <1>5, <1>7, <1>11, <1>12
<1>14. word_sum(t) \in Nat /\ Pseudo(src, dst) \in Nat
      BY SumType, PseudoType
<1>15. /\ complement(Pseudo(src, dst) + Len(s) + word_sum(s)) = 0
       /\ complement(Pseudo(src, dst) + Len(t) + word_sum(t)) = 0
      BY <1>7 DEF tcp_checksum, Pseudo
<1> DEFINE w == word_sum(t)
           f == Pseudo(src, dst)
           x == f + m + w
           y == f + (m + 1) + w
<1>16. complement(x) = 0 /\ complement(y) = 0
      BY <1>6, <1>12, <1>13, <1>15 DEF m
<1>17. w \in Nat /\ f \in Nat
      BY <1>14
<1> HIDE DEF w, f
<1>18. x \in Nat /\ y \in Nat /\ y = x + 1
      BY <1>1, <1>17
<1> HIDE DEF x, y
<1>19. x % 65535 = 0 /\ y % 65535 = 0
      BY <1>16, <1>18, ComplementValue
<1> QED
    BY <1>18, <1>19

\* A foreign packet with a wrong length or another protocol is dropped,
\* whatever zeros follow it.
LEMMA ForeignDropped ==
    ASSUME NEW o \in Option, NEW seg \in Segment, Len(seg.payload) + 121 <= 65535,
           o.data_offset = "long" => 20 + 4 * o.tcp + Len(seg.payload) < 60,
           ~ (o.total_len = "right" /\ o.data_offset = "right" /\ o.protocol = PROTO_TCP),
           NEW pad \in Seq(Byte), \A i \in 1 .. Len(pad) : pad[i] = 0
    PROVE  foreign_packet(o, seg) \in Seq(Byte) /\ ~ Accepts(foreign_packet(o, seg) \o pad)
<1> DEFINE src == Ip["A"]
           dst == Ip["B"]
           l == Len(seg.payload)
           total == ForeignTotal(o, l)
           h == ForeignHeader(o, seg)
           t == ForeignSegment(o, seg)
           a == o.ip
           b == o.tcp
           p == o.protocol
           off == foreign_data_offset(o)
<1>1. /\ foreign_packet(o, seg) = h \o t
      /\ GoodHeader(h, total, p, src, dst)
      /\ Len(h) = 20 + 4 * a
      /\ t \in Seq(Byte) /\ Len(t) = 20 + 4 * b + l
      /\ t[13] = 16 * off /\ tcp_checksum(t, src, dst) = 0
  <2>1. ForeignFacts(o, seg, h, t, l)
        BY ForeignParts
  <2> HIDE DEF h, t, l
  <2> QED
        BY <2>1 DEF ForeignFacts
<1>2. /\ a \in 0 .. 10 /\ b \in 0 .. 10 /\ l \in Nat
      /\ o.total_len \in {"right", "long", "short", "zero"}
      /\ o.data_offset \in {"right", "long", "short"}
      BY DEF Option, Segment
<1>3. src \in Address /\ dst \in Address
      BY HostAddress DEF Host
<1>4. total = CASE o.total_len = "right" -> (20 + 4 * a) + (20 + 4 * b + l)
                [] o.total_len = "long"  -> (20 + 4 * a) + (20 + 4 * b + l) + 1
                [] o.total_len = "zero"  -> 0
                [] o.total_len = "short" -> (20 + 4 * a) - 1
      BY DEF ForeignTotal, foreign_total_len
<1>5. off = CASE o.data_offset = "right" -> 5 + b
              [] o.data_offset = "long"  -> 15
              [] o.data_offset = "short" -> 4
      BY DEF foreign_data_offset
<1>6. o.data_offset = "long" => Len(t) < 60
      BY <1>1
<1> HIDE DEF src, dst, total, h, t, a, b, p, off, l
<1>7. /\ o.total_len = "right" => total = Len(h) + Len(t)
      /\ o.total_len = "long" => total = Len(h) + Len(t) + 1
      /\ o.total_len \in {"zero", "short"} => total < Len(h)
  <2> DEFINE x == Len(h)
             y == Len(t)
             k == o.total_len
  <2>1. x = 20 + 4 * a /\ y = 20 + 4 * b + l
        BY <1>1
  <2>2. /\ k = "right" => total = (20 + 4 * a) + (20 + 4 * b + l)
        /\ k = "long" => total = (20 + 4 * a) + (20 + 4 * b + l) + 1
        /\ k = "zero" => total = 0
        /\ k = "short" => total = (20 + 4 * a) - 1
        BY <1>4
  <2> HIDE DEF x, y, k
  <2>3. k \in {"zero", "short"} => total < x
        BY <1>2, <2>1, <2>2
  <2>4. (k = "right" => total = x + y) /\ (k = "long" => total = x + y + 1)
        BY <1>2, <2>1, <2>2
  <2> QED
        BY <2>3, <2>4 DEF x, y, k
<1>8. h \o t \in Seq(Byte)
  <2>1. h \in Seq(Byte)
        BY <1>1 DEF GoodHeader
  <2> QED
        BY <1>1, <2>1, Concat
<1>9. SUFFICES ~ Accepts(Padded(h, t, pad))
      BY <1>1, <1>8 DEF Padded
<1>10. CASE p # PROTO_TCP \/ o.total_len \in {"zero", "short"}
      BY <1>1, <1>7, <1>10, ShortTotal
<1>11. CASE o.total_len = "long"
      BY <1>1, <1>3, <1>7, <1>11, OneTooLong
<1>12. CASE o.total_len = "right" /\ p = PROTO_TCP
  <2>1. o.data_offset # "right"
        BY <1>12 DEF p
  <2>2. off \in Nat /\ (off < 5 \/ Len(t) < 4 * off)
        BY <1>2, <1>5, <1>6, <2>1
  <2> QED
        BY <1>1, <1>7, <1>12, <2>2, WrongOffset
<1> QED
    BY <1>2, <1>10, <1>11, <1>12

-----------------------------------------------------------------------------
(* The link layer.                                                         *)

\* inbound of the build for o.
Inbound(o, raw, h) ==
    LET buf == IF o = "linux" THEN raw ELSE IF Len(raw) <= 4 THEN <<>> ELSE from(raw, 4) IN
    IF buf = <<>> THEN None
    ELSE IF o = "linux" THEN inbound_dispatch_linux(buf, Ip[h], Mac[h])
    ELSE inbound_dispatch_macos(buf)

\* What precedes a packet of host h, and the addresses dispatch is told.
Link(o, h) == IF o = "linux" THEN Mac[peer(h)] \o Mac[h] \o be16(ETHERTYPE_IPV4) ELSE AF_INET

LinkLen(o)    == IF o = "linux" THEN 14 ELSE 4
OwnMac(o, h)  == IF o = "linux" THEN Mac[peer(h)] ELSE ZERO_MAC
PeerMac(o, h) == IF o = "linux" THEN Mac[h] ELSE ZERO_MAC

\* The two addresses at the start of a frame, whatever follows.
LEMMA AddressSlices ==
    ASSUME NEW e \in Seq(Byte), NEW v \in Seq(Byte), Len(e) >= 12
    PROVE  slice(e \o v, 0, 6) = slice(e, 0, 6) /\ slice(e \o v, 6, 12) = slice(e, 6, 12)
<1> DEFINE a == 0
           b == 6
           c == 12
<1>1. a \in Nat /\ b \in Nat /\ c \in Nat /\ b <= Len(e) /\ c <= Len(e)
      OBVIOUS
<1> HIDE DEF a, b, c
<1>2. slice(e \o v, a, b) = slice(e, a, b) /\ slice(e \o v, b, c) = slice(e, b, c)
      BY <1>1, SliceConcat
<1> QED
    BY <1>2 DEF a, b, c

\* The Ethernet header is read back.
LEMMA EthernetRead ==
    ASSUME NEW d \in Seq(Byte), Len(d) = 6, NEW s \in Seq(Byte), Len(s) = 6, NEW w \in Word,
           NEW x \in Seq(Byte)
    PROVE  LET l == d \o s \o be16(w)
               raw == l \o x
           IN  /\ l \in Seq(Byte) /\ Len(l) = 14
               /\ raw \in Seq(Byte) /\ Len(raw) = 14 + Len(x) /\ Len(x) \in Nat
               /\ u16(raw, 12) = w
               /\ slice(raw, 0, 6) = d /\ slice(raw, 6, 12) = s /\ from(raw, 14) = x
<1> DEFINE e == d \o s
           l == e \o be16(w)
           raw == l \o x
<1>1. e \in Seq(Byte) /\ Len(e) = 12 /\ slice(e, 0, 6) = d /\ slice(e, 6, 12) = s
  <2>1. e \in Seq(Byte) /\ Len(e) = Len(d) + Len(s)
        BY Concat
  <2>2. slice(e, Len(d), Len(d) + Len(s)) = s
        BY SliceSecond
  <2>3. slice(e, 0, 6) = slice(d, 0, 6)
    <3>1. 0 \in Nat /\ 6 \in Nat /\ 6 <= Len(d)
          OBVIOUS
    <3> QED
          BY <3>1, SliceConcat, Zenon
  <2>4. slice(d, 0, Len(d)) = d
        BY SliceAll
  <2> HIDE DEF e
  <2>5. Len(d) + Len(s) = 12
        OBVIOUS
  <2> QED
        BY <2>1, <2>2, <2>3, <2>4, <2>5
<1> HIDE DEF e
<1>2. l \in Seq(Byte) /\ Len(l) = 14 /\ u16(l, 12) = w /\ Starts(e, l)
  <2>1. 12 \in Nat /\ Len(e) = 12
        BY <1>1
  <2>2. l \in Seq(Byte) /\ Len(l) = 12 + 2 /\ u16(l, 12) = w /\ Starts(e, l)
        BY <1>1, <2>1, StartsWord, Zenon
  <2> HIDE DEF l
  <2> QED
        BY <2>2
<1>3. be16(w) \in Seq(Byte)
      BY Halves DEF be16
<1>4. slice(l, 0, 6) = slice(e, 0, 6) /\ slice(l, 6, 12) = slice(e, 6, 12)
  <2> DEFINE v == be16(w)
  <2>1. v \in Seq(Byte) /\ e \in Seq(Byte) /\ Len(e) >= 12
        BY <1>1, <1>3
  <2> HIDE DEF v
  <2>2. slice(e \o v, 0, 6) = slice(e, 0, 6) /\ slice(e \o v, 6, 12) = slice(e, 6, 12)
        BY <2>1, AddressSlices
  <2> QED
        BY <2>2 DEF v
<1> HIDE DEF l
<1>5. raw \in Seq(Byte) /\ Len(raw) = Len(l) + Len(x) /\ Len(x) \in Nat /\ Starts(l, raw)
      BY <1>2, Concat, StartsConcat
<1>6. slice(raw, 0, 6) = slice(l, 0, 6) /\ slice(raw, 6, 12) = slice(l, 6, 12)
  <2>1. l \in Seq(Byte) /\ Len(l) >= 12
        BY <1>2
  <2> QED
        BY <2>1, AddressSlices
<1>7. from(raw, Len(l)) = x
      BY <1>2, FromConcat
<1> HIDE DEF raw
<1>8. u16(raw, 12) = u16(l, 12)
  <2>1. 12 \in Nat /\ 12 + 2 <= Len(l)
        BY <1>2
  <2> QED
        BY <1>5, <2>1, StartWord, Zenon
<1> QED
    BY <1>1, <1>2, <1>4, <1>5, <1>6, <1>7, <1>8 DEF e, l, raw

\* A packet in its frame reaches the second half of inbound_dispatch.
LEMMA LinkRead ==
    ASSUME NEW o \in {"linux", "macos"}, NEW h \in Host, NEW g, NEW x \in Seq(Byte)
    PROVE  /\ Link(o, h) \in Seq(Byte) /\ Len(Link(o, h)) = LinkLen(o) /\ LinkLen(o) \in Nat
           /\ Inbound(o, Link(o, h) \o x, g) = dispatch_packet(x, OwnMac(o, h), PeerMac(o, h))
<1> DEFINE d == Mac[peer(h)]
           s == Mac[h]
           w == ETHERTYPE_IPV4
<1>1. d \in Seq(Byte) /\ Len(d) = 6 /\ s \in Seq(Byte) /\ Len(s) = 6
      BY HostAddress DEF peer, Host
<1>2. w \in Word
      BY DEF Word, ETHERTYPE_IPV4
<1> HIDE DEF d, s, w
<1>3. CASE o = "linux"
  <2> DEFINE l == d \o s \o be16(w)
             raw == l \o x
  <2>1. /\ l \in Seq(Byte) /\ Len(l) = 14
        /\ raw \in Seq(Byte) /\ Len(raw) = 14 + Len(x) /\ Len(x) \in Nat
        /\ u16(raw, 12) = w
        /\ slice(raw, 0, 6) = d /\ slice(raw, 6, 12) = s /\ from(raw, 14) = x
        BY <1>1, <1>2, EthernetRead
  <2>2. Link(o, h) = l
        BY <1>3 DEF Link, d, s, w
  <2> HIDE DEF l, raw
  <2> DEFINE f == ethernet_parse(raw)
  <2>3. f = [err |-> "none", dst_mac |-> d, src_mac |-> s, payload |-> x]
        BY <2>1 DEF ethernet_parse, reads, ETHERNET_HEADER_LEN, w
  <2> HIDE DEF f
  <2>4. f.err = "none" /\ f.dst_mac = d /\ f.src_mac = s /\ f.payload = x
        BY <2>3
  <2>5. inbound_dispatch_linux(raw, Ip[g], Mac[g]) = dispatch_packet(x, d, s)
        BY <2>4 DEF inbound_dispatch_linux, f
  <2>6. raw # <<>>
    <3>1. Len(raw) # 0
          BY <2>1
    <3> QED
          BY <3>1
  <2>7. Inbound(o, raw, g) = dispatch_packet(x, d, s)
        BY <1>3, <2>5, <2>6 DEF Inbound
  <2>8. OwnMac(o, h) = d /\ PeerMac(o, h) = s /\ LinkLen(o) = 14
        BY <1>3 DEF OwnMac, PeerMac, LinkLen, d, s
  <2> QED
        BY <2>1, <2>2, <2>7, <2>8 DEF raw
<1>4. CASE o = "macos"
  <2> DEFINE l == AF_INET
             raw == l \o x
             z == ZERO_MAC
  <2>1. l \in Seq(Byte) /\ Len(l) = 4
    <3>1. 0 \in Byte /\ 2 \in Byte
          BY ByteRange
    <3> QED
          BY <3>1 DEF AF_INET
  <2>2. Link(o, h) = l /\ LinkLen(o) = 4 /\ OwnMac(o, h) = z /\ PeerMac(o, h) = z /\ o # "linux"
        BY <1>4 DEF Link, LinkLen, OwnMac, PeerMac
  <2> HIDE DEF l, z
  <2>3. raw \in Seq(Byte) /\ Len(raw) = Len(l) + Len(x) /\ Len(x) \in Nat /\ from(raw, Len(l)) = x
        BY <2>1, Concat, FromConcat
  <2> HIDE DEF raw
  <2>4. CASE x = <<>>
    <3>1. Len(raw) <= 4
          BY <2>1, <2>3, <2>4
    <3>2. Inbound(o, raw, g) = None
          BY <2>2, <3>1 DEF Inbound
    <3>3. ~ (Len(x) >= 20)
          BY <2>4
    <3>4. ~ Accepts(x)
          BY <3>3 DEF Accepts, IpAccepts
    <3>5. dispatch_packet(x, z, z) = None
          BY <3>4, DispatchValue
    <3> QED
          BY <2>1, <2>2, <3>2, <3>5 DEF raw
  <2>5. CASE x # <<>>
    <3>1. Len(x) # 0
          BY <2>5
    <3>2. ~ (Len(raw) <= 4) /\ from(raw, 4) = x
          BY <2>1, <2>3, <3>1
    <3>3. Inbound(o, raw, g) = dispatch_packet(x, z, z)
          BY <2>2, <2>5, <3>2 DEF Inbound, inbound_dispatch_macos, z
    <3> QED
          BY <2>1, <2>2, <3>3 DEF raw
  <2> QED
      BY <2>4, <2>5
<1> QED
    BY <1>3, <1>4

\* A frame that is shorter than what precedes a packet is dropped.
LEMMA ShortFrame ==
    ASSUME NEW o \in {"linux", "macos"}, NEW g, NEW raw \in Seq(Byte), Len(raw) < LinkLen(o)
    PROVE  Inbound(o, raw, g) = None
<1>1. CASE o = "linux"
  <2>1. ethernet_parse(raw) = Err("EthernetFrameTooShort")
        BY <1>1 DEF ethernet_parse, ETHERNET_HEADER_LEN, LinkLen
  <2>2. ethernet_parse(raw).err = "EthernetFrameTooShort"
        BY <2>1 DEF Err
  <2>3. inbound_dispatch_linux(raw, Ip[g], Mac[g]) = None
        BY <2>2 DEF inbound_dispatch_linux, rejected
  <2> QED
        BY <1>1, <2>3 DEF Inbound
<1>2. CASE o = "macos"
      BY <1>2 DEF Inbound, LinkLen
<1> QED
    BY <1>1, <1>2

-----------------------------------------------------------------------------
(* Frames that arrive as they should.                                      *)

Zeros(n) == [i \in 1 .. n |-> 0]

\* What host g makes of a frame: w as it is and padded, and when that is a
\* segment, nothing of it when it is cut or has a byte changed.
Robust(o, fr, w, g) ==
    /\ fr \in Seq(Byte)
    /\ Inbound(o, fr, g) = w
    /\ o = "linux" /\ Len(fr) < 60 => Inbound(o, fr \o Zeros(60 - Len(fr)), g) = w
    /\ w.kind = "tcp" => \A n \in 0 .. (Len(fr) - 1) : Inbound(o, SubSeq(fr, 1, n), g) = None
    /\ w.kind = "tcp" =>
          \A i \in (LinkLen(o) + 1) .. Len(fr), b \in Byte :
             fr[i] # b => Inbound(o, [fr EXCEPT ![i] = b], g) = None

\* Expected of the build for o.
Expect(o, h, seg) ==
    [kind |-> "tcp", remote_ip |-> Ip[h], local_ip |-> Ip[peer(h)],
     ether_src |-> OwnMac(o, h), ether_dst |-> PeerMac(o, h), seg |-> seg]

\* Padding is zeros.
LEMMA ZerosType ==
    ASSUME NEW n \in Nat
    PROVE  /\ Zeros(n) \in Seq(Byte) /\ Len(Zeros(n)) = n
           /\ \A i \in 1 .. Len(Zeros(n)) : Zeros(n)[i] = 0
<1>1. 0 \in Byte
      BY ByteRange
<1> QED
    BY <1>1 DEF Zeros

\* A frame cut or changed behind the link header is that header and the packet
\* cut or changed.
Pieces(l, q, m) ==
    /\ l \o q \in Seq(Byte) /\ Len(l \o q) = m + Len(q) /\ Len(q) \in Nat
    /\ \A z \in Seq(Byte) : (l \o q) \o z = l \o (q \o z)
    /\ \A n \in Nat : n >= m /\ n <= m + Len(q) =>
          SubSeq(l \o q, 1, n) = l \o SubSeq(q, 1, n - m)
    /\ \A n \in Nat : n < m =>
          SubSeq(l \o q, 1, n) \in Seq(Byte) /\ Len(SubSeq(l \o q, 1, n)) = n
    /\ \A i \in 1 .. Len(q), b \in Byte :
          /\ (l \o q)[m + i] = q[i]
          /\ [l \o q EXCEPT ![m + i] = b] = l \o [q EXCEPT ![i] = b]

\* It is so.
LEMMA FramePieces ==
    ASSUME NEW l \in Seq(Byte), NEW q \in Seq(Byte)
    PROVE  Pieces(l, q, Len(l))
<1> DEFINE u == l \o q
           m == Len(l)
           k == Len(q)
<1>1. /\ u \in Seq(Byte) /\ Len(u) = m + k /\ m \in Nat /\ k \in Nat
      /\ \A i \in 1 .. m : u[i] = l[i]
      /\ \A i \in 1 .. k : u[m + i] = q[i]
      BY Concat
<1>2. \A z \in Seq(Byte) : u \o z = l \o (q \o z)
      BY ConcatAssoc
<1> HIDE DEF u
<1>3. ASSUME NEW n \in Nat, n >= m, n <= m + k
      PROVE  SubSeq(u, 1, n) = l \o SubSeq(q, 1, n - m)
  <2> DEFINE a == SubSeq(u, 1, n)
             c == SubSeq(q, 1, n - m)
             d == l \o c
  <2>1. a \in Seq(Byte) /\ Len(a) = n /\ \A i \in 1 .. n : a[i] = u[i]
        BY <1>1, <1>3
  <2>2. c \in Seq(Byte) /\ Len(c) = n - m /\ n - m \in Nat /\ \A i \in 1 .. (n - m) : c[i] = q[i]
        BY <1>1, <1>3
  <2> HIDE DEF a, c
  <2>3. /\ d \in Seq(Byte) /\ Len(d) = m + Len(c)
        /\ \A i \in 1 .. m : d[i] = l[i]
        /\ \A i \in 1 .. Len(c) : d[m + i] = c[i]
        BY <2>2, Concat
  <2> HIDE DEF d, m, k
  <2>4. Len(d) = n
        BY <1>1, <2>2, <2>3
  <2>5. ASSUME NEW i \in 1 .. n PROVE a[i] = d[i]
    <3>1. CASE i \in 1 .. m
          BY <1>1, <2>1, <2>3, <3>1
    <3>2. CASE i > m
      <4> DEFINE j == i - m
      <4>1. j \in 1 .. (n - m) /\ m + j = i /\ j \in 1 .. k
            BY <1>1, <1>3, <3>2
      <4> HIDE DEF j
      <4>2. u[i] = q[j] /\ d[i] = c[j] /\ c[j] = q[j]
            BY <1>1, <2>2, <2>3, <4>1
      <4> QED
            BY <2>1, <4>2
    <3> QED
        BY <1>1, <3>1, <3>2
  <2>6. a = d
        BY <2>1, <2>3, <2>4, <2>5
  <2> QED
        BY <2>6 DEF a, d, c
<1>4. ASSUME NEW n \in Nat, n < m
      PROVE  SubSeq(u, 1, n) \in Seq(Byte) /\ Len(SubSeq(u, 1, n)) = n
      BY <1>1, <1>4
<1>5. ASSUME NEW i \in 1 .. k, NEW b \in Byte
      PROVE  [u EXCEPT ![m + i] = b] = l \o [q EXCEPT ![i] = b]
  <2> DEFINE a == [u EXCEPT ![m + i] = b]
             c == [q EXCEPT ![i] = b]
             d == l \o c
  <2>0. m + i \in 1 .. (m + k)
        BY <1>1
  <2>1. a \in Seq(Byte) /\ Len(a) = m + k /\ \A j \in 1 .. (m + k) : a[j] = IF j = m + i THEN b ELSE u[j]
        BY <1>1, <2>0
  <2>2. c \in Seq(Byte) /\ Len(c) = k /\ \A j \in 1 .. k : c[j] = IF j = i THEN b ELSE q[j]
        BY <1>1
  <2> HIDE DEF a, c
  <2>3. /\ d \in Seq(Byte) /\ Len(d) = m + Len(c)
        /\ \A j \in 1 .. m : d[j] = l[j]
        /\ \A j \in 1 .. Len(c) : d[m + j] = c[j]
        BY <2>2, Concat
  <2> HIDE DEF d, m, k
  <2>4. Len(d) = m + k
        BY <2>2, <2>3
  <2>5. ASSUME NEW j \in 1 .. (m + k) PROVE a[j] = d[j]
    <3>1. CASE j \in 1 .. m
      <4>1. j # m + i
            BY <1>1, <3>1
      <4>2. a[j] = u[j]
            BY <2>1, <4>1
      <4> QED
            BY <1>1, <2>3, <3>1, <4>2
    <3>2. CASE j > m
      <4> DEFINE e == j - m
      <4>1. e \in 1 .. k /\ m + e = j /\ (e = i <=> j = m + i)
            BY <1>1, <3>2
      <4> HIDE DEF e
      <4>2. u[j] = q[e] /\ d[j] = c[e]
            BY <1>1, <2>2, <2>3, <4>1
      <4>3. c[e] = IF e = i THEN b ELSE q[e]
            BY <2>2, <4>1
      <4>4. a[j] = IF j = m + i THEN b ELSE u[j]
            BY <2>1
      <4> QED
            BY <4>1, <4>2, <4>3, <4>4
    <3> QED
        BY <1>1, <3>1, <3>2
  <2>6. a = d
        BY <2>1, <2>3, <2>4, <2>5
  <2> QED
        BY <2>6 DEF a, d, c
<1> QED
    BY <1>1, <1>2, <1>3, <1>4, <1>5 DEF u, Pieces

\* The frame of a sealed packet arrives.
LEMMA SealedFrame ==
    ASSUME NEW o \in {"linux", "macos"}, NEW h \in Host, NEW g, NEW q, NEW seg,
           Sealed(q, seg, Ip[h], Ip[peer(h)])
    PROVE  Robust(o, Link(o, h) \o q, Expect(o, h, seg), g)
<1> DEFINE l == Link(o, h)
           fr == l \o q
           es == OwnMac(o, h)
           ed == PeerMac(o, h)
           w == Expect(o, h, seg)
           m == LinkLen(o)
<1>1. Ip[h] \in Address /\ Ip[peer(h)] \in Address
      BY HostAddress DEF peer, Host
<1>2. /\ q \in Seq(Byte)
      /\ \A pad \in Seq(Byte) :
            /\ q \o pad \in Seq(Byte) /\ Accepts(q \o pad) /\ Parsed(q \o pad) = seg
            /\ slice(q \o pad, 12, 16) = Ip[h] /\ slice(q \o pad, 16, 20) = Ip[peer(h)]
      /\ \A n \in Nat : n < Len(q) =>
            SubSeq(q, 1, n) \in Seq(Byte) /\ ~ Accepts(SubSeq(q, 1, n))
      /\ \A j \in 1 .. Len(q), b \in Byte : q[j] # b =>
            [q EXCEPT ![j] = b] \in Seq(Byte) /\ ~ Accepts([q EXCEPT ![j] = b])
      BY <1>1, SealedPacket
<1>3. /\ l \in Seq(Byte) /\ Len(l) = m /\ m \in Nat
      /\ \A x \in Seq(Byte) : Inbound(o, l \o x, g) = dispatch_packet(x, es, ed)
  <2>1. ASSUME NEW x \in Seq(Byte)
        PROVE  l \in Seq(Byte) /\ Len(l) = m /\ m \in Nat /\ Inbound(o, l \o x, g) = dispatch_packet(x, es, ed)
        BY LinkRead
  <2>2. <<>> \in Seq(Byte)
        OBVIOUS
  <2> HIDE DEF l, m, es, ed
  <2> QED
        BY <2>1, <2>2
<1>4. /\ l \o q \in Seq(Byte) /\ Len(l \o q) = m + Len(q) /\ Len(q) \in Nat
      /\ \A z \in Seq(Byte) : (l \o q) \o z = l \o (q \o z)
      /\ \A n \in Nat : n >= m /\ n <= m + Len(q) =>
            SubSeq(l \o q, 1, n) = l \o SubSeq(q, 1, n - m)
      /\ \A n \in Nat : n < m =>
            SubSeq(l \o q, 1, n) \in Seq(Byte) /\ Len(SubSeq(l \o q, 1, n)) = n
      /\ \A i \in 1 .. Len(q), b \in Byte :
            /\ (l \o q)[m + i] = q[i]
            /\ [l \o q EXCEPT ![m + i] = b] = l \o [q EXCEPT ![i] = b]
  <2> HIDE DEF l, m
  <2>1. Pieces(l, q, m)
        BY <1>2, <1>3, FramePieces
  <2> QED
        BY <2>1 DEF Pieces
<1> HIDE DEF l, fr, es, ed, m
<1>5. ASSUME NEW pad \in Seq(Byte) PROVE Inbound(o, fr \o pad, g) = w
  <2> DEFINE x == q \o pad
  <2>1. /\ x \in Seq(Byte) /\ Accepts(x) /\ Parsed(x) = seg
        /\ slice(x, 12, 16) = Ip[h] /\ slice(x, 16, 20) = Ip[peer(h)]
        BY <1>2
  <2>2. fr \o pad = l \o x
        BY <1>4 DEF fr
  <2> HIDE DEF x
  <2>3. dispatch_packet(x, es, ed) = w
        BY <2>1, DispatchValue DEF Expect, es, ed
  <2> QED
        BY <1>3, <2>1, <2>2, <2>3
<1>6. fr \in Seq(Byte) /\ Len(fr) = m + Len(q) /\ Len(fr) \in Nat
      BY <1>3, <1>4 DEF fr
<1>7. Inbound(o, fr, g) = w
  <2>1. fr \o <<>> = fr /\ <<>> \in Seq(Byte)
        BY <1>6
  <2> QED
        BY <1>5, <2>1
<1>8. ASSUME Len(fr) < 60 PROVE Inbound(o, fr \o Zeros(60 - Len(fr)), g) = w
  <2> DEFINE k == 60 - Len(fr)
  <2>1. k \in Nat
        BY <1>6, <1>8
  <2> HIDE DEF k
  <2>2. Zeros(k) \in Seq(Byte)
        BY <2>1, ZerosType
  <2> QED
        BY <1>5, <2>2 DEF k
<1>9. ASSUME NEW x \in Seq(Byte), ~ Accepts(x) PROVE Inbound(o, l \o x, g) = None
      BY <1>3, <1>9, DispatchValue
<1>10. ASSUME NEW n \in 0 .. (Len(fr) - 1) PROVE Inbound(o, SubSeq(fr, 1, n), g) = None
  <2>1. n \in Nat /\ n < m + Len(q)
        BY <1>6
  <2>2. CASE n < m
    <3>1. SubSeq(fr, 1, n) \in Seq(Byte) /\ Len(SubSeq(fr, 1, n)) < LinkLen(o)
          BY <1>4, <2>1, <2>2 DEF fr, m
    <3> QED
          BY <3>1, ShortFrame
  <2>3. CASE n >= m
    <3> DEFINE e == n - m
    <3>1. e \in Nat /\ e < Len(q)
          BY <1>3, <1>4, <2>1, <2>3
    <3>2. SubSeq(fr, 1, n) = l \o SubSeq(q, 1, e)
          BY <1>3, <1>4, <2>1, <2>3 DEF fr
    <3> HIDE DEF e
    <3>3. SubSeq(q, 1, e) \in Seq(Byte) /\ ~ Accepts(SubSeq(q, 1, e))
          BY <1>2, <3>1
    <3> QED
          BY <1>9, <3>2, <3>3
  <2> QED
      BY <1>3, <2>1, <2>2, <2>3
<1>11. ASSUME NEW i \in (m + 1) .. Len(fr), NEW b \in Byte, fr[i] # b
       PROVE  Inbound(o, [fr EXCEPT ![i] = b], g) = None
  <2> DEFINE j == i - m
  <2>1. j \in 1 .. Len(q) /\ m + j = i
        BY <1>3, <1>4, <1>6
  <2> HIDE DEF j
  <2>2. fr[m + j] = q[j] /\ [fr EXCEPT ![m + j] = b] = l \o [q EXCEPT ![j] = b]
        BY <1>4, <2>1 DEF fr
  <2>3. q[j] # b
        BY <1>11, <2>1, <2>2
  <2>4. [q EXCEPT ![j] = b] \in Seq(Byte) /\ ~ Accepts([q EXCEPT ![j] = b])
        BY <1>2, <2>1, <2>3
  <2> QED
        BY <1>9, <2>1, <2>2, <2>4
<1> HIDE DEF w
<1> QED
    BY <1>6, <1>7, <1>8, <1>10, <1>11 DEF Robust, fr, m, l, w

\* The frame of a packet that is not accepted is dropped.
LEMMA DroppedFrame ==
    ASSUME NEW o \in {"linux", "macos"}, NEW h \in Host, NEW g, NEW q \in Seq(Byte),
           \A n \in Nat : ~ Accepts(q \o Zeros(n))
    PROVE  Robust(o, Link(o, h) \o q, None, g)
<1> DEFINE l == Link(o, h)
           fr == l \o q
           es == OwnMac(o, h)
           ed == PeerMac(o, h)
<1>1. l \in Seq(Byte)
      BY LinkRead
<1>2. \A x \in Seq(Byte) : Inbound(o, l \o x, g) = dispatch_packet(x, es, ed)
      BY LinkRead
<1> HIDE DEF l, es, ed
<1>3. fr \in Seq(Byte) /\ Len(fr) \in Nat /\ \A z \in Seq(Byte) : fr \o z = l \o (q \o z)
  <2>1. Pieces(l, q, Len(l)) /\ Len(l) \in Nat
        BY <1>1, FramePieces
  <2> QED
        BY <2>1 DEF Pieces
<1> HIDE DEF fr
<1>4. ASSUME NEW n \in Nat PROVE Inbound(o, fr \o Zeros(n), g) = None
  <2>1. Zeros(n) \in Seq(Byte)
        BY ZerosType
  <2> DEFINE x == q \o Zeros(n)
  <2>2. x \in Seq(Byte) /\ ~ Accepts(x) /\ fr \o Zeros(n) = l \o x
        BY <1>3, <2>1, Concat
  <2> HIDE DEF x
  <2>3. dispatch_packet(x, es, ed) = None
        BY <2>2, DispatchValue
  <2> QED
        BY <1>2, <2>2, <2>3
<1>5. Inbound(o, fr, g) = None
  <2> DEFINE z == 0
  <2>1. z \in Nat
        OBVIOUS
  <2>2. fr \o Zeros(z) = fr
        BY <1>3 DEF Zeros
  <2> HIDE DEF z
  <2>3. Inbound(o, fr \o Zeros(z), g) = None
        BY <1>4, <2>1
  <2> QED
        BY <2>2, <2>3
<1>6. Len(fr) < 60 => Inbound(o, fr \o Zeros(60 - Len(fr)), g) = None
  <2>1. Len(fr) < 60 => 60 - Len(fr) \in Nat
        BY <1>3
  <2> QED
        BY <1>4, <2>1
<1>7. None.kind # "tcp"
      BY DEF None
<1> QED
    BY <1>3, <1>5, <1>6, <1>7 DEF Robust, fr, l

ArpBody(f, m, i, k, t)   == f \o m \o i \o k \o t
Joined(l, f, m, i, k, t) == l \o f \o m \o i \o k \o t

\* The five fields of an ARP packet stand where they were written, whatever
\* precedes and follows them.
ArpFields(f, m, i, k, t, x, a, y) ==
    LET p1 == Len(f)
        p2 == p1 + Len(m)
        p3 == p2 + Len(i)
        p4 == p3 + Len(k)
        p5 == p4 + Len(t)
    IN  /\ a \in Seq(Byte) /\ y \in Seq(Byte) /\ Len(a) = p5
        /\ slice(y, 0, p1) = f /\ slice(y, p1, p2) = m /\ slice(y, p2, p3) = i
        /\ slice(y, p4, p5) = t

\* It is so.
LEMMA FivePieces ==
    ASSUME NEW f \in Seq(Byte), NEW m \in Seq(Byte), NEW i \in Seq(Byte), NEW k \in Seq(Byte),
           NEW t \in Seq(Byte), NEW x \in Seq(Byte)
    PROVE  ArpFields(f, m, i, k, t, x, ArpBody(f, m, i, k, t), ArpBody(f, m, i, k, t) \o x)
<1> DEFINE p1 == Len(f)
           p2 == p1 + Len(m)
           p3 == p2 + Len(i)
           p4 == p3 + Len(k)
           p5 == p4 + Len(t)
           a2 == f \o m
           a3 == a2 \o i
           a4 == a3 \o k
           a5 == a4 \o t
           y == a5 \o x
           z == 0
<1>1. p1 \in Nat /\ slice(f, z, p1) = f /\ z \in Nat
      BY SliceAll
<1>2. a2 \in Seq(Byte) /\ Len(a2) = p2 /\ p2 \in Nat /\ slice(a2, p1, p2) = m
      BY Concat, SliceSecond
<1>3. p1 <= p2
      OBVIOUS
<1> HIDE DEF z, p2
<1>4. slice(a2, z, p1) = f
  <2>1. p1 <= Len(f)
        BY <1>1
  <2> HIDE DEF p1
  <2> QED
        BY <1>1, <2>1, SliceConcat
<1> HIDE DEF p1, a2
<1>5. a3 \in Seq(Byte) /\ Len(a3) = p3 /\ p3 \in Nat /\ slice(a3, p2, p3) = i
  <2>1. a3 \in Seq(Byte) /\ Len(a3) = Len(a2) + Len(i) /\ Len(i) \in Nat
        BY <1>2, Concat
  <2>2. slice(a3, Len(a2), Len(a2) + Len(i)) = i
        BY <1>2, SliceSecond
  <2> HIDE DEF a3
  <2> QED
        BY <1>2, <2>1, <2>2
<1>6. slice(a3, z, p1) = f /\ slice(a3, p1, p2) = m
  <2>1. p1 <= Len(a2) /\ p2 <= Len(a2)
        BY <1>1, <1>2, <1>3
  <2> QED
        BY <1>1, <1>2, <1>4, <2>1, SliceConcat
<1>7. p2 <= p3
      BY <1>2
<1> HIDE DEF a3, p3
<1>8. a4 \in Seq(Byte) /\ Len(a4) = p4 /\ p4 \in Nat /\ p3 <= p4
  <2>1. a4 \in Seq(Byte) /\ Len(a4) = Len(a3) + Len(k) /\ Len(k) \in Nat
        BY <1>5, Concat
  <2> HIDE DEF a4
  <2> QED
        BY <1>5, <2>1
<1>9. slice(a4, z, p1) = f /\ slice(a4, p1, p2) = m /\ slice(a4, p2, p3) = i
  <2>1. p1 <= Len(a3) /\ p2 <= Len(a3) /\ p3 <= Len(a3)
        BY <1>1, <1>2, <1>3, <1>5, <1>7
  <2> QED
        BY <1>1, <1>2, <1>5, <1>6, <2>1, SliceConcat
<1> HIDE DEF a4, p4
<1>10. a5 \in Seq(Byte) /\ Len(a5) = p5 /\ p5 \in Nat /\ p4 <= p5 /\ slice(a5, p4, p5) = t
  <2>1. a5 \in Seq(Byte) /\ Len(a5) = Len(a4) + Len(t) /\ Len(t) \in Nat
        BY <1>8, Concat
  <2>2. slice(a5, Len(a4), Len(a4) + Len(t)) = t
        BY <1>8, SliceSecond
  <2> HIDE DEF a5
  <2> QED
        BY <1>8, <2>1, <2>2
<1>11. slice(a5, z, p1) = f /\ slice(a5, p1, p2) = m /\ slice(a5, p2, p3) = i
  <2>1. p1 <= Len(a4) /\ p2 <= Len(a4) /\ p3 <= Len(a4)
        BY <1>1, <1>2, <1>3, <1>5, <1>7, <1>8
  <2> QED
        BY <1>1, <1>2, <1>5, <1>8, <1>9, <2>1, SliceConcat
<1> HIDE DEF a5, p5
<1>12. /\ slice(y, z, p1) = f /\ slice(y, p1, p2) = m /\ slice(y, p2, p3) = i
       /\ slice(y, p4, p5) = t
  <2>1. p1 <= Len(a5) /\ p2 <= Len(a5) /\ p3 <= Len(a5) /\ p5 <= Len(a5)
        BY <1>1, <1>2, <1>3, <1>5, <1>7, <1>8, <1>10
  <2> QED
        BY <1>1, <1>2, <1>5, <1>8, <1>10, <1>11, <2>1, SliceConcat
<1>13. y \in Seq(Byte)
      BY <1>10, Concat
<1>14. ArpFields(f, m, i, k, t, x, a5, y)
  <2> HIDE DEF y
  <2> QED
      BY <1>10, <1>12, <1>13 DEF ArpFields, p1, p2, p3, p4, p5, z
<1> QED
    BY <1>14 DEF y, a5, a4, a3, a2, ArpBody

\* One more piece at the end.
LEMMA JoinOne ==
    ASSUME NEW l \in Seq(Byte), NEW c \in Seq(Byte), NEW i \in Seq(Byte), NEW u, u = l \o c
    PROVE  u \o i = l \o (c \o i) /\ c \o i \in Seq(Byte)
<1>1. (l \o c) \o i = l \o (c \o i)
      BY ConcatAssoc
<1>2. c \o i \in Seq(Byte)
      BY Concat
<1> QED
    BY <1>1, <1>2

SixSeqs(l, f, m, i, k, t) ==
    /\ l \in Seq(Byte) /\ f \in Seq(Byte) /\ m \in Seq(Byte)
    /\ i \in Seq(Byte) /\ k \in Seq(Byte) /\ t \in Seq(Byte)

\* What precedes the five fields.
LEMMA SixPieces ==
    ASSUME NEW l, NEW f, NEW m, NEW i, NEW k, NEW t, SixSeqs(l, f, m, i, k, t)
    PROVE  Joined(l, f, m, i, k, t) = l \o ArpBody(f, m, i, k, t)
<1> DEFINE c2 == f \o m
           c3 == c2 \o i
           c4 == c3 \o k
           c5 == c4 \o t
           u1 == l \o f
           u2 == u1 \o m
           u3 == u2 \o i
           u4 == u3 \o k
           u5 == u4 \o t
<1>1. u1 = l \o f /\ l \in Seq(Byte)
      BY DEF SixSeqs
<1> HIDE DEF u1
<1>2. u2 = l \o c2 /\ c2 \in Seq(Byte)
  <2>1. f \in Seq(Byte) /\ m \in Seq(Byte)
        BY DEF SixSeqs
  <2> QED
        BY <1>1, <2>1, JoinOne
<1> HIDE DEF u2, c2
<1>3. u3 = l \o c3 /\ c3 \in Seq(Byte)
  <2>1. i \in Seq(Byte)
        BY DEF SixSeqs
  <2> QED
        BY <1>1, <1>2, <2>1, JoinOne
<1> HIDE DEF u3, c3
<1>4. u4 = l \o c4 /\ c4 \in Seq(Byte)
  <2>1. k \in Seq(Byte)
        BY DEF SixSeqs
  <2> QED
        BY <1>1, <1>3, <2>1, JoinOne
<1> HIDE DEF u4, c4
<1>5. u5 = l \o c5
  <2>1. t \in Seq(Byte)
        BY DEF SixSeqs
  <2> QED
        BY <1>1, <1>4, <2>1, JoinOne
<1> QED
    BY <1>5 DEF Joined, ArpBody, u5, u4, u3, u2, u1, c5, c4, c3, c2

\* An ARP frame: addresses, EtherType, the fixed part with the operation, and
\* the four addresses.
ArpFrame(d, s, f, m, i, k, t) == Joined(d \o s \o be16(ETHERTYPE_ARP), f, m, i, k, t)

ArpParts(d, s, f, m, i, k, t) ==
    /\ d \in Seq(Byte) /\ Len(d) = 6 /\ s \in Seq(Byte) /\ Len(s) = 6
    /\ f \in Seq(Byte) /\ Len(f) = 8 /\ m \in Seq(Byte) /\ Len(m) = 6
    /\ i \in Seq(Byte) /\ Len(i) = 4 /\ k \in Seq(Byte) /\ Len(k) = 6
    /\ t \in Seq(Byte) /\ Len(t) = 4

\* What host g makes of one, whatever follows it.
LEMMA ArpRead ==
    ASSUME NEW d, NEW s, NEW f, NEW m, NEW i, NEW k, NEW t, NEW x \in Seq(Byte), NEW g,
           ArpParts(d, s, f, m, i, k, t)
    PROVE  /\ ArpFrame(d, s, f, m, i, k, t) \in Seq(Byte)
           /\ Inbound("linux", ArpFrame(d, s, f, m, i, k, t) \o x, g) =
                  IF f = arp_fixed(1) /\ t = Ip[g]
                  THEN [kind |-> "arp", reply |-> build_arp_reply_frame(Mac[g], Ip[g], m, i)]
                  ELSE None
<1> DEFINE w == ETHERTYPE_ARP
           l == d \o s \o be16(w)
           a == ArpBody(f, m, i, k, t)
           y == a \o x
           fr == ArpFrame(d, s, f, m, i, k, t)
           raw == l \o y
<1>1. w \in Word /\ w = 2054
      BY DEF Word, ETHERTYPE_ARP
<1> HIDE DEF w
<1>2. /\ a \in Seq(Byte) /\ y \in Seq(Byte) /\ Len(a) = 28
      /\ slice(y, 0, 8) = f /\ slice(y, 8, 14) = m /\ slice(y, 14, 18) = i /\ slice(y, 24, 28) = t
  <2> DEFINE p1 == Len(f)
             p2 == p1 + Len(m)
             p3 == p2 + Len(i)
             p4 == p3 + Len(k)
             p5 == p4 + Len(t)
  <2>1. /\ a \in Seq(Byte) /\ y \in Seq(Byte) /\ Len(a) = p5
        /\ slice(y, 0, p1) = f /\ slice(y, p1, p2) = m /\ slice(y, p2, p3) = i
        /\ slice(y, p4, p5) = t
    <3>1. ArpFields(f, m, i, k, t, x, a, y)
          BY FivePieces DEF ArpParts
    <3> HIDE DEF a, y
    <3> QED
          BY <3>1 DEF ArpFields
  <2>2. p1 = 8 /\ p2 = 14 /\ p3 = 18 /\ p4 = 24 /\ p5 = 28
        BY DEF ArpParts
  <2> HIDE DEF p1, p2, p3, p4, p5, a, y
  <2> QED
        BY <2>1, <2>2
<1>3. fr \o x = raw /\ fr \in Seq(Byte)
  <2>1. l \in Seq(Byte)
        BY <1>1, EthernetRead DEF ArpParts
  <2> HIDE DEF l
  <2>2. fr = l \o a
    <3>1. Joined(l, f, m, i, k, t) = l \o ArpBody(f, m, i, k, t)
      <4>1. SixSeqs(l, f, m, i, k, t)
            BY <2>1 DEF ArpParts, SixSeqs
      <4> QED
            BY <4>1, SixPieces
    <3>2. fr = Joined(l, f, m, i, k, t)
          BY DEF ArpFrame, w, l
    <3> QED
          BY <3>1, <3>2
  <2> HIDE DEF a, fr
  <2>3. (l \o a) \o x = l \o (a \o x)
    <3>1. a \in Seq(Byte) /\ l \in Seq(Byte) /\ x \in Seq(Byte)
          BY <1>2, <2>1
    <3> QED
          BY ONLY <3>1, ConcatAssoc
  <2>4. fr \in Seq(Byte)
        BY <1>2, <2>1, <2>2, Concat
  <2> QED
        BY <2>2, <2>3, <2>4
<1> HIDE DEF fr, a, y
<1>4. /\ raw \in Seq(Byte) /\ Len(raw) = 14 + Len(y) /\ Len(y) \in Nat
      /\ u16(raw, 12) = w /\ from(raw, 14) = y
      BY <1>1, <1>2, EthernetRead DEF ArpParts
<1>5. Len(y) >= 28
  <2>1. Len(y) = Len(a) + Len(x) /\ Len(x) \in Nat
        BY <1>2, Concat DEF y
  <2> QED
        BY <1>2, <2>1
<1> HIDE DEF raw, l
<1> DEFINE e == ethernet_parse(raw)
           r == parse_arp_request(raw)
<1>6. e = [err |-> "NonIpv4EtherType", ethertype |-> 2054]
      BY <1>1, <1>4 DEF ethernet_parse, reads, ETHERNET_HEADER_LEN, ETHERTYPE_IPV4
<1>7. r = IF f = arp_fixed(1)
          THEN [err |-> "none", sender_mac |-> m, sender_ip |-> i, target_ip |-> t]
          ELSE Err("None")
  <2>1. ~ (Len(raw) < ARP_FRAME_LEN)
        BY <1>4, <1>5 DEF ARP_FRAME_LEN, ETHERNET_HEADER_LEN
  <2>2. from(raw, ETHERNET_HEADER_LEN) = y
        BY <1>4 DEF ETHERNET_HEADER_LEN
  <2>3. 0 <= ARP_FRAME_LEN /\ ARP_FRAME_LEN <= Len(raw)
        BY <1>4, <1>5 DEF ARP_FRAME_LEN, ETHERNET_HEADER_LEN
  <2>4. \A v : reads(raw, 0, ARP_FRAME_LEN, v) = v
        BY <2>3 DEF reads
  <2> QED
        BY <1>2, <2>1, <2>2, <2>4 DEF parse_arp_request
<1>8. raw # <<>>
  <2>1. Len(raw) # 0
        BY <1>4
  <2> QED
        BY <2>1
<1>9. Inbound("linux", raw, g) = inbound_dispatch_linux(raw, Ip[g], Mac[g])
      BY <1>8 DEF Inbound
<1> HIDE DEF e, r
<1>10. e.err = "NonIpv4EtherType" /\ e.ethertype = 2054
      BY <1>6
<1> DEFINE v == [kind |-> "arp", reply |-> build_arp_reply_frame(Mac[g], Ip[g], m, i)]
<1>11. inbound_dispatch_linux(raw, Ip[g], Mac[g]) =
          IF r.err = "none" /\ r.target_ip = Ip[g]
          THEN [kind |-> "arp",
                reply |-> build_arp_reply_frame(Mac[g], Ip[g], r.sender_mac, r.sender_ip)]
          ELSE None
  <2>1. r.err # "panic"
        BY <1>7 DEF Err
  <2> QED
        BY <1>10, <2>1 DEF inbound_dispatch_linux, rejected, ETHERTYPE_ARP, e, r
<1>12. CASE f = arp_fixed(1)
  <2>1. r.err = "none" /\ r.target_ip = t /\ r.sender_mac = m /\ r.sender_ip = i
        BY <1>7, <1>12
  <2>2. Inbound("linux", raw, g) = IF t = Ip[g] THEN v ELSE None
        BY <1>9, <1>11, <2>1
  <2> QED
        BY <1>3, <1>12, <2>2 DEF fr
<1>13. CASE f # arp_fixed(1)
  <2>1. r.err # "none"
        BY <1>7, <1>13 DEF Err
  <2>2. Inbound("linux", raw, g) = None
        BY <1>9, <1>11, <2>1
  <2> QED
        BY <1>3, <1>13, <2>2 DEF fr
<1> QED
    BY <1>12, <1>13

\* An ARP frame, padded or not, is answered when it asks for the host's own
\* address and is dropped otherwise.
LEMMA ArpRobust ==
    ASSUME NEW d, NEW s, NEW f, NEW m, NEW i, NEW k, NEW t, NEW g,
           ArpParts(d, s, f, m, i, k, t), NEW w,
           w = IF f = arp_fixed(1) /\ t = Ip[g]
               THEN [kind |-> "arp", reply |-> build_arp_reply_frame(Mac[g], Ip[g], m, i)]
               ELSE None
    PROVE  Robust("linux", ArpFrame(d, s, f, m, i, k, t), w, g)
<1> DEFINE fr == ArpFrame(d, s, f, m, i, k, t)
           e == <<>>
<1>1. e \in Seq(Byte)
      OBVIOUS
<1>2. ASSUME NEW x \in Seq(Byte)
      PROVE  fr \in Seq(Byte) /\ Inbound("linux", fr \o x, g) = w
      BY ArpRead
<1> HIDE DEF fr
<1>3. fr \in Seq(Byte) /\ Len(fr) \in Nat
  <2>1. fr \in Seq(Byte)
        BY <1>1, <1>2, Zenon
  <2> QED
        BY <2>1
<1>4. fr \o e = fr
      BY <1>3
<1> HIDE DEF e
<1>5. Inbound("linux", fr, g) = w
      BY <1>1, <1>2, <1>4
<1>6. Len(fr) < 60 => Inbound("linux", fr \o Zeros(60 - Len(fr)), g) = w
  <2>1. Len(fr) < 60 => 60 - Len(fr) \in Nat
        BY <1>3
  <2> QED
        BY <1>2, <2>1, ZerosType
<1>7. w.kind # "tcp"
      BY DEF None
<1> QED
    BY <1>3, <1>5, <1>6, <1>7 DEF Robust, fr

\* The addresses of the two hosts and the fixed part are bytes.
LEMMA ArpConstants ==
    /\ \A h \in Host : Mac[h] \in Seq(Byte) /\ Len(Mac[h]) = 6 /\ Ip[h] \in Seq(Byte) /\ Len(Ip[h]) = 4
    /\ \A h \in Host : peer(h) \in Host
    /\ Broadcast \in Seq(Byte) /\ Len(Broadcast) = 6
    /\ ZERO_MAC \in Seq(Byte) /\ Len(ZERO_MAC) = 6
    /\ \A n \in {1, 2} : arp_fixed(n) \in Seq(Byte) /\ Len(arp_fixed(n)) = 8
    /\ arp_fixed(2) # arp_fixed(1)
    /\ <<192, 168, 100, 9>> \in Seq(Byte) /\ Len(<<192, 168, 100, 9>>) = 4
<1>1. \A h \in Host : Mac[h] \in Seq(Byte) /\ Len(Mac[h]) = 6 /\ Ip[h] \in Seq(Byte) /\ Len(Ip[h]) = 4
      BY HostAddress DEF Address
<1>2. \A h \in Host : peer(h) \in Host
      BY DEF Host, peer
<1>3. Broadcast \in Seq(Byte) /\ Len(Broadcast) = 6
  <2>1. 255 \in Byte
        BY ByteRange
  <2> QED
        BY <2>1 DEF Broadcast
<1>4. ZERO_MAC \in Seq(Byte) /\ Len(ZERO_MAC) = 6
  <2>1. 0 \in Byte
        BY ByteRange
  <2> QED
        BY <2>1 DEF ZERO_MAC
<1>5. \A n \in {1, 2} : arp_fixed(n) \in Seq(Byte) /\ Len(arp_fixed(n)) = 8
  <2>1. 0 \in Byte /\ 1 \in Byte /\ 8 \in Byte /\ 6 \in Byte /\ 4 \in Byte /\ 2 \in Byte
        BY ByteRange
  <2> QED
        BY <2>1 DEF arp_fixed
<1>6. arp_fixed(2) # arp_fixed(1)
  <2>1. arp_fixed(2)[8] = 2 /\ arp_fixed(1)[8] = 1
        BY DEF arp_fixed
  <2> QED
        BY <2>1
<1>7. <<192, 168, 100, 9>> \in Seq(Byte) /\ Len(<<192, 168, 100, 9>>) = 4
  <2>1. 192 \in Byte /\ 168 \in Byte /\ 100 \in Byte /\ 9 \in Byte
        BY ByteRange
  <2> QED
        BY <2>1
<1> QED
    BY <1>1, <1>2, <1>3, <1>4, <1>5, <1>6, <1>7

\* A's question: B answers the one for its own address.
LEMMA AskedFrame ==
    ASSUME NEW ip \in {Ip["B"], <<192, 168, 100, 9>>}
    PROVE  Robust("linux",
                  Broadcast \o Mac["A"] \o be16(ETHERTYPE_ARP) \o arp_fixed(1)
                  \o Mac["A"] \o Ip["A"] \o ZERO_MAC \o ip,
                  IF ip = Ip["B"] THEN [kind |-> "arp", reply |-> arp_reply("B")] ELSE None, "B")
<1> DEFINE d == Broadcast
           m == Mac["A"]
           f == arp_fixed(1)
           i == Ip["A"]
           k == ZERO_MAC
           w == IF ip = Ip["B"] THEN [kind |-> "arp", reply |-> arp_reply("B")] ELSE None
<1>1. "A" \in Host /\ "B" \in Host
      BY DEF Host
<1>2. ArpParts(d, m, f, m, i, k, ip)
  <2>1. ip \in Seq(Byte) /\ Len(ip) = 4
        BY <1>1, ArpConstants
  <2> QED
        BY <1>1, <2>1, ArpConstants DEF ArpParts
<1>3. arp_reply("B") = build_arp_reply_frame(Mac["B"], Ip["B"], m, i)
      BY DEF arp_reply, peer
<1>4. Broadcast \o Mac["A"] \o be16(ETHERTYPE_ARP) \o arp_fixed(1)
      \o Mac["A"] \o Ip["A"] \o ZERO_MAC \o ip = ArpFrame(d, m, f, m, i, k, ip)
      BY DEF ArpFrame, Joined
<1>5. w = IF f = arp_fixed(1) /\ ip = Ip["B"]
          THEN [kind |-> "arp", reply |-> build_arp_reply_frame(Mac["B"], Ip["B"], m, i)]
          ELSE None
      BY <1>3
<1> HIDE DEF d, m, f, i, k, w
<1>6. Robust("linux", ArpFrame(d, m, f, m, i, k, ip), w, "B")
      BY <1>2, <1>5, ArpRobust
<1> QED
    BY <1>4, <1>6 DEF w

\* B's reply is not answered again.
LEMMA ReplyFrame == Robust("linux", arp_reply("B"), None, "A")
<1> DEFINE d == Mac["A"]
           m == Mac["B"]
           f == arp_fixed(2)
           i == Ip["B"]
           t == Ip["A"]
<1>1. "A" \in Host /\ "B" \in Host
      BY DEF Host
<1>2. ArpParts(d, m, f, m, i, d, t) /\ f # arp_fixed(1)
      BY <1>1, ArpConstants DEF ArpParts
<1>3. arp_reply("B") = ArpFrame(d, m, f, m, i, d, t)
      BY DEF ArpFrame, Joined, arp_reply, peer, build_arp_reply_frame
<1> HIDE DEF d, m, f, i, t
<1>4. Robust("linux", ArpFrame(d, m, f, m, i, d, t), None, "A")
      BY <1>2, ArpRobust
<1> QED
    BY <1>3, <1>4

-----------------------------------------------------------------------------
(* The inductive invariant.                                                *)

\* What a segment of host h should arrive as, in the words of the lemmas.
LEMMA WordsOfLemmas ==
    /\ \A raw, h : inbound(raw, h) = Inbound(os, raw, h)
    /\ \A h, seg : Expected(h, seg) = Expect(os, h, seg)
    /\ Protected = LinkLen(os)
<1>1. \A raw, h : inbound(raw, h) = Inbound(os, raw, h)
      BY DEF inbound, try_recv_nb, Inbound
<1>2. \A h, seg : Expected(h, seg) = Expect(os, h, seg)
      BY DEF Expected, Expect, OwnMac, PeerMac
<1>3. Protected = LinkLen(os)
      BY DEF Protected, LinkLen, ETHERNET_HEADER_LEN
<1> QED
    BY <1>1, <1>2, <1>3

\* A segment of host h, framed by the event loop and written to the device.
Framed(h, es, ed, seg) ==
    write_frame_nb(frame_outbound(outbound_msg(Ip[h], Ip[peer(h)], es, ed, seg)))

\* It arrives when the frame's addresses are those of the hosts.
LEMMA OwnFrame ==
    ASSUME os \in {"linux", "macos"}, NEW h \in Host, NEW seg \in Segment,
           Len(seg.payload) + 121 <= 65535, NEW es, NEW ed,
           os = "linux" => es = Mac[h] /\ ed = Mac[peer(h)]
    PROVE  Robust(os, Framed(h, es, ed, seg), Expect(os, h, seg), peer(h))
<1> DEFINE src == Ip[h]
           dst == Ip[peer(h)]
           q == build_packet(src, dst, PROTO_TCP, segment_build(src, dst, seg))
           fr == write_frame_nb(frame_outbound(outbound_msg(src, dst, es, ed, seg)))
<1>1. src \in Address /\ dst \in Address
      BY HostAddress, ArpConstants
<1>2. Sealed(q, seg, src, dst)
      BY <1>1, OwnPacket
<1>3. fr = Link(os, h) \o q
  <2> HIDE DEF src, dst
  <2>1. outbound_msg(src, dst, es, ed, seg) =
           [src_ip |-> src, dst_ip |-> dst, ether_src |-> es, ether_dst |-> ed,
            tcp_bytes |-> segment_build(src, dst, seg)]
        BY DEF outbound_msg
  <2>2. frame_outbound(outbound_msg(src, dst, es, ed, seg)) =
           IF os = "linux" THEN ethernet_build(ed, es, q) ELSE q
        BY <2>1 DEF frame_outbound
  <2> HIDE DEF q
  <2>3. CASE os = "linux"
    <3>1. fr = ethernet_build(ed, es, q)
          BY <2>2, <2>3 DEF write_frame_nb
    <3>2. fr = ethernet_build(Mac[peer(h)], Mac[h], q)
          BY <2>3, <3>1
    <3> HIDE DEF fr
    <3> QED
          BY <2>3, <3>2 DEF Link, ethernet_build
  <2>4. CASE os # "linux"
    <3>1. fr = AF_INET \o q
          BY <2>2, <2>4 DEF write_frame_nb
    <3> QED
          BY <2>4, <3>1 DEF Link
  <2> QED
      BY <2>3, <2>4
<1> HIDE DEF q, fr
<1>4. Robust(os, Link(os, h) \o q, Expect(os, h, seg), peer(h))
      BY <1>2, SealedFrame
<1>5. Framed(h, es, ed, seg) = fr
      BY DEF fr, Framed
<1> QED
    BY <1>3, <1>4, <1>5

\* A foreign stack's packet: dispatched or dropped.
LEMMA ForeignFrame ==
    ASSUME os \in {"linux", "macos"}, NEW o \in Options, NEW seg \in ForeignSent, NEW p,
           p = foreign_packet(o, seg)
    PROVE  Robust(os,
                  write_frame_nb(IF os = "linux" THEN ethernet_build(Mac["B"], Mac["A"], p) ELSE p),
                  IF o.total_len = "right" /\ o.data_offset = "right" /\ o.protocol = PROTO_TCP
                  THEN Expect(os, "A", seg) ELSE None, "B")
<1> DEFINE fr == write_frame_nb(IF os = "linux" THEN ethernet_build(Mac["B"], Mac["A"], p) ELSE p)
           sound == o.total_len = "right" /\ o.data_offset = "right" /\ o.protocol = PROTO_TCP
<1>1. /\ o \in Option /\ seg \in Segment /\ Len(seg.payload) + 121 <= 65535
      /\ o.data_offset = "long" => 20 + 4 * o.tcp + Len(seg.payload) < 60
      BY WireAssumption
<1>2. fr = Link(os, "A") \o p
      BY DEF write_frame_nb, Link, ethernet_build, peer
<1>3. "A" \in Host /\ peer("A") = "B"
      BY DEF Host, peer
<1>4. CASE sound
  <2>1. Sealed(p, seg, Ip["A"], Ip[peer("A")])
        BY <1>1, <1>3, <1>4, ForeignSealed
  <2>2. Robust(os, Link(os, "A") \o p, Expect(os, "A", seg), "B")
        BY <1>3, <2>1, SealedFrame
  <2> QED
        BY <1>2, <1>4, <2>2
<1>5. CASE ~ sound
  <2>1. ASSUME NEW n \in Nat PROVE p \in Seq(Byte) /\ ~ Accepts(p \o Zeros(n))
        BY <1>1, <1>5, ZerosType, ForeignDropped
  <2>2. p \in Seq(Byte)
    <3>1. 0 \in Nat
          OBVIOUS
    <3> QED
          BY <2>1, <3>1, Zenon
  <2>3. Robust(os, Link(os, "A") \o p, None, "B")
        BY <1>3, <2>1, <2>2, DroppedFrame
  <2> QED
        BY <1>2, <1>5, <2>3
<1> QED
    BY <1>4, <1>5

\* Where the hosts are, and what B may be sent.
Wanted ==
    \/ want = None
    \/ os = "linux" /\ want = [kind |-> "arp", reply |-> arp_reply("B")]
    \/ \E seg \in Segment : want = Expect(os, "A", seg)

Control ==
    /\ os \in {"linux", "macos"} /\ pc \in {"idle", "wire", "read"} /\ to \in Host
    /\ harm \in {"none", "pad", "damage", "cut"}
    /\ to = "A" => harm = "none"
    /\ to = "B" => Wanted
    /\ want.kind # "panic"

\* What is on the wire will be read as it should.
OnWire ==
    pc = "wire" =>
       /\ harm = "none" => Robust(os, frame, want, to)
       /\ harm = "pad" => Inbound(os, frame, to) = want
       /\ harm \in {"damage", "cut"} => Inbound(os, frame, to) = None

\* What was read is what should have been.
WasRead ==
    /\ pc # "read" => got = None
    /\ pc = "read" /\ harm \in {"none", "pad"} => got = want
    /\ pc = "read" /\ harm \in {"damage", "cut"} => got = None

Inv == Control /\ OnWire /\ WasRead

\* A frame put on the wire that the other host will read as it should.
LEMMA PutOne ==
    ASSUME os \in {"linux", "macos"}, NEW h \in Host, NEW bytes, NEW w, Put(h, bytes, w),
           Robust(os, bytes, w, peer(h)), w.kind # "panic",
           h = "A" => \/ w = None
                      \/ os = "linux" /\ w = [kind |-> "arp", reply |-> arp_reply("B")]
                      \/ \E seg \in Segment : w = Expect(os, "A", seg)
    PROVE  Inv'
<1>1. /\ frame' = bytes /\ want' = w /\ to' = peer(h) /\ pc' = "wire" /\ harm' = "none"
      /\ got' = None /\ os' = os
      BY DEF Put
<1>2. peer(h) \in Host /\ (peer(h) = "B" => h = "A")
      BY DEF peer, Host
<1>3. to' = "B" => Wanted'
      BY <1>1, <1>2 DEF Wanted
<1>4. Control'
      BY <1>1, <1>2, <1>3 DEF Control
<1>5. OnWire'
      BY <1>1 DEF OnWire
<1>6. WasRead'
      BY <1>1 DEF WasRead
<1> QED
    BY <1>4, <1>5, <1>6 DEF Inv

\* A segment of A's stack.
LEMMA TransmitKeeps == ASSUME Inv, NEW seg \in Sent, Transmit(seg) PROVE Inv'
<1>1. os \in {"linux", "macos"}
      BY DEF Inv, Control
<1>2. seg \in Segment /\ Len(seg.payload) + 121 <= 65535
      BY WireAssumption
<1>3. "A" \in Host /\ peer("A") = "B"
      BY DEF Host, peer
<1> DEFINE fr == write_frame_nb(frame_outbound(outbound_msg(Ip["A"], Ip["B"], Mac["A"], Mac["B"], seg)))
           w == Expect(os, "A", seg)
<1>4. Put("A", fr, w)
      BY WordsOfLemmas DEF Transmit
<1>5. Robust(os, fr, w, "B")
  <2> DEFINE es == Mac["A"]
             ed == Mac["B"]
  <2>1. es = Mac["A"] /\ ed = Mac[peer("A")]
        BY <1>3
  <2>2. fr = Framed("A", es, ed, seg)
        BY <1>3 DEF Framed
  <2> HIDE DEF es, ed, fr
  <2>3. Robust(os, Framed("A", es, ed, seg), Expect(os, "A", seg), peer("A"))
        BY <1>1, <1>2, <1>3, <2>1, OwnFrame
  <2> QED
        BY <1>3, <2>2, <2>3
<1>6. w.kind # "panic"
      BY DEF Expect
<1> HIDE DEF fr
<1> QED
    BY <1>1, <1>2, <1>3, <1>4, <1>5, <1>6, PutOne

\* A packet of a foreign stack.
LEMMA ForeignKeeps ==
    ASSUME Inv, NEW o \in Options, NEW seg \in ForeignSent, Foreign(o, seg) PROVE Inv'
<1>1. os \in {"linux", "macos"}
      BY DEF Inv, Control
<1>2. seg \in Segment
      BY WireAssumption
<1>3. "A" \in Host /\ peer("A") = "B"
      BY DEF Host, peer
<1> DEFINE p == foreign_packet(o, seg)
           fr == write_frame_nb(IF os = "linux" THEN ethernet_build(Mac["B"], Mac["A"], p) ELSE p)
           sound == o.total_len = "right" /\ o.data_offset = "right" /\ o.protocol = PROTO_TCP
           w == IF sound THEN Expect(os, "A", seg) ELSE None
<1>4. Put("A", fr, w)
      BY WordsOfLemmas DEF Foreign
<1>5. Robust(os, fr, w, "B")
      BY <1>1, ForeignFrame
<1>6. w.kind # "panic" /\ (w = None \/ w = Expect(os, "A", seg))
      BY DEF Expect, None
<1> HIDE DEF fr, w
<1> QED
    BY <1>1, <1>2, <1>3, <1>4, <1>5, <1>6, PutOne

\* An ARP request.
LEMMA ArpRequestKeeps ==
    ASSUME Inv, NEW ip \in {Ip["B"], <<192, 168, 100, 9>>}, ArpRequest(ip) PROVE Inv'
<1> DEFINE fr == Broadcast \o Mac["A"] \o be16(ETHERTYPE_ARP) \o arp_fixed(1)
                 \o Mac["A"] \o Ip["A"] \o ZERO_MAC \o ip
           w == IF ip = Ip["B"] THEN [kind |-> "arp", reply |-> arp_reply("B")] ELSE None
<1>1. os = "linux" /\ Put("A", fr, w)
      BY DEF ArpRequest
<1>2. Robust("linux", fr, w, "B")
      BY AskedFrame
<1>3. w.kind # "panic" /\ (w = None \/ w = [kind |-> "arp", reply |-> arp_reply("B")])
      BY DEF None
<1>4. "A" \in Host /\ peer("A") = "B"
      BY DEF Host, peer
<1> HIDE DEF fr, w
<1>5. Robust(os, fr, w, peer("A"))
      BY <1>1, <1>2, <1>4
<1> QED
    BY <1>1, <1>3, <1>4, <1>5, PutOne

\* What the network does to a frame that B is to read.
LEMMA NetworkKeeps == ASSUME Inv, Network PROVE Inv'
<1>1. /\ pc = "wire" /\ to = "B" /\ harm = "none" /\ Robust(os, frame, want, to) /\ Control
      /\ got = None
      BY DEF Network, Inv, OnWire, WasRead
<1>2. ASSUME NEW bytes, NEW h \in {"pad", "damage", "cut"}, Harm(bytes, h),
             h = "pad" => Inbound(os, bytes, to) = want,
             h \in {"damage", "cut"} => Inbound(os, bytes, to) = None
      PROVE  Inv'
  <2>1. /\ frame' = bytes /\ harm' = h /\ os' = os /\ pc' = pc /\ to' = to /\ want' = want
        /\ got' = got
        BY <1>2 DEF Harm
  <2>2. Wanted'
        BY <1>1, <2>1 DEF Control, Wanted
  <2>3. Control'
        BY <1>1, <1>2, <2>1, <2>2 DEF Control
  <2>4. OnWire'
        BY <1>1, <1>2, <2>1 DEF OnWire
  <2>5. WasRead'
        BY <1>1, <2>1 DEF WasRead
  <2> QED
        BY <2>3, <2>4, <2>5 DEF Inv
<1>3. CASE Pad
  <2>1. Inbound(os, frame \o Zeros(60 - Len(frame)), to) = want
        BY <1>1, <1>3 DEF Pad, Robust
  <2>2. Harm(frame \o Zeros(60 - Len(frame)), "pad")
        BY <1>3 DEF Pad, Zeros
  <2> QED
        BY <1>2, <2>1, <2>2
<1>4. ASSUME NEW i \in (Protected + 1) .. Len(frame), NEW b \in Byte, Damage(i, b) PROVE Inv'
  <2> DEFINE fr == [frame EXCEPT ![i] = b]
  <2>1. i \in (LinkLen(os) + 1) .. Len(frame)
        BY WordsOfLemmas
  <2>2. Inbound(os, fr, to) = None
        BY <1>1, <1>4, <2>1 DEF Damage, Robust
  <2>3. Harm(fr, "damage")
        BY <1>4 DEF Damage
  <2> HIDE DEF fr
  <2> QED
        BY <1>2, <2>2, <2>3
<1>5. ASSUME NEW n \in 0 .. (Len(frame) - 1), Cut(n) PROVE Inv'
  <2> DEFINE fr == SubSeq(frame, 1, n)
  <2>1. Inbound(os, fr, to) = None
        BY <1>1, <1>5 DEF Cut, Robust
  <2>2. Harm(fr, "cut")
        BY <1>5 DEF Cut
  <2> HIDE DEF fr
  <2> QED
        BY <1>2, <2>1, <2>2
<1> QED
    BY <1>3, <1>4, <1>5 DEF Network

\* The frame is read.
LEMMA ReceiveKeeps == ASSUME Inv, Receive PROVE Inv'
<1>1. /\ pc = "wire" /\ pc' = "read" /\ got' = Inbound(os, frame, to)
      /\ os' = os /\ to' = to /\ frame' = frame /\ want' = want /\ harm' = harm
      BY WordsOfLemmas DEF Receive
<1>2. Control /\ OnWire
      BY DEF Inv
<1>3. harm = "none" => Inbound(os, frame, to) = want
      BY <1>1, <1>2 DEF OnWire, Robust
<1>4. Control'
  <2>1. Wanted => Wanted'
        BY <1>1 DEF Wanted
  <2> QED
        BY <1>1, <1>2, <2>1 DEF Control
<1>5. OnWire'
      BY <1>1 DEF OnWire
<1>6. WasRead'
      BY <1>1, <1>2, <1>3 DEF WasRead, OnWire
<1> QED
    BY <1>4, <1>5, <1>6 DEF Inv

\* The back segment has the other's ports, turned round.
Back(g, sp, dp) ==
    [src_port |-> sp, dst_port |-> dp, seq |-> <<65535, 65535>>, ack_num |-> g.seg.seq,
     flags |-> {"SYN", "ACK"}, window |-> 65535, payload |-> <<>>]

\* B's answer reaches A.
LEMMA AnswerKeeps == ASSUME Inv, Answer PROVE Inv'
<1>1. /\ Control /\ pc = "read" /\ to = "B" /\ got = want /\ Wanted
      /\ os \in {"linux", "macos"}
      BY DEF Inv, Answer, WasRead, Control
<1>2. "B" \in Host /\ peer("B") = "A" /\ peer("A") = "B"
      BY DEF Host, peer
<1>3. CASE got.kind = "arp" /\ Put("B", write_frame_nb(got.reply), None)
  <2>1. os = "linux" /\ got.reply = arp_reply("B")
        BY <1>1, <1>3 DEF Wanted, None, Expect
  <2>2. write_frame_nb(got.reply) = arp_reply("B")
        BY <2>1 DEF write_frame_nb
  <2>3. Robust(os, arp_reply("B"), None, peer("B"))
        BY <1>2, <2>1, ReplyFrame
  <2>4. None.kind # "panic"
        BY DEF None
  <2> QED
        BY <1>1, <1>2, <1>3, <2>2, <2>3, <2>4, PutOne
<1> DEFINE sp == got.seg.dst_port
           dp == got.seg.src_port
           b == Back(got, sp, dp)
           fr == write_frame_nb(frame_outbound(
                    outbound_msg(got.local_ip, got.remote_ip, got.ether_src, got.ether_dst, b)))
<1>4. CASE got.kind = "tcp" /\ Put("B", fr, Expect(os, "B", b))
  <2>1. PICK seg \in Segment : got = Expect(os, "A", seg)
        BY <1>1, <1>4 DEF Wanted, None
  <2>2. /\ got.local_ip = Ip["B"] /\ got.remote_ip = Ip["A"] /\ got.seg = seg
        /\ os = "linux" => got.ether_src = Mac["B"] /\ got.ether_dst = Mac["A"]
        BY <1>2, <2>1 DEF Expect, OwnMac, PeerMac
  <2>3. b \in Segment /\ b.payload = <<>>
    <3>1. sp \in Word /\ dp \in Word /\ got.seg.seq \in Word \X Word
          BY <2>2 DEF Segment
    <3>2. 65535 \in Word /\ <<65535, 65535>> \in Word \X Word
          BY DEF Word
    <3>3. {"SYN", "ACK"} \in SUBSET TcpFlags
          BY DEF TcpFlags, Weight
    <3>4. <<>> \in Seq(Byte)
          OBVIOUS
    <3> HIDE DEF sp, dp
    <3> QED
          BY <3>1, <3>2, <3>3, <3>4 DEF Segment, Back
  <2>4. Len(b.payload) + 121 <= 65535
        BY <2>3
  <2> DEFINE es == got.ether_src
             ed == got.ether_dst
  <2>5. fr = Framed("B", es, ed, b)
        BY <1>2, <2>2 DEF Framed
  <2> HIDE DEF b, fr
  <2>6. Robust(os, fr, Expect(os, "B", b), peer("B"))
    <3>1. os = "linux" => es = Mac["B"] /\ ed = Mac[peer("B")]
          BY <1>2, <2>2
    <3> HIDE DEF es, ed
    <3>2. Robust(os, Framed("B", es, ed, b), Expect(os, "B", b), peer("B"))
          BY <1>1, <1>2, <2>3, <2>4, <3>1, OwnFrame
    <3> QED
          BY <2>5, <3>2
  <2>7. Expect(os, "B", b).kind # "panic"
        BY DEF Expect
  <2> QED
        BY <1>1, <1>2, <1>4, <2>6, <2>7, PutOne
<1>5. \/ got.kind = "arp" /\ Put("B", write_frame_nb(got.reply), None)
      \/ got.kind = "tcp" /\ Put("B", fr, Expect(os, "B", b))
      BY <1>1, WordsOfLemmas DEF Answer, Back
<1> QED
    BY <1>3, <1>4, <1>5

\* The exchange ends.
LEMMA DoneKeeps == ASSUME Inv, Done PROVE Inv'
<1>1. /\ pc' = "idle" /\ to' = "B" /\ want' = None /\ harm' = "none" /\ got' = None /\ os' = os
      /\ os \in {"linux", "macos"}
      BY DEF Done, Inv, Control
<1> QED
    BY <1>1 DEF Inv, Control, OnWire, WasRead, Wanted, Host, None

\* Nothing happens.
LEMMA StutterKeeps == ASSUME Inv, UNCHANGED vars PROVE Inv'
<1>1. /\ os' = os /\ pc' = pc /\ to' = to /\ frame' = frame /\ want' = want /\ harm' = harm
      /\ got' = got
      BY DEF vars
<1> QED
    BY <1>1 DEF Inv, Control, OnWire, WasRead, Wanted

\* Inv is inductive.
THEOREM WireInductive == Spec => []Inv
<1>1. Init => Inv
      BY DEF Init, Inv, Control, OnWire, WasRead, Wanted, Host, None
<1>2. Inv /\ [Next]_vars => Inv'
  <2> SUFFICES ASSUME Inv, [Next]_vars PROVE Inv'
      OBVIOUS
  <2> QED
      BY TransmitKeeps, ForeignKeeps, ArpRequestKeeps, NetworkKeeps, ReceiveKeeps, AnswerKeeps,
         DoneKeeps, StutterKeeps DEF Next
<1> QED
    BY <1>1, <1>2, PTL DEF Spec

\* The event loop's reading arm comes to an end for every sequence of bytes the
\* device may hand over, not only for frames of this network: EthernetFrame,
\* Ipv4Packet and TcpSegment::parse and parse_arp_request index nothing that
\* their tests have not found to be there.
THEOREM InboundNeverPanics ==
    ASSUME NEW raw \in Seq(Byte), NEW h
    PROVE  inbound(raw, h).kind # "panic"
<1> DEFINE n == Len(raw)
           f == ethernet_parse(raw)
           req == parse_arp_request(raw)
<1>1. n \in Nat
      OBVIOUS
<1>2. ASSUME NEW x \in Seq(Byte), NEW es, NEW ed
      PROVE  dispatch_packet(x, es, ed).kind # "panic"
  <2>1. \/ dispatch_packet(x, es, ed) = None
        \/ \E a, b, g : dispatch_packet(x, es, ed) =
               [kind |-> "tcp", remote_ip |-> a, local_ip |-> b, ether_src |-> es,
                ether_dst |-> ed, seg |-> g]
        BY DispatchValue, Zenon
  <2> HIDE DEF f, req, n
  <2> QED
        BY <2>1 DEF None
<1>3. req.err # "panic"
  <2>1. ~ (n < ARP_FRAME_LEN) => 0 <= ARP_FRAME_LEN /\ ARP_FRAME_LEN <= n
        BY <1>1 DEF ARP_FRAME_LEN, ETHERNET_HEADER_LEN
  <2>2. \/ req = Err("None")
        \/ \E a, b, c : req = [err |-> "none", sender_mac |-> a, sender_ip |-> b, target_ip |-> c]
        BY <2>1 DEF parse_arp_request, reads
  <2> HIDE DEF req
  <2> QED
        BY <2>2 DEF Err
<1>4. \/ f = Err("EthernetFrameTooShort")
      \/ \E a : f = [err |-> "NonIpv4EtherType", ethertype |-> a]
      \/ \E a, b : \E x \in Seq(Byte) : f = [err |-> "none", dst_mac |-> a, src_mac |-> b, payload |-> x]
  <2>1. ~ (n < 14) => 0 <= 14 /\ 14 <= n
        BY <1>1
  <2>2. ~ (n < 14) => from(raw, 14) \in Seq(Byte)
        BY <2>1, FromBytes
  <2>3. ~ (n < 14) => \A r : reads(raw, 0, 14, r) = r
        BY <2>1 DEF reads
  <2>4. f = IF n < 14 THEN Err("EthernetFrameTooShort")
            ELSE reads(raw, 0, 14,
                 IF u16(raw, 12) # ETHERTYPE_IPV4
                 THEN [err |-> "NonIpv4EtherType", ethertype |-> u16(raw, 12)]
                 ELSE [err |-> "none", dst_mac |-> slice(raw, 0, 6), src_mac |-> slice(raw, 6, 12),
                       payload |-> from(raw, 14)])
        BY DEF ethernet_parse, ETHERNET_HEADER_LEN
  <2> HIDE DEF f, n
  <2> QED
        BY <2>2, <2>3, <2>4, Zenon
<1>5. inbound_dispatch_linux(raw, Ip[h], Mac[h]).kind # "panic"
  <2> DEFINE y == inbound_dispatch_linux(raw, Ip[h], Mac[h])
  <2>1. y = IF f.err = "none" THEN dispatch_packet(f.payload, f.dst_mac, f.src_mac)
            ELSE IF f.err # "NonIpv4EtherType" THEN rejected(f)
            ELSE IF f.ethertype # ETHERTYPE_ARP THEN None
            ELSE IF req.err # "none" THEN rejected(req)
            ELSE IF req.target_ip # Ip[h] THEN None
            ELSE [kind |-> "arp",
                  reply |-> build_arp_reply_frame(Mac[h], Ip[h], req.sender_mac, req.sender_ip)]
        BY DEF inbound_dispatch_linux
  <2>2. f.err # "panic" /\ (f.err = "none" => f.payload \in Seq(Byte))
    <3> HIDE DEF f
    <3> QED
        BY <1>4 DEF Err
  <2>3. f.err = "none" => dispatch_packet(f.payload, f.dst_mac, f.src_mac).kind # "panic"
        BY <1>2, <2>2
  <2> HIDE DEF y, f, req
  <2>4. y.kind # "panic"
        BY <1>3, <2>1, <2>2, <2>3 DEF rejected, None
  <2> QED
        BY <2>4 DEF y
<1>6. CASE os = "linux"
      BY <1>5, <1>6 DEF inbound, try_recv_nb, None
<1>7. CASE os # "linux"
  <2> DEFINE x == from(raw, 4)
  <2>1. CASE n <= 4
        BY <1>7, <2>1 DEF inbound, try_recv_nb, None
  <2>2. CASE ~ (n <= 4)
    <3>1. x \in Seq(Byte)
      <4>1. 4 <= n
            BY <1>1, <2>2
      <4> QED
            BY <1>1, <4>1, FromBytes
    <3>2. inbound_dispatch_macos(x).kind # "panic"
          BY <1>2, <3>1 DEF inbound_dispatch_macos
    <3> QED
          BY <1>7, <2>2, <3>2 DEF inbound, try_recv_nb, None
  <2> QED
        BY <2>1, <2>2
<1> QED
    BY <1>6, <1>7

\* In particular no frame of this network, foreign, padded, damaged or cut, makes
\* a parser slice out of range.
THEOREM WireNoPanic == Spec => []NoPanic
<1>1. Inv => NoPanic
      BY DEF Inv, Control, WasRead, NoPanic, None
<1> QED
    BY <1>1, WireInductive, PTL

\* What A sends B dispatches unchanged, padded or not, and what does not agree
\* with its own length fields B drops.
THEOREM WireFaithful == Spec => []Faithful
<1>1. Inv => Faithful
      BY DEF Inv, WasRead, Faithful
<1> QED
    BY <1>1, WireInductive, PTL

\* B's answer reaches A with its addresses and ports turned round.
THEOREM WireAnswerComesHome == Spec => []AnswerComesHome
<1>1. Inv => AnswerComesHome
      BY DEF Inv, Control, WasRead, AnswerComesHome
<1> QED
    BY <1>1, WireInductive, PTL

\* No change of one byte behind the link header, and no cut, gets a segment
\* past the two parsers.
THEOREM WireDamageRejected == Spec => []DamageRejected
<1>1. Inv => DamageRejected
      BY DEF Inv, WasRead, DamageRejected
<1> QED
    BY <1>1, WireInductive, PTL
=============================================================================
