----------------------------- MODULE Induction -----------------------------
(***************************************************************************)
(* Induction and recursion over the naturals without operator parameters,  *)
(* which the provers cannot instantiate: a property is the set of numbers  *)
(* that have it, and a step of a recursion is a function.  Everything      *)
(* rests on the least-number principle, which is an instance of the        *)
(* library's theorem that a nonempty subset of a well-founded set has a    *)
(* minimal element.                                                        *)
(***************************************************************************)
EXTENDS Selection, WellFoundedInduction, TLAPS

\* Every nonempty set of naturals has a least element.
LEMMA LeastNat ==
    ASSUME NEW T \in SUBSET Nat, T # {}
    PROVE  \E m \in T : \A k \in T : m <= k
<1>1. IsWellFoundedOn(OpToRel(<, Nat), Nat)
      BY NatLessThanWellFounded
<1>2. PICK m \in T : \A k \in T : ~ (<<k, m>> \in OpToRel(<, Nat))
      BY <1>1, WFMin
<1>3. ASSUME NEW k \in T, k < m
      PROVE  FALSE
  <2>1. <<k, m>> \in OpToRel(<, Nat)
        BY <1>3 DEF OpToRel
  <2> QED
        BY <2>1, <1>2
<1> QED
    BY <1>3

\* Induction up to n, for the property of being in S.
LEMMA UpTo ==
    ASSUME NEW n \in Nat, NEW S, 0 \in S, \A i \in 1 .. n : i - 1 \in S => i \in S
    PROVE  \A i \in 0 .. n : i \in S
<1> DEFINE T == {i \in 0 .. n : i \notin S}
<1> SUFFICES ASSUME T # {} PROVE FALSE
    OBVIOUS
<1>1. PICK m \in T : \A k \in T : m <= k
  <2>1. T \in SUBSET Nat
        OBVIOUS
  <2> HIDE DEF T
  <2> QED
        BY <2>1, LeastNat
<1>2. m \in 1 .. n /\ m - 1 \in 0 .. n
      BY <1>1
<1>3. m - 1 \in S
      BY <1>1, <1>2
<1> QED
    BY <1>1, <1>2, <1>3

\* f is the run of n steps of g within D that starts with c.
Runs(f, n, D, c, g) ==
    f \in [0 .. n -> D] /\ f[0] = c /\ \A i \in 1 .. n : f[i] = g[i][f[i - 1]]

\* A recursion that takes n steps within a set has a result.
LEMMA Recursion ==
    ASSUME NEW n \in Nat, NEW D, NEW c \in D, NEW g \in [1 .. n -> [D -> D]]
    PROVE  \E f : Runs(f, n, D, c, g)
<1> DEFINE Good(k) == \E f \in [0 .. k -> D] : f[0] = c /\ \A i \in 1 .. k : f[i] = g[i][f[i - 1]]
           S == {k \in 0 .. n : Good(k)}
<1>1. Good(0)
  <2> DEFINE h == [i \in 0 .. 0 |-> c]
  <2>1. h \in [0 .. 0 -> D] /\ h[0] = c /\ \A i \in 1 .. 0 : h[i] = g[i][h[i - 1]]
        OBVIOUS
  <2> HIDE DEF h
  <2> QED
        BY <2>1
<1>2. ASSUME NEW k \in 1 .. n, Good(k - 1)
      PROVE  Good(k)
  <2>1. PICK f \in [0 .. (k - 1) -> D] :
            f[0] = c /\ \A i \in 1 .. (k - 1) : f[i] = g[i][f[i - 1]]
        BY <1>2
  <2> DEFINE h == [i \in 0 .. k |-> IF i = k THEN g[k][f[k - 1]] ELSE f[i]]
  <2>2. h \in [0 .. k -> D]
        BY <2>1
  <2>3. h[0] = c
        BY <2>1
  <2>4. ASSUME NEW i \in 1 .. k PROVE h[i] = g[i][h[i - 1]]
        BY <2>1
  <2> HIDE DEF h
  <2> QED
        BY <2>2, <2>3, <2>4
<1>3. n \in S
  <2> HIDE DEF Good
  <2>1. 0 \in S /\ \A i \in 1 .. n : i - 1 \in S => i \in S
        BY <1>1, <1>2
  <2> HIDE DEF S
  <2>2. \A i \in 0 .. n : i \in S
        BY <2>1, UpTo
  <2> QED
        BY <2>2
<1> QED
    BY <1>3 DEF Runs
-----------------------------------------------------------------------------
(* What Select returns.                                                    *)

\* t holds the elements of the first i places of s that are in K, in order: m
\* says from which place each comes.
Selects(s, K, i, t, m) ==
    /\ m \in [1 .. Len(t) -> 1 .. i]
    /\ \A j \in 1 .. Len(t) : t[j] = s[m[j]] /\ s[m[j]] \in K
    /\ \A j, k \in 1 .. Len(t) : j < k => m[j] < m[k]
    /\ \A h \in 1 .. i : s[h] \in K => \E j \in 1 .. Len(t) : m[j] = h

\* One more place.
LEMMA SelectsStep ==
    ASSUME NEW A, NEW s \in Seq(A), NEW K, NEW i \in 1 .. Len(s),
           NEW t \in Seq(A), NEW m, Selects(s, K, i - 1, t, m)
    PROVE  \E u : Selects(s, K, i, IF s[i] \in K THEN Append(t, s[i]) ELSE t, u)
<1>1. CASE s[i] \notin K
  <2>1. Selects(s, K, i, t, m)
        BY <1>1 DEF Selects
  <2> QED
        BY <1>1, <2>1
<1>2. CASE s[i] \in K
  <2> DEFINE n == Len(t)
             w == Append(t, s[i])
             u == [j \in 1 .. (n + 1) |-> IF j = n + 1 THEN i ELSE m[j]]
  <2>1. /\ n \in Nat /\ Len(w) = n + 1 /\ w[n + 1] = s[i]
        /\ \A j \in 1 .. n : w[j] = t[j]
        OBVIOUS
  <2>2. u \in [1 .. (n + 1) -> 1 .. i]
        BY <2>1 DEF Selects
  <2>3. u[n + 1] = i /\ \A j \in 1 .. n : u[j] = m[j] /\ m[j] \in 1 .. (i - 1)
        BY <2>1 DEF Selects
  <2> HIDE DEF u, w, n
  <2>4. \A j \in 1 .. (n + 1) : w[j] = s[u[j]] /\ s[u[j]] \in K
        BY <1>2, <2>1, <2>3 DEF Selects, n
  <2>5. ASSUME NEW j \in 1 .. (n + 1), NEW k \in 1 .. (n + 1), j < k
        PROVE  u[j] < u[k]
    <3>1. j \in 1 .. n /\ u[j] = m[j] /\ m[j] \in 1 .. (i - 1)
          BY <2>1, <2>3, <2>5
    <3>2. CASE k = n + 1
          BY <2>3, <3>1, <3>2
    <3>3. CASE k # n + 1
      <4>1. k \in 1 .. n
            BY <2>1, <3>3
      <4>2. m[j] < m[k]
            BY <2>5, <3>1, <4>1 DEF Selects, n
      <4> QED
            BY <2>3, <3>1, <4>1, <4>2
    <3> QED
          BY <3>2, <3>3
  <2>6. ASSUME NEW h \in 1 .. i, s[h] \in K
        PROVE  \E j \in 1 .. (n + 1) : u[j] = h
    <3>1. CASE h = i
          BY <3>1, <2>1, <2>3
    <3>2. CASE h # i
      <4>1. PICK j \in 1 .. n : m[j] = h
            BY <2>6, <3>2 DEF Selects, n
      <4> QED
            BY <4>1, <2>1, <2>3
    <3> QED
          BY <3>1, <3>2
  <2>7. Selects(s, K, i, w, u)
        BY <2>1, <2>2, <2>4, <2>5, <2>6 DEF Selects
  <2> QED
        BY <1>2, <2>7 DEF w
<1> QED
    BY <1>1, <1>2

\* Select(s, K) is a sequence no longer than s that holds exactly the elements
\* of s that are in K, each as often as s does and in the same order.
LEMMA SelectProperties ==
    ASSUME NEW A, NEW s \in Seq(A), NEW K
    PROVE  /\ Select(s, K) \in Seq(A)
           /\ Len(Select(s, K)) <= Len(s)
           /\ \E m : Selects(s, K, Len(s), Select(s, K), m)
<1> DEFINE n == Len(s)
           D == Seq(A)
           next(i, t) == IF s[i] \in K THEN Append(t, s[i]) ELSE t
           e == <<>>
           g == [i \in 1 .. n |-> [t \in D |-> next(i, t)]]
           Eq(h) == h = [i \in 0 .. n |-> IF i = 0 THEN e ELSE next(i, h[i - 1])]
           f == CHOOSE h : Eq(h)
<1>1. n \in Nat /\ e \in D /\ \A i \in 1 .. n : \A t \in D : next(i, t) \in D
      OBVIOUS
<1>2. Select(s, K) = f[n]
      BY DEF Select
<1>3. \E h : Eq(h)
  <2> HIDE DEF n, D, next
  <2>1. g \in [1 .. n -> [D -> D]]
        BY <1>1
  <2>2. PICK h : Runs(h, n, D, e, g)
    <3> HIDE DEF g, e
    <3> QED
        BY <1>1, <2>1, Recursion
  <2>3. ASSUME NEW i \in 1 .. n
        PROVE  h[i] = next(i, h[i - 1])
    <3>1. h[i - 1] \in D
          BY <1>1, <2>2 DEF Runs
    <3> QED
        BY <2>2, <3>1 DEF Runs
  <2> HIDE DEF g
  <2>4. \A i \in 0 .. n : h[i] = IF i = 0 THEN e ELSE next(i, h[i - 1])
        BY <1>1, <2>2, <2>3 DEF Runs
  <2> QED
        BY <2>2, <2>4 DEF Runs
<1>4. Eq(f)
  <2> HIDE DEF Eq
  <2> QED
        BY <1>3
<1>5. f[0] = e /\ \A i \in 1 .. n : f[i] = next(i, f[i - 1])
  <2> HIDE DEF n, next, f
  <2>1. \A i \in 0 .. n : f[i] = IF i = 0 THEN e ELSE next(i, f[i - 1])
        BY <1>4
  <2> QED
        BY <1>1, <2>1
<1> DEFINE Good(i) == f[i] \in D /\ Len(f[i]) <= i /\ \E m : Selects(s, K, i, f[i], m)
           S == {i \in 0 .. n : Good(i)}
<1> HIDE DEF f
<1>6. Good(0)
  <2>1. Selects(s, K, 0, e, <<>>) /\ e \in D /\ Len(e) <= 0
        BY DEF Selects
  <2> HIDE DEF e, D
  <2> QED
        BY <1>5, <2>1
<1>7. ASSUME NEW i \in 1 .. n, Good(i - 1)
      PROVE  Good(i)
  <2>1. PICK m : Selects(s, K, i - 1, f[i - 1], m)
        BY <1>7
  <2>2. f[i] = next(i, f[i - 1])
        BY <1>5
  <2>3. f[i - 1] \in Seq(A) /\ Len(f[i - 1]) <= i - 1
        BY <1>7
  <2>4. s[i] \in A
        OBVIOUS
  <2> DEFINE t == f[i - 1]
  <2> HIDE DEF t
  <2>5. \E u : Selects(s, K, i, next(i, t), u)
        BY <2>1, <2>3, SelectsStep DEF t
  <2>6. next(i, t) \in Seq(A) /\ Len(next(i, t)) <= i
        BY <2>3, <2>4 DEF t
  <2> HIDE DEF next
  <2> QED
        BY <2>2, <2>5, <2>6 DEF t
<1>8. Good(n)
  <2> HIDE DEF Good, n
  <2>1. 0 \in S /\ \A i \in 1 .. n : i - 1 \in S => i \in S
        BY <1>1, <1>6, <1>7
  <2> HIDE DEF S
  <2>2. \A i \in 0 .. n : i \in S
        BY <1>1, <2>1, UpTo
  <2> QED
        BY <1>1, <2>2 DEF S
<1> QED
    BY <1>2, <1>8
=============================================================================
