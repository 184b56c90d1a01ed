----------------------------- MODULE Selection -----------------------------
(***************************************************************************)
(* Vec::retain and friends: the elements of a sequence that are in a set.  *)
(* SelectSeq says the same of a predicate, but the provers know no facts   *)
(* about it; module Induction proves those about Select.                   *)
(***************************************************************************)
EXTENDS Integers, Sequences

\* The elements of s that are in K, in their order.
Select(s, K) ==
    LET f[i \in 0 .. Len(s)] ==
            IF i = 0 THEN <<>>
            ELSE IF s[i] \in K THEN Append(f[i - 1], s[i]) ELSE f[i - 1]
    IN  f[Len(s)]
=============================================================================
