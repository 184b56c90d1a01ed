------------------------------ MODULE SeqArith ------------------------------
(***************************************************************************)
(* 32-bit sequence-number arithmetic of magnum-tcp/src/tcp/tcb.rs.         *)
(*                                                                         *)
(* A sequence number is a u32.  The width is a parameter: Half stands for  *)
(* 0x8000_0000, so Modulus = 2 * Half stands for 2^32.  Every wrapping     *)
(* operation below adds or removes Modulus at most once, which is what     *)
(* u32::wrapping_add/wrapping_sub do on operands that are themselves u32.  *)
(***************************************************************************)
EXTENDS Integers

CONSTANT Half          \* 0x8000_0000, half of the sequence-number space

ASSUME HalfAssumption == Half \in Nat /\ Half >= 2

Modulus == 2 * Half
SeqNum  == 0 .. (Modulus - 1)

min(a, b) == IF a <= b THEN a ELSE b
max(a, b) == IF a >= b THEN a ELSE b

wrapping_add(a, n) == IF a + n < Modulus THEN a + n ELSE a + n - Modulus
wrapping_sub(a, b) == IF a >= b THEN a - b ELSE a - b + Modulus

\* u32::saturating_add
saturating_add(a, n) == min(a + n, Modulus - 1)

seq_lt(a, b) == a # b /\ wrapping_sub(b, a) < Half
seq_le(a, b) == a = b \/ seq_lt(a, b)

\* SND.UNA < SEG.ACK <= SND.NXT
ack_acceptable(una, ack, nxt) == seq_lt(una, ack) /\ seq_le(ack, nxt)
=============================================================================
