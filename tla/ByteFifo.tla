------------------------------ MODULE ByteFifo ------------------------------
(***************************************************************************)
(* What a TCP send buffer promises, with no ring, no head index and no     *)
(* modular bookkeeping: a queue of bytes written and not yet acknowledged, *)
(* the first `sent` of which have been transmitted.  The byte at position  *)
(* i of the queue has sequence number base + i - 1 for as long as it is    *)
(* held, whatever is written, transmitted or acknowledged around it.       *)
(***************************************************************************)
EXTENDS SeqArith, Sequences

CONSTANTS Byte, Capacity

VARIABLES queue,   \* the bytes held, oldest first
          base,    \* sequence number of the oldest byte
          sent,    \* how many of them have been transmitted
          wire     \* the last segment transmitted, [seq, data]

fifoVars == <<queue, base, sent, wire>>

FifoInit ==
    /\ queue = <<>>
    /\ base \in SeqNum
    /\ sent = 0
    /\ wire = [seq |-> base, data |-> <<>>]

\* Bytes the application writes join the queue, as far as there is room.
Enqueue(data) ==
    /\ queue' = queue \o data
    /\ UNCHANGED <<base, sent, wire>>

\* The next n untransmitted bytes go out under their own sequence numbers.
Emit(n) ==
    /\ n > 0
    /\ sent + n <= Len(queue)
    /\ wire' = [seq |-> wrapping_add(base, sent), data |-> SubSeq(queue, sent + 1, sent + n)]
    /\ sent' = sent + n
    /\ UNCHANGED <<queue, base>>

\* The peer has the n oldest bytes, all of them transmitted before.
Release(n) ==
    /\ n > 0
    /\ n <= sent
    /\ queue' = SubSeq(queue, n + 1, Len(queue))
    /\ base' = wrapping_add(base, n)
    /\ sent' = sent - n
    /\ UNCHANGED wire

FifoNext ==
    \/ \E k \in 1 .. (Capacity - Len(queue)) : \E data \in [1 .. k -> Byte] : Enqueue(data)
    \/ \E n \in 1 .. Capacity : Emit(n) \/ Release(n)

FifoSpec == FifoInit /\ [][FifoNext]_fifoVars
=============================================================================
