------------------------------ MODULE SendRing ------------------------------
(***************************************************************************)
(* SendBuffer of magnum-tcp/src/tcp/send_buffer.rs with its contents: a    *)
(* ring `buf` of SEND_BUF_SIZE bytes, the index `head` of the oldest byte  *)
(* held, and the counters of module SendBuffer.  Its callers are           *)
(* Connection::write_data (Write), next_segment_to_send and                *)
(* zero_window_probe (Transmit) and the acknowledgement paths of the       *)
(* handlers (Acknowledge), which pass only acknowledgements that satisfy   *)
(* ack_acceptable.  The acknowledgement of a FIN, one past sb.nxt, which   *)
(* handle_fin_wait_1 passes on too, is not among them: no application of   *)
(* main.rs gets a connection to FIN_WAIT_1, and what the buffer would make *)
(* of it is in module ConnectionProofs (Skipped).                          *)
(***************************************************************************)
EXTENDS SendBuffer, Sequences

CONSTANTS Byte,         \* u8
          MaxWrite,     \* largest chunk the application writes at once
          MaxPayload    \* largest max_len asked of next_segment

ASSUME SendRingAssumption ==
    0 \in Byte /\ MaxWrite \in Nat /\ MaxPayload \in Nat /\ MaxPayload <= SEND_BUF_SIZE

VARIABLES buf, head, sb,
          wire    \* the last segment handed out by next_segment, [seq, data]

ringVars == <<buf, head, sb, wire>>

N == SEND_BUF_SIZE
Index == 0 .. (N - 1)

\* i % SEND_BUF_SIZE, for the sums of an index and an offset within the ring.
slot(i) == IF i < N THEN i ELSE i - N

\* How far index j lies after index i, going round the ring.
ring_dist(i, j) == IF j >= i THEN j - i ELSE j - i + N

RingInit ==
    /\ buf = [i \in Index |-> 0]
    /\ head = 0
    /\ \E iss \in SeqNum : sb = send_new(iss)
    /\ wire = [seq |-> sb.nxt, data |-> <<>>]

\* A tail computed from what was transmitted instead of from what is held.
Bug_Write(data) ==
    LET n    == send_accepted(sb, Len(data))
        tail == slot(head + send_inflight(sb))
    IN  /\ buf' = [j \in Index |-> IF ring_dist(tail, j) < n
                                   THEN data[ring_dist(tail, j) + 1] ELSE buf[j]]
        /\ sb' = send_write(sb, Len(data))
        /\ UNCHANGED <<head, wire>>

Write(data) ==
    LET n    == send_accepted(sb, Len(data))
        tail == slot(head + sb.len)
    IN  /\ buf' = [j \in Index |-> IF ring_dist(tail, j) < n
                                   THEN data[ring_dist(tail, j) + 1] ELSE buf[j]]
        /\ sb' = send_write(sb, Len(data))
        /\ UNCHANGED <<head, wire>>

\* next_segment followed by advance_nxt, as both callers do.
Transmit(max_len) ==
    LET n     == next_segment_len(sb, max_len)
        start == slot(head + send_inflight(sb))
    IN  /\ n > 0
        /\ wire' = [seq |-> sb.nxt, data |-> [i \in 1 .. n |-> buf[slot(start + i - 1)]]]
        /\ sb' = advance_nxt(sb, n)
        /\ UNCHANGED <<buf, head>>

Acknowledge(ack) ==
    /\ ack_acceptable(sb.una, ack, sb.nxt)
    /\ head' = slot(head + newly_acked(sb, ack))
    /\ sb' = acknowledge(sb, ack)
    /\ UNCHANGED <<buf, wire>>

RingNext ==
    \/ \E k \in 1 .. MaxWrite : \E data \in [1 .. k -> Byte] : Write(data)
    \/ \E max_len \in 1 .. MaxPayload : Transmit(max_len)
    \/ \E ack \in SeqNum : Acknowledge(ack)

RingSpec == RingInit /\ [][RingNext]_ringVars
-----------------------------------------------------------------------------
\* The ring's state is well formed, and no byte counts as in flight that the
\* buffer does not hold (next_segment would silently refuse to send for ever).
RingTypeOK ==
    /\ buf \in [Index -> Byte]
    /\ head \in Index
    /\ sb \in SendBuf
    /\ send_inflight(sb) <= sb.len

\* The bytes held, oldest first.
held == [i \in 1 .. sb.len |-> buf[slot(head + i - 1)]]

Fifo == INSTANCE ByteFifo WITH Capacity <- SEND_BUF_SIZE, queue <- held,
                               base <- sb.una, sent <- send_inflight(sb)

\* SendBuffer implements a byte FIFO: through every wrap of the ring index and
\* of the sequence space, each segment handed out by next_segment carries
\* exactly the bytes the application wrote for those sequence numbers, and
\* acknowledge releases exactly the acknowledged prefix.
ImplementsFifo == Fifo!FifoSpec
=============================================================================
