----------------------------- MODULE SendBuffer -----------------------------
(***************************************************************************)
(* The counters of magnum-tcp/src/tcp/send_buffer.rs: a send buffer is a   *)
(* record [una, nxt, len] of the lowest unacknowledged sequence number,    *)
(* the next one to transmit, and the number of bytes held.  The bytes      *)
(* themselves, and the ring index `head`, are in module SendRing.          *)
(***************************************************************************)
EXTENDS SeqArith

CONSTANT SEND_BUF_SIZE

\* 65536 bytes (and the FIN) are a vanishing part of half the 2^32 sequence
\* numbers, so a distance inside the buffer is never mistaken for a negative one.
ASSUME SendBufSizeAssumption ==
    SEND_BUF_SIZE \in Nat /\ SEND_BUF_SIZE >= 1 /\ SEND_BUF_SIZE + 1 < Half

SendBuf == [una : SeqNum, nxt : SeqNum, len : 0 .. SEND_BUF_SIZE]

\* SendBuffer::new
send_new(iss) ==
    [una |-> wrapping_add(iss, 1), nxt |-> wrapping_add(iss, 1), len |-> 0]

\* One byte more than there is room for.
Bug_send_accepted(sb, k) == min(k, SEND_BUF_SIZE - sb.len + 1)

\* SendBuffer::write: the bytes that find no room are dropped.
send_accepted(sb, k) == min(k, SEND_BUF_SIZE - sb.len)

send_write(sb, k) == [sb EXCEPT !.len = @ + send_accepted(sb, k)]

send_inflight(sb) == wrapping_sub(sb.nxt, sb.una)

\* SendBuffer::next_segment: the length of the segment at sb.nxt, 0 for None.
next_segment_len(sb, max_len) ==
    IF send_inflight(sb) >= sb.len THEN 0
    ELSE min(sb.len - send_inflight(sb), max_len)

advance_nxt(sb, n) == [sb EXCEPT !.nxt = wrapping_add(@, n)]

\* SendBuffer::acknowledge: the number of bytes an acknowledgement releases.
newly_acked(sb, ack) ==
    LET n == wrapping_sub(ack, sb.una) IN IF n > sb.len THEN 0 ELSE n

acknowledge(sb, ack) ==
    IF newly_acked(sb, ack) = 0 THEN sb
    ELSE [una |-> ack, nxt |-> sb.nxt, len |-> sb.len - newly_acked(sb, ack)]
=============================================================================
