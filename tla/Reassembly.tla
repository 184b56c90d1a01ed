----------------------------- MODULE Reassembly -----------------------------
(***************************************************************************)
(* RecvBuffer against a peer and a network.  The stream is the bytes 0, 1, *)
(* 2 ...: byte p is written p, so that every copy of a byte says where it  *)
(* belongs.  The peer cuts the stream into segments as it likes, cuts it   *)
(* differently when it retransmits and may overrun the window a little,    *)
(* which nothing but the ring's free space checks; the network reorders,   *)
(* duplicates and delays segments, for less than half the sequence space.  *)
(***************************************************************************)
EXTENDS RecvBuffer

CONSTANTS Irs,          \* the peer's initial sequence numbers
          MaxStream,    \* bound: bytes of the stream
          MaxSegment,   \* bound: bytes of a segment
          MaxAge,       \* bound: how far behind nxt a late duplicate may start
          MaxBeyond     \* bound: how far past the window the peer may send

\* The stream ends before its sequence numbers repeat.  In a longer one a staged
\* segment that nxt has stepped over, which no drain removes, would be met
\* again a lap later and its stale bytes committed.
ASSUME ReassemblyAssumption ==
    /\ Irs \subseteq SeqNum
    /\ MaxStream \in Nat /\ MaxStream < Modulus
    /\ MaxSegment \in Nat
    /\ MaxAge \in Nat /\ MaxAge < Half

ASSUME MaxBeyondAssumption == MaxBeyond \in Nat /\ RECV_BUF_SIZE + MaxBeyond < Half

VARIABLES irs, rb,
          got     \* how many bytes the application has read

vars == <<irs, rb, got>>

Init == irs \in Irs /\ rb = recv_new(irs) /\ got = 0

\* The stream position of rb.nxt, as the number of bytes accepted in order.
accepted == got + Len(rb.buf)

seq_of(p) == wrapping_add(irs, 1 + p)

Arrive(p, n) ==
    /\ p + n <= accepted + window(rb) + MaxBeyond
    /\ accepted - p <= MaxAge
    /\ p + n <= MaxStream
    /\ rb' = insert(rb, seq_of(p), [i \in 1 .. n |-> p + i - 1])
    /\ UNCHANGED <<irs, got>>

\* forward_received_data reads everything available; read itself takes any count.
Read(n) ==
    /\ n <= Len(rb.buf)
    /\ rb' = recv_read(rb, n)
    /\ got' = got + n
    /\ UNCHANGED irs

Next ==
    \/ \E p \in 0 .. MaxStream, n \in 1 .. MaxSegment : Arrive(p, n)
    \/ \E n \in 1 .. RECV_BUF_SIZE : Read(n)

Spec == Init /\ [][Next]_vars

\* The peer retransmits its oldest unacknowledged byte until it gets through,
\* and forward_received_data runs after every segment.
Fairness ==
    /\ WF_vars(\E n \in 1 .. MaxSegment : Arrive(accepted, n))
    /\ WF_vars(\E n \in 1 .. RECV_BUF_SIZE : Read(n))

FairSpec == Spec /\ Fairness
-----------------------------------------------------------------------------
\* nxt and the keys of the staging map stay inside u32, the ring never holds
\* more than RECV_BUF_SIZE, and no empty segment is staged.
TypeOK ==
    /\ irs \in SeqNum
    /\ got \in 0 .. MaxStream
    /\ rb.nxt \in SeqNum
    /\ Len(rb.buf) <= RECV_BUF_SIZE
    /\ DOMAIN rb.ooo \subseteq SeqNum
    /\ \A k \in DOMAIN rb.ooo : Len(rb.ooo[k]) \in 1 .. MaxSegment

\* The application is handed the stream: the bytes waiting to be read are the
\* ones that follow those already read, and rb.nxt (which becomes the
\* acknowledgement number) covers exactly the bytes accepted, however
\* segments overlap, arrive early, come again or are cut for lack of space.
InOrder ==
    /\ \A i \in 1 .. Len(rb.buf) : rb.buf[i] = got + i - 1
    /\ rb.nxt = seq_of(accepted)

\* A staged segment holds the bytes of the sequence numbers it is filed under.
StagedFaithful ==
    \A k \in DOMAIN rb.ooo : \A i \in 1 .. Len(rb.ooo[k]) :
        seq_of(rb.ooo[k][i]) = wrapping_add(k, i - 1)

\* The stream gets through in the end, in spite of segments left in the
\* staging map that no drain will ever reach.
Delivered == <>(got = MaxStream)
=============================================================================
