----------------------------- MODULE RecvBuffer -----------------------------
(***************************************************************************)
(* magnum-tcp/src/tcp/recv_buffer.rs.  A receive buffer is a record        *)
(* [nxt, buf, ooo]: the next sequence number expected, the in-order bytes  *)
(* not yet read (the ring of the code, oldest first) and the out-of-order  *)
(* segments staged by sequence number (a BTreeMap<u32, Vec<u8>>, that is,  *)
(* a map whose first key is the least one as a plain integer).             *)
(***************************************************************************)
EXTENDS SeqArith, Sequences, FiniteSets

CONSTANTS RECV_BUF_SIZE,
          MAX_WINDOW      \* u16::MAX, the largest window a header can carry

\* 65536 bytes are a vanishing part of half the 2^32 sequence numbers.
ASSUME RecvBufSizeAssumption ==
    /\ RECV_BUF_SIZE \in Nat /\ RECV_BUF_SIZE >= 1 /\ RECV_BUF_SIZE < Half
    /\ MAX_WINDOW \in Nat /\ MAX_WINDOW < RECV_BUF_SIZE

no_staging == [k \in {} |-> <<>>]

\* RecvBuffer::new
recv_new(irs) == [nxt |-> wrapping_add(irs, 1), buf |-> <<>>, ooo |-> no_staging]

\* nxt advanced without wrapping.
Bug_commit(rb, data) ==
    LET n == min(Len(data), RECV_BUF_SIZE - Len(rb.buf)) IN
    [rb EXCEPT !.buf = @ \o SubSeq(data, 1, n), !.nxt = @ + n]

\* nxt advanced past what did not fit as well.
Bug_commit_dropped(rb, data) ==
    LET n == min(Len(data), RECV_BUF_SIZE - Len(rb.buf)) IN
    [rb EXCEPT !.buf = @ \o SubSeq(data, 1, n), !.nxt = wrapping_add(@, Len(data))]

\* What does not fit in the ring is dropped, and nxt does not cover it.
commit(rb, data) ==
    LET n == min(Len(data), RECV_BUF_SIZE - Len(rb.buf)) IN
    [rb EXCEPT !.buf = @ \o SubSeq(data, 1, n), !.nxt = wrapping_add(@, n)]

\* BTreeMap::keys().next()
first_key(ooo) == CHOOSE k \in DOMAIN ooo : \A j \in DOMAIN ooo : k <= j

unstage(rb, k) == [rb EXCEPT !.ooo = [j \in DOMAIN @ \ {k} |-> @[j]]]

\* An iteration of the loop in drain_ooo; nothing changes once it would break.
drain_step(rb) ==
    IF DOMAIN rb.ooo # {} /\ first_key(rb.ooo) = rb.nxt
    THEN commit(unstage(rb, rb.nxt), rb.ooo[rb.nxt])
    ELSE rb

\* Every iteration removes a key, so there are at most as many as keys.  (The
\* singleton makes TLC compute the previous iteration once.)
drain_ooo(rb) ==
    LET after[n \in 0 .. Cardinality(DOMAIN rb.ooo)] ==
            IF n = 0 THEN rb
            ELSE CHOOSE r \in {drain_step(q) : q \in {after[n - 1]}} : TRUE
    IN  after[Cardinality(DOMAIN rb.ooo)]

\* A second segment filed at k appended to the first.
Bug_stage(rb, k, data) ==
    [rb EXCEPT !.ooo = [j \in DOMAIN @ \cup {k} |->
                           IF j # k THEN @[j] ELSE IF k \in DOMAIN @ THEN @[k] \o data ELSE data]]

\* BTreeMap::entry(k).or_insert_with: a segment already staged at k stays.
stage(rb, k, data) ==
    [rb EXCEPT !.ooo = [j \in DOMAIN @ \cup {k} |-> IF j \in DOMAIN @ THEN @[j] ELSE data]]

\* The prefix of a segment that lies before nxt, 0 if it starts at or after it.
past(rb, seq) == IF seq_lt(seq, rb.nxt) THEN wrapping_sub(rb.nxt, seq) ELSE 0

\* A segment of one new byte taken for a duplicate.
Bug_insert(rb, seq, data) ==
    LET trim == past(rb, seq)
        eseq == wrapping_add(seq, trim)
        edat == SubSeq(data, trim + 1, Len(data))
    IN  IF trim + 1 >= Len(data) THEN rb
        ELSE IF eseq = rb.nxt THEN drain_ooo(commit(rb, edat))
        ELSE stage(rb, eseq, edat)

\* A segment that starts beyond nxt taken in at once.
Bug_insert_unordered(rb, seq, data) ==
    LET trim == past(rb, seq)
    IN  IF trim >= Len(data) THEN rb
        ELSE drain_ooo(commit(rb, SubSeq(data, trim + 1, Len(data))))

insert(rb, seq, data) ==
    LET trim == past(rb, seq)
        eseq == wrapping_add(seq, trim)
        edat == SubSeq(data, trim + 1, Len(data))
    IN  IF trim >= Len(data) THEN rb
        ELSE IF eseq = rb.nxt THEN drain_ooo(commit(rb, edat))
        ELSE stage(rb, eseq, edat)

\* read(&mut buf) with a buffer of n bytes takes the n oldest.
recv_read(rb, n) == [rb EXCEPT !.buf = SubSeq(@, n + 1, Len(@))]

window(rb) == min(RECV_BUF_SIZE - Len(rb.buf), MAX_WINDOW)
=============================================================================
