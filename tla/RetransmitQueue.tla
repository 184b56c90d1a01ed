-------------------------- MODULE RetransmitQueue --------------------------
(***************************************************************************)
(* RetransmitQueue of tcp/retransmit.rs with its clock: what module        *)
(* Connection leaves open, namely which entries a tick finds expired, and  *)
(* what the timeout is.                                                    *)
(*                                                                         *)
(* A segment takes one sequence number, and at most MaxFlight are          *)
(* unacknowledged.  A unit of time is a tick of the task's interval,       *)
(* 100 ms, and an Instant is the time since then, counted up to MAX_RTO.   *)
(* Seconds are whole units: the averages round down where the code's f64   *)
(* do not.                                                                 *)
(***************************************************************************)
EXTENDS SeqArith, Selection

CONSTANTS INITIAL_RTO, MIN_RTO, MAX_RTO,
          RETRANSMIT_QUEUE_MAX,
          MaxFlight         \* bound: segments in flight

ASSUME RetransmitAssumption ==
    /\ MIN_RTO \in Nat \ {0} /\ INITIAL_RTO \in Nat /\ MAX_RTO \in Nat
    /\ MIN_RTO <= INITIAL_RTO /\ INITIAL_RTO <= MAX_RTO
    /\ RETRANSMIT_QUEUE_MAX \in Nat \ {0}
    /\ MaxFlight \in Nat /\ MaxFlight < Half

None == -1

VARIABLES
    entries,                \* oldest first, [seq, age, retransmitted]
    est,                    \* rto, srtt (None before the first sample), rttvar
    una, nxt,               \* tcb.snd: the segments in flight are una up to nxt
    resent,                 \* history: what the last step sent again by the timer
    sampled,                \* history: what the last step took RTT samples from
    hist                    \* history of the segments in the queue

vars == <<entries, est, una, nxt, resent, sampled, hist>>

Entry == [seq : SeqNum, age : 0 .. MAX_RTO, retransmitted : BOOLEAN]

Entries == {entries[i] : i \in DOMAIN entries}

Seqs == {e.seq : e \in Entries}

\* Of a segment: the time since push or the timer sent it, the timeout that was
\* in force when the timer last sent it (0 if it did not, or a sample has come
\* in since) and whether the timer has ever sent it.
unsent == [quiet |-> 0, waited |-> 0, again |-> FALSE]

Init ==
    /\ entries = <<>>
    /\ est = [rto |-> INITIAL_RTO, srtt |-> None, rttvar |-> 0]
    /\ una = 0 /\ nxt = 0
    /\ resent = {} /\ sampled = {}
    /\ hist = [s \in SeqNum |-> unsent]
-----------------------------------------------------------------------------
(* The estimator, RFC 6298.                                                *)

clamp(x) == IF x < MIN_RTO THEN MIN_RTO ELSE min(x, MAX_RTO)

distance(a, b) == IF a <= b THEN b - a ELSE a - b

\* The upper limit forgotten.
Bug_with_rto(srtt, rttvar) ==
    [rto |-> IF srtt + 4 * rttvar < MIN_RTO THEN MIN_RTO ELSE srtt + 4 * rttvar,
     srtt |-> srtt, rttvar |-> rttvar]

with_rto(srtt, rttvar) == [rto |-> clamp(srtt + 4 * rttvar), srtt |-> srtt, rttvar |-> rttvar]

update_rto(e, r) ==
    IF e.srtt = None THEN with_rto(r, r \div 2)
    ELSE with_rto((7 * e.srtt + r) \div 8, (3 * e.rttvar + distance(e.srtt, r)) \div 4)

\* update_rto for every sample in turn.
update_all(e, samples) ==
    LET after[i \in 0 .. Len(samples)] ==
            IF i = 0 THEN e ELSE update_rto(after[i - 1], samples[i])
    IN  after[Len(samples)]
-----------------------------------------------------------------------------
(* The operations.                                                         *)

\* next_segment_to_send pushes what it sends; a full queue forgets it.
push ==
    /\ wrapping_sub(nxt, una) < MaxFlight
    /\ nxt' = wrapping_add(nxt, 1)
    /\ entries' = IF Len(entries) < RETRANSMIT_QUEUE_MAX
                  THEN Append(entries, [seq |-> nxt, age |-> 0, retransmitted |-> FALSE])
                  ELSE entries
    /\ resent' = {} /\ sampled' = {}
    /\ UNCHANGED <<est, una, hist>>

fully_acked(end_seq, ack) == seq_le(end_seq, ack)

\* The entries that retain removes.
acked_by(ack) == {e \in Entries : fully_acked(wrapping_add(e.seq, 1), ack)}

\* Every acknowledged segment sampled.
Bug_unambiguous(e) == TRUE

\* RFC 6298 section 4: only segments the timer has not sent again are sampled.
unambiguous(e) == ~ e.retransmitted

\* The handlers call it with an acceptable acknowledgement only.
acknowledge_and_sample_rtt(ack) ==
    LET gone  == acked_by(ack)
        timed == Select(entries, {e \in gone : unambiguous(e)})
    IN  /\ ack_acceptable(una, ack, nxt)
        /\ una' = ack
        /\ entries' = Select(entries, Entries \ gone)
        /\ est' = update_all(est, [i \in DOMAIN timed |-> timed[i].age])
        /\ sampled' = {timed[i].seq : i \in DOMAIN timed}
        /\ hist' = [s \in SeqNum |->
                       IF s \in {e.seq : e \in gone} THEN unsent
                       ELSE IF timed = <<>> THEN hist[s] ELSE [hist[s] EXCEPT !.waited = 0]]
        /\ resent' = {}
        /\ UNCHANGED nxt

\* Only segments not yet sent again looked at.
Bug_expired(e, rto) == e.age >= rto /\ ~ e.retransmitted

expired(e, rto) == e.age >= rto

\* sent_at left as it was.
Bug_renewed(e) == [e EXCEPT !.retransmitted = TRUE]

renewed(e) == [e EXCEPT !.age = 0, !.retransmitted = TRUE]

backed_off(e) == [e EXCEPT !.rto = min(2 * @, MAX_RTO)]

\* A tick of retransmit_tick: one backoff however many segments it sends.
expired_segments ==
    LET E == {i \in DOMAIN entries : expired(entries[i], est.rto)}
    IN  /\ E # {}
        /\ entries' = [i \in DOMAIN entries |->
                          IF i \in E THEN renewed(entries[i]) ELSE entries[i]]
        /\ est' = backed_off(est)
        /\ resent' = {entries[i].seq : i \in E}
        /\ hist' = [s \in SeqNum |->
                       IF s \in resent' THEN [quiet |-> 0, waited |-> est.rto, again |-> TRUE]
                       ELSE hist[s]]
        /\ sampled' = {}
        /\ UNCHANGED <<una, nxt>>

\* Time passes, whether the task sees the tick or is busy.
Tick ==
    /\ entries # <<>>
    /\ entries' = [i \in DOMAIN entries |-> [entries[i] EXCEPT !.age = min(@ + 1, MAX_RTO)]]
    /\ hist' = [s \in SeqNum |->
                   IF s \in Seqs THEN [hist[s] EXCEPT !.quiet = min(@ + 1, MAX_RTO)] ELSE hist[s]]
    /\ resent' = {} /\ sampled' = {}
    /\ UNCHANGED <<est, una, nxt>>

Next ==
    \/ push
    \/ \E ack \in SeqNum : acknowledge_and_sample_rtt(ack)
    \/ expired_segments
    \/ Tick

Spec == Init /\ [][Next]_vars

\* Time passes and the task comes round to its retransmit tick.
FairSpec == Spec /\ WF_vars(Tick) /\ SF_vars(expired_segments)
-----------------------------------------------------------------------------
(* Properties.                                                             *)

\* The timeout keeps its limits through samples and backoff.
TypeOK ==
    /\ Len(entries) <= RETRANSMIT_QUEUE_MAX
    /\ Entries \subseteq Entry
    /\ est.rto \in MIN_RTO .. MAX_RTO
    /\ est.srtt \in {None} \cup (0 .. MAX_RTO) /\ est.rttvar \in 0 .. MAX_RTO
    /\ una \in SeqNum /\ nxt \in SeqNum

\* Karn's rule for the timer: no sample is ever taken from a segment that the
\* timer has sent again.  (A fast retransmit leaves no trace in the queue and
\* its segment is sampled.)
Karn == [][\A s \in sampled' : ~ hist[s].again]_vars

\* The timer sends a segment again only after the minimum timeout, and, as long
\* as no new sample comes in, after twice the timeout it last waited for it, up
\* to the maximum.  The backoff is shared by all entries, so it can only be more.
BackedOff ==
    [][\A s \in resent' :
          /\ hist[s].quiet >= MIN_RTO
          /\ hist[s].quiet >= min(2 * hist[s].waited, MAX_RTO)]_vars

\* A segment in the queue is sent again and again until it is acknowledged.
SentUntilAcked == \A s \in SeqNum : []<>(s \notin Seqs \/ s \in resent)
=============================================================================
