\* Two entries at a time, and a segment that does not fit; the minimum, first
\* and maximum timeouts in the order and spread of 0.2 s, 1 s and 60 s.
CONSTANTS
    Half = 4
    INITIAL_RTO = 3
    MIN_RTO = 2
    MAX_RTO = 6
    RETRANSMIT_QUEUE_MAX = 2
    MaxFlight = 3
SPECIFICATION FairSpec
INVARIANT TypeOK
PROPERTIES Karn BackedOff SentUntilAcked
