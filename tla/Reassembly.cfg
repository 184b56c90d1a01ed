\* A stream that ends before the sequence space repeats, from every initial
\* sequence number that makes it cross zero at a different point.
CONSTANTS
    Half = 6
    RECV_BUF_SIZE = 4
    MAX_WINDOW = 3
    Irs = {4, 7, 9}
    MaxStream = 8
    MaxSegment = 3
    MaxAge = 5
    MaxBeyond = 1
SPECIFICATION FairSpec
INVARIANTS TypeOK InOrder StagedFaithful
PROPERTY Delivered
CHECK_DEADLOCK FALSE
