\* A bulk sender: every acknowledgement number, window and timeout.
CONSTANTS
    Half = 6
    SEND_BUF_SIZE = 3
    RECV_BUF_SIZE = 4
    MAX_WINDOW = 3
    MSS = 2
    RETRANSMIT_QUEUE_MAX = 2
    DUP_MAX = 4
    INITIAL_SSTHRESH = 5
    Iss = {10}
    MaxWrite = 3
    PeerIss = 4
    Arrivals <- SenderArrivals
SPECIFICATION Spec
INVARIANTS SendAligned NoIdleWindow CwndSafe HandshakeClean
PROPERTY CoverageKept
CHECK_DEADLOCK FALSE
