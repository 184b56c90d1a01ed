\* A two-byte request and answer, one byte per segment; both sides' sequence
\* numbers pass zero.
CONSTANTS
    Half = 5
    SEND_BUF_SIZE = 2
    RECV_BUF_SIZE = 3
    MAX_WINDOW = 2
    MSS = 1
    RETRANSMIT_QUEUE_MAX = 2
    DUP_MAX = 4
    INITIAL_SSTHRESH = 2
    Iss = {8}
    MaxWrite = 2
    PeerIss = 7
    AnswerLen = 2
    Requests <- MCRequests
    Arrivals <- MCArrivals
SPECIFICATION FairSession
INVARIANTS SessionTypeOK NeverRefused AckedDelivered InStep UnsplitIsHttp
PROPERTIES Answered Quiesces
