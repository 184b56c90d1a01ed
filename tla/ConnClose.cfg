\* Both directions to the end: data and FINs of the peer in any order, our own
\* close at any moment, with data sent, unsent or in flight.
CONSTANTS
    Half = 5
    SEND_BUF_SIZE = 2
    RECV_BUF_SIZE = 3
    MAX_WINDOW = 2
    MSS = 1
    RETRANSMIT_QUEUE_MAX = 2
    DUP_MAX = 4
    INITIAL_SSTHRESH = 2
    Iss = {8}
    MaxWrite = 2
    PeerIss = 7
    Arrivals <- CloseArrivals
SPECIFICATION Spec
INVARIANTS TypeOK FlightBounded RcvAligned RetransmitInFlight
CHECK_DEADLOCK FALSE
