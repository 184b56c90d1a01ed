\* The ring size does not divide the sequence space, so every alignment of
\* head and una occurs; both wrap many times.
CONSTANTS
    Half = 5
    SEND_BUF_SIZE = 3
    Byte = {0, 1}
    MaxWrite = 4
    MaxPayload = 2
SPECIFICATION RingSpec
INVARIANT RingTypeOK
PROPERTY ImplementsFifo
