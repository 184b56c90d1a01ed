CONSTANTS
    Key = {k1}
    Slot = {t1}
    INBOX = 1
    DATA = 1
    SEND = 1
    OUT = 1
    Arriving = {"SYN", "DATA", "FIN", "RST"}
    Stray = {"SYN"}
    None = None
SPECIFICATION DispatchFairSpec
PROPERTY CloseWaitEnds
