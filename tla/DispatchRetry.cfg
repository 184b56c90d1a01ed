\* One connection after another on the same four-tuple, the next one while an
\* evicted one still runs, and a client that retries its SYN.
CONSTANTS
    Key = {k1}
    Slot = {t1, t2}
    INBOX = 1
    DATA = 1
    SEND = 1
    OUT = 1
    Arriving = {"SYN", "FIN", "RST"}
    Stray = {"SYN"}
    None = None
SPECIFICATION RetrySpec
PROPERTIES OrphansEnd RetriedSynAnswered
