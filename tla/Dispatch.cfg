\* Two tasks and their applications, all channels of one place, so that
\* everyone waits on everyone as often as possible.
CONSTANTS
    Key = {k1}
    Slot = {t1, t2}
    INBOX = 1
    DATA = 1
    SEND = 1
    OUT = 1
    Arriving = {"SYN", "DATA"}
    Stray = {"SYN"}
    None = None
SPECIFICATION DispatchFairSpec
INVARIANT DispatchTypeOK
PROPERTIES TasksProgress AppsProgress
