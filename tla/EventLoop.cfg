\* Four packets, two held at a time with delays of up to 2 ms.
CONSTANTS
    Packet = {p1, p2, p3, p4}
    ArpReply = ArpReply
    OUT = 1
    MaxJitter = 2
    MaxHeld = 2
SPECIFICATION FairSpec
INVARIANTS TypeOK CaptureFirst
PROPERTIES ImplementsLink NotEarly HeldReleased
CHECK_DEADLOCK FALSE
