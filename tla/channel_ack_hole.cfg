CONSTANTS
    Senders = {s1}
    Closers = {}
    WindowSize = 2
    MaxRetransmits = 1
    MaxMessages = 2
    MaxFragments = 1
    MaxTransit = 2
    Faults = {"loss"}
SPECIFICATION Spec
INVARIANTS AckedWasReceived
CHECK_DEADLOCK FALSE
