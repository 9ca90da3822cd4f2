CONSTANTS
    Senders = {s1}
    Closers = {}
    WindowSize = 1
    MaxRetransmits = 1
    MaxMessages = 2
    MaxFragments = 1
    MaxTransit = 2
    Faults = {"loss"}
SPECIFICATION TimerSpec
PROPERTIES SendReturns
CHECK_DEADLOCK FALSE
