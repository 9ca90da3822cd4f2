CONSTANTS
    Senders = {s1}
    Closers = {c}
    WindowSize = 2
    MaxRetransmits = 1
    MaxMessages = 2
    MaxFragments = 2
    MaxTransit = 1
    Faults = {}
SPECIFICATION FairSpec
INVARIANTS TypeOK WindowBound AckedWasReceived NoLostWakeup
PROPERTIES EveryFrameArrives SendReturns CloseReturns
CHECK_DEADLOCK FALSE
