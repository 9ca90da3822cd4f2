CONSTANTS
    Senders = {s1}
    Closers = {}
    WindowSize = 2
    MaxRetransmits = 1
    MaxMessages = 2
    MaxFragments = 2
    MaxTransit = 2
    Faults = {"loss", "reorder", "late"}
SPECIFICATION Spec
INVARIANTS DeliveredInOrder NoStrandedFrame
PROPERTIES ImplementsStream
CHECK_DEADLOCK FALSE
