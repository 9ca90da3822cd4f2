CONSTANTS
    OffererClients = {c1}
    AnswererClients = {c2}
    WindowSize = 1
    MaxRetransmits = 1
    MaxWire = 2
    Stopping = {"answerer"}
    MayFail = FALSE
SPECIFICATION Spec
INVARIANTS TypeOK FetchedOnce OwnAnswer
CHECK_DEADLOCK FALSE
