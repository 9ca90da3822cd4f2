CONSTANTS
    OffererClients = {c1, c2}
    AnswererClients = {}
    WindowSize = 2
    MaxRetransmits = 1
    MaxWire = 1
    Stopping = {"answerer"}
    MayFail = TRUE
SPECIFICATION FairSpec
PROPERTY AllGetClosed
CHECK_DEADLOCK FALSE
