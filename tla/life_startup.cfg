CONSTANTS
    OffererClients = {c1}
    AnswererClients = {}
    WindowSize = 2
    MaxRetransmits = 1
    MaxWire = 1
    Stopping = {}
    MayFail = FALSE
SPECIFICATION Spec
INVARIANT HandlerFirst
CHECK_DEADLOCK FALSE
