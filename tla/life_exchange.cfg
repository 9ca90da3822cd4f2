CONSTANTS
    OffererClients = {c1}
    AnswererClients = {}
    WindowSize = 2
    MaxRetransmits = 1
    MaxWire = 2
    Stopping = {"offerer", "answerer"}
    MayFail = FALSE
SPECIFICATION FairSpec
PROPERTY AnswerArrives
CHECK_DEADLOCK FALSE
