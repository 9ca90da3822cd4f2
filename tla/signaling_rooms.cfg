CONSTANTS
    Offerers = {o1, o2}
    Answerers = {a1, a2}
    Crashers = {o1, a1}
    MaxServerStops = 1
SPECIFICATION FairSpec
INVARIANTS TypeOK AnswerReachesAsker RoomHolders
PROPERTIES OfferLeadsToTunnel RoomFreed
CHECK_DEADLOCK FALSE
