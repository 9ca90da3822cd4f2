CONSTANT MaxChunks = 2
SPECIFICATION FairSpec
INVARIANTS TypeOK TargetGetsAll ClientGetsRun
PROPERTIES ImplementsPipes ClientLeaveEnds TargetLeaveEnds
CHECK_DEADLOCK FALSE
