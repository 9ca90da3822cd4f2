CONSTANT MaxChunks = 2
SPECIFICATION Spec
INVARIANT ClientGetsAll
CHECK_DEADLOCK FALSE
