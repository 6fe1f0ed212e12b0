\* One play at a time: 7 samples in blocks of 2, three plays, any card error.
SPECIFICATION FairSpec
CONSTANTS
    Players = {p1}
    FileLen = 7
    Block = 2
    MaxPlays = 3
    CardErrors = TRUE
INVARIANT BufferSafe
PROPERTIES TailLossBounded HeardInOrder EveryPlayEnds
CHECK_DEADLOCK FALSE
