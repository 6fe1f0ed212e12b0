\* Every key sequence of MaxKeys keys, once the console runs.
SPECIFICATION FairSpec
CONSTANTS
    Words <- MCWords
    Bursts <- MCBursts
    BurstLimit = 4
    QueueLength = 4
    InputSize = 4
    EarlyKeys = FALSE
    MaxKeys = 6
INVARIANTS LinesApart KeysInOrder
PROPERTIES EveryLineEnds
CHECK_DEADLOCK FALSE
