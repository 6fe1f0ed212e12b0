SPECIFICATION FairHeapSpec
CONSTANTS
    Players = {t1, t2}
    HeapSize = 34
    BootSize = 3
    StackSize = 9
    TcbSize = 4
    QueueSize = 3
    MaxPlays = 6
INVARIANTS
    MemoryAccounted
    AloneNeverRefused
PROPERTIES
    OpensOwnOrLater
    DeadAreFreed
CHECK_DEADLOCK FALSE
