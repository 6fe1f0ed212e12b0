SPECIFICATION FairSpec
CONSTANTS
    BlkNbr = 2
    BlkSize = 2
    CbwSize = 1
    Word = 8
    Requests <- MCRequests
INVARIANTS
    StatusAccounts
    HostServed
PROPERTIES
    BufferStable
    EveryCommandEnds
