SPECIFICATION Spec
CONSTANTS
    MPS = 2
    SetupRoom = 24
    Requests <- MCRequests
INVARIANTS
    TransferIsOwn
    StartsClean
PROPERTY
    TransfersEnd
