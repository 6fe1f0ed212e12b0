\* A card that fails a sector: does the status tell?
SPECIFICATION Spec
CONSTANTS
    BlkNbr = 2
    BlkSize = 2
    CbwSize = 1
    Word = 8
    Requests <- MCRequests
INVARIANT PassedIsMoved
