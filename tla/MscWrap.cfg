\* A command at the end of the 32 bits: is the card left?
SPECIFICATION Spec
CONSTANTS
    BlkNbr = 2
    BlkSize = 2
    CbwSize = 1
    Word = 8
    Requests <- MCRequests
INVARIANT CardIsKept
