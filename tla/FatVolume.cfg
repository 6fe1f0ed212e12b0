\* Eleven contents; a host that exchanges files once, a fault, one play, one list.
SPECIFICATION FairFatSpec
CONSTANTS
    Layout <- MCLayout
    FatPerSector = 2
    EntriesPerSector = 2
    SectorSize = 2
    Btr = 4
    MaxDir = 8
    MaxStarts = 1
    MaxLists = 1
    MaxSwaps = 1
    MaxFaults = 1
INVARIANTS TakenIsFile ListIsFresh InVolume
PROPERTIES CommandsEnd
CHECK_DEADLOCK FALSE
