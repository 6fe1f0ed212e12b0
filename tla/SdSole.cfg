\* One task at a time, every kind of call, every error.
SPECIFICATION FairSpec
CONSTANTS
    Tasks = {t1}
    Hosts = {}
    Kinds = {"read", "readMulti", "write", "writeMulti"}
    Sectors = {0, 1}
    SectorSize = 2
    AddressSpace = 4
    CmdErrors = TRUE
    DataErrors = TRUE
    None = None
INVARIANTS DataArrived NoFalseError LeftClean
PROPERTY EveryCallEnds
