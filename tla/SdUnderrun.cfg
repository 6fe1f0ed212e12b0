\* One task that writes; data phases fail, commands do not.
SPECIFICATION Spec
CONSTANTS
    Tasks = {t1}
    Hosts = {}
    Kinds = {"write", "writeMulti"}
    Sectors = {0, 1}
    SectorSize = 2
    AddressSpace = 4
    CmdErrors = FALSE
    DataErrors = TRUE
    None = None
INVARIANTS WriteIsWhole
