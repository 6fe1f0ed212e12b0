\* One task that reads; sector 2 is the first whose address needs more bits.
SPECIFICATION Spec
CONSTANTS
    Tasks = {t1}
    Hosts = {}
    Kinds = {"read"}
    Sectors = {0, 1, 2}
    SectorSize = 2
    AddressSpace = 4
    CmdErrors = FALSE
    DataErrors = FALSE
    None = None
INVARIANTS DataArrived
