\* A task that reads and a USB host that does, no errors.
SPECIFICATION Spec
CONSTANTS
    Tasks = {t1}
    Hosts = {usb}
    Kinds = {"read"}
    Sectors = {0, 1}
    SectorSize = 2
    AddressSpace = 4
    CmdErrors = FALSE
    DataErrors = FALSE
    None = None
INVARIANTS DataArrived
