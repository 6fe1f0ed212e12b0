\* The console alone: is a cache half ever written while it is sent?
SPECIFICATION Spec
CONSTANTS
    Consoles = {cli}
    Writers = {}
    Printers = {}
    LineLen = 2
    MaxSends = 3
    None = None
INVARIANT NoTxRace
CHECK_DEADLOCK FALSE
