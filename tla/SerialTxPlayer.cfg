\* The console under the mutex, the player's printf_ without it.
SPECIFICATION Spec
CONSTANTS
    Consoles = {cli}
    Writers = {}
    Printers = {player}
    LineLen = 2
    MaxSends = 2
    None = None
INVARIANT ExclusiveTx
CHECK_DEADLOCK FALSE
