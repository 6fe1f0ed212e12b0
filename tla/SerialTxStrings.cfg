\* The console, which echoes keys and answers with strings and printf_ lines, and a
\* task that calls vOutputString: both under the mutex.
SPECIFICATION FairSpec
CONSTANTS
    Consoles = {cli}
    Writers = {w}
    Printers = {}
    LineLen = 2
    MaxSends = 4
    None = None
INVARIANTS OnlyEchoRaces NoLostSetup SendersAgree
PROPERTIES WireInOrder EverySendEnds
CHECK_DEADLOCK FALSE
