SPECIFICATION FairSpec
CONSTANTS
    s1 = s1
    r1 = r1
    r2 = r2
    Senders = {s1}
    Receivers = {r1, r2}
    Length = 2
    Numbers = 4
    Wrap = 4
    OverWrap = 2
    Waits <- MCWaits
INVARIANTS
    NoLostWakeup
    ListsAgree
PROPERTIES
    ImplementsFifo
    NeverEarly
