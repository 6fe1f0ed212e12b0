SPECIFICATION FairSpec
CONSTANTS
    s1 = s1
    r1 = r1
    r2 = r2
    Senders = {s1}
    Receivers = {r1, r2}
    Length = 1
    Numbers = 2
    Wrap = 3
    OverWrap = 2
    Waits <- LiveWaits
PROPERTIES
    CallsGoOn
