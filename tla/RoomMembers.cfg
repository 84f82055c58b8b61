\* The owner, and two visits of one browser; a room for two.
CONSTANTS
    o = o
    a = a
    b1 = b1
    b2 = b2
    Visits = {o, a, b}
    Owner = o
    Browsers = {b1, b2}
    Browser <- MCBrowser
    Talkers = {a}
    Cleaners = {c1}
    MaxUsers = 2
    MaxFaults = 1
    NoSession = NoSession
    NoTx = NoTx
SPECIFICATION Spec
INVARIANTS
    TypeOK
    EveryoneCounted
    SlotsAreFreed
    NoGhosts
    ShownIsStored
CHECK_DEADLOCK FALSE
