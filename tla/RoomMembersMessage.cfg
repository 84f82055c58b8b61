\* A visitor posts a message while the room is wiped. Nothing goes wrong.
CONSTANTS
    o = o
    a = a
    b1 = b1
    b2 = b2
    Visits = {o, a, b}
    Owner = o
    Browsers = {b1, b2}
    Browser <- MCBrowser
    Talkers = {a}
    Cleaners = {c1}
    MaxUsers = 2
    MaxFaults = 0
    NoSession = NoSession
    NoTx = NoTx
SPECIFICATION Spec
INVARIANT MessagesDieWithRoom
CHECK_DEADLOCK FALSE
