\* The owner reloads the page while another visitor joins; a room for one. Nothing
\* goes wrong.
CONSTANTS
    o = o
    a = a
    b1 = b1
    b2 = b2
    Visits = {o, a, b}
    Owner = o
    Browsers = {b1, b2}
    Browser <- MCOwnersBrowser
    Talkers = {}
    Cleaners = {}
    MaxUsers = 1
    MaxFaults = 0
    NoSession = NoSession
    NoTx = NoTx
SPECIFICATION Spec
INVARIANT PeopleWithinCapacity
CHECK_DEADLOCK FALSE
