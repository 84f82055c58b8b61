\* An owner deletes the room while a file is being uploaded; nothing breaks off
\* but the request PostgreSQL picks to end a deadlock.
CONSTANTS
    f1 = f1
    f2 = f2
    Files = {f1, f2, f3}
    Deleters = {}
    Workers = {}
    OwnerDeletes = {o1}
    Size <- MCSize
    MaxFiles = 2
    MaxStorage = 3
    MaxFaults = 0
    MaxOrphans = 0
    NoFile = NoFile
    NoTx = NoTx
SPECIFICATION Spec
INVARIANT ConfirmedIsStored
CHECK_DEADLOCK FALSE
