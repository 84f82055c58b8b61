\* Two delete requests that may name the same file; nothing breaks off.
CONSTANTS
    f1 = f1
    f2 = f2
    Files = {f1, f2, f3}
    Deleters = {d1, d2}
    Workers = {}
    OwnerDeletes = {}
    Size <- MCSize
    MaxFiles = 1
    MaxStorage = 3
    MaxFaults = 0
    MaxOrphans = 0
    NoFile = NoFile
    NoTx = NoTx
SPECIFICATION Spec
INVARIANT FilesWithinLimits
CHECK_DEADLOCK FALSE
