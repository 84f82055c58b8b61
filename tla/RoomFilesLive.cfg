\* Two files, one deleter and one worker, one request that breaks off and one
\* upload that a scan takes for an orphan; the worker deadlocks with the deleter
\* and with the uploads.
CONSTANTS
    f1 = f1
    f2 = f2
    Files = {f1, f2}
    Deleters = {d1}
    Workers = {w1}
    OwnerDeletes = {}
    Size <- MCSize
    MaxFiles = 2
    MaxStorage = 4
    MaxFaults = 1
    MaxOrphans = 1
    NoFile = NoFile
    NoTx = NoTx
SPECIFICATION FairSpec
INVARIANT UndisturbedFilesAreStored
PROPERTIES
    ExpiredRoomIsWiped
    RequestsEnd
CHECK_DEADLOCK FALSE
