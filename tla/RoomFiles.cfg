\* Four files, one delete request at a time, two workers and an owner, two
\* requests that break off; the deleter and the cleaners may deadlock.
CONSTANTS
    f1 = f1
    f2 = f2
    Files = {f1, f2, f3, f4}
    Deleters = {d1}
    Workers = {w1, w2}
    OwnerDeletes = {o1}
    Size <- MCSize
    MaxFiles = 2
    MaxStorage = 3
    MaxFaults = 2
    MaxOrphans = 0
    NoFile = NoFile
    NoTx = NoTx
SPECIFICATION Spec
SYMMETRY Interchangeable
INVARIANTS
    TypeOK
    WipedRoomKeepsNoFile
    WipedRoomHasNoServedObject
    SingleWipe
    TeardownIsAtomic
    ChargesMatchFiles
PROPERTIES
    ImplementsContract
CHECK_DEADLOCK FALSE
