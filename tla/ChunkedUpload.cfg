\* One chunk that is sent twice; one request completes. Beside them a sweeper,
\* the job for stale sessions and a teardown; one request breaks off.
CONSTANTS
    Senders = {s1, s2}
    Completers = {c1}
    Aborters = {}
    Expirers = {e1}
    Cleaners = {k1}
    Sweepers = {w1}
    N = 1
    ChunkOf <- MCChunkOf
    Slots = 1
    MaxOthers = 1
    MaxFaults = 1
    NoTx = NoTx
SPECIFICATION Spec
SYMMETRY Interchangeable
INVARIANTS
    TypeOK
    ConfirmedIsCharged
    QuotaHolds
PROPERTY ImplementsContract
CHECK_DEADLOCK FALSE
