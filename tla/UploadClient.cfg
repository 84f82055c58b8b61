\* A page uploads two chunks beside a sweeper, the job for stale sessions and a
\* teardown; one answer is lost or one request breaks off. The quota suffices.
CONSTANTS
    s1 = s1
    s2 = s2
    Senders = {s1, s2}
    Completers = {c1}
    Aborters = {a1}
    Expirers = {e1}
    Cleaners = {k1}
    Sweepers = {w1}
    N = 2
    ChunkOf <- MCChunkOf
    Slots = 1
    MaxOthers = 0
    MaxFaults = 1
    MaxTroubles = 1
    NoTx = NoTx
SPECIFICATION FairSpec
INVARIANT SizeIsWhatArrived
PROPERTIES
    PageKeepsContract
    LeftoversAreRemoved
CHECK_DEADLOCK FALSE
