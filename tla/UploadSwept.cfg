\* A scan for orphans runs while a page uploads; nothing goes wrong.
CONSTANTS
    s1 = s1
    s2 = s2
    Senders = {s1, s2}
    Completers = {c1}
    Aborters = {a1}
    Expirers = {}
    Cleaners = {}
    Sweepers = {w1}
    N = 2
    ChunkOf <- MCChunkOf
    Slots = 2
    MaxOthers = 0
    MaxFaults = 0
    MaxTroubles = 0
    NoTx = NoTx
SPECIFICATION ClientSpec
INVARIANT ChunksSurvive
CHECK_DEADLOCK FALSE
