\* The answer to one request is lost; nothing else goes wrong.
CONSTANTS
    s1 = s1
    s2 = s2
    Senders = {s1, s2}
    Completers = {c1}
    Aborters = {a1}
    Expirers = {}
    Cleaners = {}
    Sweepers = {}
    N = 2
    ChunkOf <- MCChunkOf
    Slots = 2
    MaxOthers = 0
    MaxFaults = 0
    MaxTroubles = 1
    NoTx = NoTx
SPECIFICATION ClientSpec
INVARIANT ChargesMatchUpload
CHECK_DEADLOCK FALSE
