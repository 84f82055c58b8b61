\* Two items, two workers, jobs of two attempts, three runs that raise, and the
\* process stops twice.
CONSTANTS
    Items = {i1, i2}
    Workers = {w1, w2}
    MaxAttempts = 2
    Stop = Stop
    NoItem = NoItem
    MaxQueue = 3
    MaxFailures = 3
    MaxStops = 2
SPECIFICATION FairSpec
INVARIANTS
    TypeOK
    SentinelsAreLast
    ShutdownLosesNoJob
PROPERTIES
    DueIsDone
    ShutdownEnds
CHECK_DEADLOCK FALSE
