SPECIFICATION BSafeSpec
CONSTANTS
    Logs = {l1, l2, l3}
    NoLog = NoLog
    Blocks = {b1, b2, b3}
    Flushers = {}
    MaxVersion = 3
    TargetTableSize = 1
    MinTableUtilisation = 50
    ConcurrentOps = 1
    MaxWrites = 7
    MaxSeq = 4
    MaxCrashes = 0
    MaxCloses = 0
    CountWindowFlushes = FALSE
SYMMETRY Symmetry
INVARIANTS
    ReadsLatest
    NothingLost
    TableNotEmpty
    NoGarbage
