SPECIFICATION BSafeSpec
CONSTANTS
    Logs = {l1, l2, l3}
    NoLog = NoLog
    Blocks = {b1, b2}
    Flushers = {f1}
    MaxVersion = 2
    TargetTableSize = 1
    MinTableUtilisation = 50
    ConcurrentOps = 2
    MaxWrites = 4
    MaxSeq = 4
    MaxCrashes = 0
    MaxCloses = 0
    CountWindowFlushes = TRUE
SYMMETRY Symmetry
INVARIANTS
    FlushDurable
