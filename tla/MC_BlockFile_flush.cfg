SPECIFICATION BSafeSpec
CONSTANTS
    Logs = {l1, l2, l3, l4}
    NoLog = NoLog
    Blocks = {b1}
    Flushers = {f1}
    MaxVersion = 4
    TargetTableSize = 1
    MinTableUtilisation = 50
    ConcurrentOps = 2
    MaxWrites = 4
    MaxSeq = 4
    MaxCrashes = 1
    MaxCloses = 0
    CountWindowFlushes = FALSE
SYMMETRY Symmetry
INVARIANTS
    FlushDurable
PROPERTIES
    ImplementsDevice
