SPECIFICATION BSpec
CONSTANTS
    Logs = {l1, l2, l3, l4, l5}
    NoLog = NoLog
    Blocks = {b1}
    Flushers = {}
    MaxVersion = 5
    TargetTableSize = 1
    MinTableUtilisation = 50
    ConcurrentOps = 2
    MaxWrites = 5
    MaxSeq = 4
    MaxCrashes = 1
    MaxCloses = 1
    CountWindowFlushes = FALSE
INVARIANTS
    NoGarbage
PROPERTIES
    LogsRotated
