SPECIFICATION BSafeSpec
CONSTANTS
    Logs = {l1, l2, l3, l4}
    NoLog = NoLog
    Blocks = {b1, b2}
    Flushers = {}
    MaxVersion = 3
    TargetTableSize = 1
    MinTableUtilisation = 50
    ConcurrentOps = 1
    MaxWrites = 6
    MaxSeq = 4
    MaxCrashes = 1
    MaxCloses = 0
    CountWindowFlushes = FALSE
SYMMETRY Symmetry
INVARIANTS
    BTypeOK
    MetaFilesExist
    NothingLost
    ReadsLatest
PROPERTIES
    TablesImmutable
