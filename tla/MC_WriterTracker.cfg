SPECIFICATION LSafeSpec
CONSTANTS
    Logs = {l1, l2, l3}
    NoLog = NoLog
    Blocks = {b1, b2, b3}
    Flushers = {f1}
    MaxVersion = 1
    Nobody = Nobody
    CloseCall = CloseCall
SYMMETRY Symmetry
INVARIANTS
    NoWriteRefused
    NoUseAfterRemove
    NoCircularWait
PROPERTIES
    SwappedLogsFrozen
