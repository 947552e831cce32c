SPECIFICATION Spec
CONSTANTS
    Writers = {w1, w2}
    NoThread = NoThread
    MaxAddr = 2
    MaxWrites = 3
    MaxFailures = 1
    MaxReads = 1
    MinRead = 2
    MaxCrashes = 1
    PagesLost = TRUE
SYMMETRY Symmetry
CHECK_DEADLOCK FALSE
INVARIANTS
    WalTypeOK
    RecoversPrefix
    ReadsCurrent
    CutLogOpens
    WritesReadBack
