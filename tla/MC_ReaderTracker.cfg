SPECIFICATION RSafeSpec
CONSTANTS
    Logs = {l1, l2, l3}
    Tables = {t1, t2, t3}
    NoFile = NoFile
    Blocks = {b1, b2}
    Clients = {c1}
    MaxVersion = 2
    MaxRecovered = 1
    MaxIv = 6
SYMMETRY Symmetry
INVARIANTS
    RTypeOK
    ReadsFresh
    NoReadOfClosed
    IndexSound
    IndexFrozen
