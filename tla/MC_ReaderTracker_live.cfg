SPECIFICATION RSpec
CONSTANTS
    Logs = {l1, l2}
    Tables = {t1, t2}
    NoFile = NoFile
    Blocks = {b1}
    Clients = {c1}
    MaxVersion = 3
    MaxRecovered = 1
    MaxIv = 4
PROPERTIES
    NoLostWakeup
