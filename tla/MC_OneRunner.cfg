SPECIFICATION Spec
CONSTANTS
    Callers = {c1, c2, c3}
    Threads = {t1, t2}
    MaxCalls = 4
INVARIANTS
    OneAtATime
    NoLostRequest
PROPERTIES
    RequestsServed
    WaitReturns
