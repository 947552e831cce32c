SPECIFICATION Spec
CONSTANTS
    Ops = {p1, p2, p3}
    Barriers = {q1, q2, q3}
    MaxGen = 5
INVARIANTS
    TypeOK
    BarriersInOrder
PROPERTIES
    NoAddAfterWait
    ImplementsBarrier
