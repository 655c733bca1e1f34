\* Every graph of up to four steps, and malformed definitions of two.
SPECIFICATION Spec
CONSTANTS
    a1 = a1
    b1 = b1
    c1 = c1
    d1 = d1
    NoId = NoId
    Id = {a1, b1, c1, d1}
    Definition <- Small
CHECK_DEADLOCK FALSE
INVARIANTS
    TypeOK
    VerdictIsRight
    VisitedInOrder
    ReplayAgrees
PROPERTY ValidationEnds
