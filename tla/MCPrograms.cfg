INIT ProgramInit
NEXT ProgramNext
CONSTANTS
    Client = {d1, d2, d3}
    NoClient = NoClient
    Timeout <- MCTimeout
    Deadline <- MCDeadline
    TimeMax <- MCTimeMax
    Cell = {c1, c2}
    Object = {x, y}
    MaxSwapThrows = 1
    Slots = 2
    Handle = {t1, t2, t3}
    Functor = {f1, f2, f3}
    Vector = {v1, v2, v3}
    Element = {0, 1}
    Address = {a1, a2, a3, a4}
    Null = Null
    MaxLength = 2
SYMMETRY Symmetry
INVARIANTS
    TypeOK
    ContainerConsistent
    IteratorsValid
    MinIsLeast
    OwnershipTypeOK
    EitherSound
    TrampolineSound
PROPERTIES
    ImplementsTimerSet
    ValuesKept
    ImplementsIndependentVectors
CHECK_DEADLOCK FALSE
