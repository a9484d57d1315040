\* Five elements: every shape a two-child erasure meets.  The key 2 is also the root's
CONSTANTS
    Node = {n1, n2, n3, n4, n5}
    Root = root
    Null = null
    Key <- MCKeys
    RootKey = 2
    Value = {a}
    Capacity = 5
    EraseLast = FALSE
SPECIFICATION Spec
SYMMETRY NodeSymmetry
INVARIANTS
    TypeOK
    ListSound
    TreeSound
    IterationSorted
PROPERTIES
    IteratorsStable
    ImplementsRecencyList
