\* The only element may be erased
CONSTANTS
    Node = {n1, n2, n3}
    Root = root
    Null = null
    Key <- MCKeys
    RootKey = 2
    Value = {a}
    Capacity = 2
    EraseLast = TRUE
SPECIFICATION Spec
SYMMETRY NodeSymmetry
INVARIANTS
    HeadLive
