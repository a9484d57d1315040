SPECIFICATION EitherSpec
CONSTANTS
    Cell = {c}
    Object = {x}
    MaxSwapThrows = 0
PROPERTY
    StrongGuarantee
CHECK_DEADLOCK FALSE
