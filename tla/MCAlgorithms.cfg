INIT Init
NEXT Next
CONSTANTS
    DigitBits = 2
    Radix = 3
    Variable = {x, y}
    MaxDigits = 3
    MaxShift = 6
    Width = 5
    LimbBase = 4
    Limbs = 3
    Decimal = 3
    LimbText = 2
    VectorBytes = 2
    CounterMax = 3
    IntRegs = 3
    SseRegs = 2
    MaxString = 12
    MaxParsed = 5
SYMMETRY Symmetry
INVARIANTS
    BigIntegerExact
    BitwiseExact
    FixedWidthExact
    InlinesExact
    CombinatorsExact
CHECK_DEADLOCK FALSE
