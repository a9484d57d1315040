\* Three slabs, cells of 16 and 32 bytes, and a large request
SPECIFICATION Spec
CONSTANTS
    SlabSize = 96
    MinReserved = 16
    HeaderSize = 5
    MinCell = 16
    SlabTypes = 2
    SlabAt <- MCSlabAt
    LargeAt <- MCLargeAt
    Count <- MCCount
    SizeOfT = 1
    Null = Null
CONSTRAINT FewSmall
INVARIANTS
    TypeOK
    ListsExact
    BlocksSound
    SizesReported
PROPERTIES
    ClearReturnsEmpties
