SPECIFICATION Spec
CONSTANTS
    Procs = {p, q}
    Nobody = Nobody
    IndexSizes = {2, 3}
    Word = 5
    MaxNvBuffer = 2
    DefaultBuffer = 1
    BufferMax = {0, 4}
    Sizes = {0, 2}
    Offsets = {0, 1}
    WriteOffsets = {1}
    Lengths = {2}
    InputGiven = {TRUE}
    MaxRuns = 3
INVARIANTS
    TypeOK
    ReadInPlace
    WriteInPlace
    UndisturbedRead
    AllOrNothing
PROPERTIES
    EveryTransferEnds
