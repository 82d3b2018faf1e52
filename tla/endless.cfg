SPECIFICATION Spec
CONSTANTS
    p = p
    q = q
    Procs = {p}
    Menu <- MCDigests
    Device = Device
    Block = 2
    Sizes = {0, 2, 5}
    Word = 64
    Slots <- MCSlots
    Persistent <- MCPersistent
    Platform = 3
    Indices <- MCIndices
    IndexMax = 3
    InUse <- MCInUse
    Page = 2
    CapMax = 4
CHECK_DEADLOCK FALSE
PROPERTIES
    EveryDigestWhole
