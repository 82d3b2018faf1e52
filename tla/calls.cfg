SPECIFICATION Spec
CONSTANTS
    Procs = {p, q}
    Scripts <- MCScripts
    Menu <- MCMenu
    Beside = {"tss2_getinfo", "tss2_pcrread"}
    Forgiving <- ForgivingCalls
    Paths = {1, 2, 3, 4}
    Nobody = Nobody
    User = User
    Taken = {{}, {2}}
    Block = 2
    Sizes = {0, 3}
SYMMETRY Symmetry
CHECK_DEADLOCK FALSE
INVARIANTS
    TypeOK
    CleanFrees
    NothingLeft
    HonestHash
    HonestResult
    OutputsWhole
    FullReadsWhole
PROPERTIES
    NoClobber
