SPECIFICATION Spec
CONSTANTS
    Procs = {p}
    Scripts <- MCScripts
    Menu <- MCReaders
    Beside = {}
    Forgiving <- ForgivingCalls
    Paths = {1, 2, 3, 4}
    Nobody = Nobody
    User = User
    Taken = {{}}
    Block = 2
    Sizes = {0, 3}
CHECK_DEADLOCK FALSE
INVARIANTS
    InputWhole
