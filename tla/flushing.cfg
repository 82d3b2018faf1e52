SPECIFICATION Spec
CONSTANTS
    Procs = {p, q}
    Files = {f, g}
    NoFile = NoFile
    Nobody = Nobody
    Lost = Lost
    MaxSessions = 2
    Tools <- FlushingTools
    Masking <- MaskingTools
    Onrun <- MCOnrun
    Onstop <- MCOnstop
    Parked <- OneParked
    RM = {}
    MaxRuns = 3
SYMMETRY Symmetry
INVARIANTS
    NoForgottenSession
    HonestExit
