SPECIFICATION Spec
CONSTANTS
    Procs = {p}
    Files = {f, g, h}
    NoFile = NoFile
    Nobody = Nobody
    Lost = Lost
    MaxSessions = 4
    Tools <- TidyTools
    Masking <- MaskingTools
    Onrun <- MCOnrun
    Onstop <- MCOnstop
    Parked <- AllParked
    RM = {}
    MaxRuns = 1
INVARIANTS
    TypeOK
    NoForgottenSession
    HonestExit
