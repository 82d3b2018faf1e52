SPECIFICATION Spec
CONSTANTS
    Procs = {p, q}
    Files = {f}
    NoFile = NoFile
    Nobody = Nobody
    Lost = Lost
    MaxSessions = 2
    Tools <- RacingTools
    Masking <- MaskingTools
    Onrun <- MCOnrun
    Onstop <- MCOnstop
    Parked <- OneParked
    RM = {q}
    MaxRuns = 3
INVARIANTS
    ExclusiveSessions
PROPERTIES
    NoForeignOverwrite
    KeepsLedger
    EveryToolEnds
    SessionsComeBack
