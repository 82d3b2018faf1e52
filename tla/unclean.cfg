SPECIFICATION Spec
CONSTANTS
    Procs = {p}
    Files = {f}
    NoFile = NoFile
    Nobody = Nobody
    Lost = Lost
    MaxSessions = 2
    Tools <- UncleanTools
    Masking = {}
    Onrun <- MCOnrun
    Onstop <- MCOnstop
    Parked <- OneParked
    RM = {}
    MaxRuns = 1
PROPERTIES
    ToolsEndCleanly
