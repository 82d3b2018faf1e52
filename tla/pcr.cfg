SPECIFICATION Spec
CONSTANTS
    Procs = {p, q}
    Banks = {"sha1", "sha256", "sha384"}
    Pcrs = {0, 1, 2, 3}
    AnyBank = AnyBank
    Assigned <- MCAssigned
    Selections <- MCSelections
    Extensions <- MCExtensions
    Resets = {{1}}
    Batch = 2
    MaxLists = 2
    Sources = {"file", "list"}
    MaxRuns = 3
SYMMETRY Symmetry
INVARIANTS
    TypeOK
    LinesInPlace
    UndisturbedLines
    QuotedLines
    PolicyWhole
    FailureHasCause
    LoadedQuoteAccepted
    PlainVerdict
