SPECIFICATION Spec
CONSTANTS
    Hosts = {h1, h2}
    Nobody = Nobody
    Closer = Closer
    NoResult = NoResult
    MaxTurns = 2
    AutoContinue = TRUE
    MaxIssued = 3
    MaxRequests = 2
    MaxCrashes = 1
    Overlap = FALSE
SYMMETRY Symmetry
INVARIANTS TypeOK LockDiscipline HolderOwnsClaim OneTurnAtATime ReleasedMeansQuiet ClosedMeansQuiet
PROPERTIES NoDispatchAfterStop HistoryBeforeContinuation
