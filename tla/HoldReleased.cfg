SPECIFICATION Spec
CONSTANTS
    Hosts = {h1, h2, h3}
    Nobody = Nobody
    Closer = Closer
    NoResult = NoResult
    MaxTurns = 2
    AutoContinue = TRUE
    MaxIssued = 3
    MaxRequests = 1
    MaxCrashes = 2
    Overlap = FALSE
SYMMETRY Symmetry
INVARIANTS ReleasedMeansQuiet
