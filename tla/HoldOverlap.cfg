SPECIFICATION Spec
CONSTANTS
    Hosts = {h1, h2}
    Nobody = Nobody
    Closer = Closer
    NoResult = NoResult
    MaxTurns = 2
    AutoContinue = TRUE
    MaxIssued = 2
    MaxRequests = 2
    MaxCrashes = 0
    Overlap = TRUE
SYMMETRY Symmetry
INVARIANTS OneHolder
