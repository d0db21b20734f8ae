SPECIFICATION Spec
CONSTANTS
    Hosts = {h1, h2}
    Nobody = Nobody
    Closer = Closer
    NoResult = NoResult
    MaxTurns = 3
    AutoContinue = TRUE
    MaxIssued = 3
    MaxRequests = 1
    MaxCrashes = 1
    Overlap = FALSE
SYMMETRY Symmetry
INVARIANTS NoRepeatedItem
