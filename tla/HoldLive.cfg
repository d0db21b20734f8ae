SPECIFICATION FairSpec
CONSTANTS
    Hosts = {h1}
    Nobody = Nobody
    Closer = Closer
    NoResult = NoResult
    MaxTurns = 2
    AutoContinue = TRUE
    MaxIssued = 4
    MaxRequests = 2
    MaxCrashes = 0
    Overlap = FALSE
INVARIANTS WithinBudget
PROPERTIES Answered
