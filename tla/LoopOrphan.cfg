SPECIFICATION Spec
CONSTANTS
    Slots = {1, 2}
    MaxRounds = 3
    PerThread = 2
    MaxRuns = 2
    Mixes <- MCRace
INVARIANT NoOrphan
CHECK_DEADLOCK FALSE
