SPECIFICATION Spec
CONSTANTS
    Slots = {1, 2}
    MaxRounds = 3
    PerThread = 2
    MaxRuns = 2
    Mixes <- MCMixes
INVARIANTS TypeOK CleanupReleases RoundsOnce
PROPERTIES StopIsFinal HeartbeatEnds
CHECK_DEADLOCK FALSE
