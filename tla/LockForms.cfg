SPECIFICATION FairSpec
CONSTANTS
    Procs = {p1, p2, p3}
    Nobody = Nobody
    Inodes = {i1, i2, i3}
    NoFile = NoFile
    Forms = {"exclusive", "flock", "age"}
INVARIANTS TypeOK FileHasOneUser ExclusiveMutex
PROPERTIES ImplementsLock AbandonedRemoved
CHECK_DEADLOCK FALSE
