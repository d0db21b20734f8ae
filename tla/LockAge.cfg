SPECIFICATION Spec
CONSTANTS
    Procs = {p1, p2, p3}
    Nobody = Nobody
    Inodes = {i1, i2, i3}
    NoFile = NoFile
    Forms = {"age"}
INVARIANTS MutualExclusion
CHECK_DEADLOCK FALSE
