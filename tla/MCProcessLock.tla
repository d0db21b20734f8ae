---------------------------- MODULE MCProcessLock ----------------------------
(* ProcessLock for TLC, at three processes: an owner and two that wait.  An*)
(* inode is always free, since the path and two handles name the others.   *)
EXTENDS ProcessLock, Integers, FiniteSets

ASSUME EnoughInodes == Cardinality(Inodes) >= Cardinality(Procs)
=============================================================================
