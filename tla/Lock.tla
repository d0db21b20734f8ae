-------------------------------- MODULE Lock --------------------------------
(***************************************************************************)
(* What ProcessLock promises its callers, "Small cross-process             *)
(* single-writer lock": one owner at a time, and only a dead owner's lock  *)
(* is taken from it.  HoldLifecycle uses request.lock at this level.       *)
(***************************************************************************)

CONSTANTS Procs, Nobody

VARIABLES
    owner,      \* who has the lock, or Nobody
    live        \* the processes that run

lockVars == <<owner, live>>

Init ==
    /\ owner = Nobody
    /\ live = Procs

Acquire(p) ==
    /\ p \in live
    /\ owner = Nobody
    /\ owner' = p
    /\ UNCHANGED live

Release(p) ==
    /\ p \in live
    /\ owner = p
    /\ owner' = Nobody
    /\ UNCHANGED live

\* Only a dead owner loses the lock to somebody else
Reclaim ==
    /\ owner \in Procs \ live
    /\ owner' = Nobody
    /\ UNCHANGED live

Die(p) ==
    /\ p \in live
    /\ live' = live \ {p}
    /\ UNCHANGED owner

Next == Reclaim \/ \E p \in Procs : Acquire(p) \/ Release(p) \/ Die(p)

Spec == Init /\ [][Next]_lockVars
=============================================================================
