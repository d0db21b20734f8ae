-------------------------- MODULE ProcessLock_proofs --------------------------
(***************************************************************************)
(* ProcessLock, proved: the types, and for the "exclusive" form mutual     *)
(* exclusion and that it implements Lock, for any set of processes.        *)
(*                                                                         *)
(* The invariant both need says who may touch the file that the path names:*)
(* its creator, while it is inside, or an inspector, whose open handle is  *)
(* the only one on that file, and which deletes it only when the creator   *)
(* is dead.                                                                *)
(***************************************************************************)
EXTENDS ProcessLock, TLAPS

\* Steps of a process that change only where it is
Moves(p) ==
    \/ Enter(p) \/ FileExists(p) \/ FoundMissing(p) \/ FoundAge(p)
    \/ Retry(p) \/ TimesOut(p) \/ ExitFails(p)

\* Steps that change only where it is and what it has open
Opens(p) ==
    OpenExclusive(p) \/ OpenShared(p) \/ FlockCompare(p) \/ ReadOwner(p)

\* Next by these groups
LEMMA NextCases ==
    ASSUME Next
    PROVE  \/ \E p \in Procs : \/ Moves(p) \/ Opens(p) \/ Create(p)
                               \/ WriteOwner(p) \/ Delete(p) \/ Exit(p) \/ Die(p)
           \/ \E i \in Inodes : Ages(i)
  BY DEF Next, Works, Moves, Opens


-----------------------------------------------------------------------------
(* What each group of steps leaves, for any form                           *)

\* What a step of Moves leaves alone, and where it can lead
LEMMA MovesFrame ==
    ASSUME NEW p \in Procs, Moves(p)
    PROVE  /\ UNCHANGED <<form, path, by, written, old, handle, alive>>
           /\ pc[p] # "dead" /\ pc[p] # "created"
           /\ \E l \in {"trying", "found", "deleting", "waiting", "out"} :
                /\ Goto(p, l)
                /\ l = "deleting" => form = "age"
  BY DEF Moves, Enter, FileExists, FoundMissing, FoundAge, Retry, TimesOut,
       ExitFails

\* What a step of Opens leaves alone
LEMMA OpensFrame ==
    ASSUME NEW p \in Procs, Opens(p)
    PROVE  /\ UNCHANGED <<form, path, by, written, old, alive>>
           /\ pc[p] \in {"found", "opened", "inspecting"}
  BY DEF Opens, OpenExclusive, OpenShared, FlockCompare, ReadOwner

\* The handle and the place each step of Opens leads to
LEMMA OpensCases ==
    ASSUME NEW p \in Procs, Opens(p)
    PROVE  \/ Close(p, "waiting")
           \/ Goto(p, "waiting") /\ UNCHANGED handle /\ pc[p] = "found"
           \/ /\ pc[p] = "found" /\ path # NoFile
              /\ handle' = [handle EXCEPT ![p] = path]
              /\ \/ Goto(p, "opened") /\ form = "flock"
                 \/ Goto(p, "inspecting") /\ Openable(path)
           \/ /\ pc[p] = "opened" /\ UNCHANGED handle
              /\ path = handle[p] /\ Goto(p, "inspecting")
           \/ /\ pc[p] = "inspecting" /\ UNCHANGED handle
              /\ DeadOwner(handle[p]) /\ Goto(p, "deleting")
  BY DEF Opens, OpenExclusive, OpenShared, FlockCompare, ReadOwner

\* A lock never changes its form
LEMMA SameForm == ASSUME [Next]_vars PROVE form' = form
  BY NextCases, MovesFrame, OpensFrame DEF vars, Create, WriteOwner, Delete,
     Exit, Die, Ages

-----------------------------------------------------------------------------
(* Types                                                                   *)

\* The initial states have their types, and no file is in use
LEMMA InitInv == ASSUME Init PROVE LockInv
  BY LockConstants DEF Init, LockInv, TypeOK, FilesKnown, FileHasOneUser, PCs

\* A step keeps the types: a pid is only written to a file that is open
LEMMA NextTyped ==
    ASSUME TypeOK, FilesKnown, [Next]_vars
    PROVE  TypeOK'
<1>1. CASE UNCHANGED vars
  BY <1>1 DEF vars, TypeOK
<1>2. ASSUME NEW p \in Procs, Moves(p) PROVE TypeOK'
  <2>1. pc' \in [Procs -> PCs]
    BY <1>2, MovesFrame DEF Goto, TypeOK, PCs
  <2> QED
    BY <1>2, <2>1, MovesFrame DEF TypeOK
<1>3. ASSUME NEW p \in Procs, Opens(p) PROVE TypeOK'
  <2>1. pc' \in [Procs -> PCs]
    BY <1>3, OpensCases DEF Goto, Close, TypeOK, PCs
  <2>2. handle' \in [Procs -> Inodes \cup {NoFile}]
    BY <1>3, OpensCases DEF Goto, Close, TypeOK
  <2> QED
    BY <1>3, <2>1, <2>2, OpensFrame DEF TypeOK
<1>4. ASSUME NEW p \in Procs, Create(p) PROVE TypeOK'
  <2>1. PICK i \in Unused :
          /\ path' = i
          /\ by' = [by EXCEPT ![i] = p]
          /\ written' = written \ {i}
          /\ old' = old \ {i}
          /\ handle' = [handle EXCEPT ![p] = i]
    BY <1>4 DEF Create
  <2>2. i \in Inodes
    BY DEF Unused
  <2>3. pc' \in [Procs -> PCs]
    BY <1>4 DEF Create, Goto, TypeOK, PCs
  <2>4. by' \in [Inodes -> Procs \cup {Nobody}]
    BY <2>1, <2>2 DEF TypeOK
  <2>5. handle' \in [Procs -> Inodes \cup {NoFile}]
    BY <2>1, <2>2 DEF TypeOK
  <2> QED
    BY <1>4, <2>1, <2>2, <2>3, <2>4, <2>5 DEF TypeOK, Create
<1>5. ASSUME NEW p \in Procs, WriteOwner(p) PROVE TypeOK'
  <2>1. handle[p] \in Inodes
    BY <1>5 DEF WriteOwner, FilesKnown
  <2> QED
    BY <1>5, <2>1 DEF TypeOK, WriteOwner, WriteTarget, Close, Goto, PCs
<1>6. ASSUME NEW p \in Procs, Delete(p) PROVE TypeOK'
  BY <1>6 DEF TypeOK, Delete, Close, Goto, PCs
<1>7. ASSUME NEW p \in Procs, Exit(p) PROVE TypeOK'
  BY <1>7 DEF TypeOK, Exit, Goto, PCs
<1>8. ASSUME NEW p \in Procs, Die(p) PROVE TypeOK'
  BY <1>8 DEF TypeOK, Die, Close, Goto, PCs
<1>9. ASSUME NEW i \in Inodes, Ages(i) PROVE TypeOK'
  BY <1>9 DEF TypeOK, Ages
<1> QED
  BY <1>1, <1>2, <1>3, <1>4, <1>5, <1>6, <1>7, <1>8, <1>9, NextCases

\* A step opens a file before it uses it, and only live processes take steps
LEMMA NextFilesKnown ==
    ASSUME TypeOK, FilesKnown, [Next]_vars
    PROVE  FilesKnown'
<1>1. CASE UNCHANGED vars
  BY <1>1 DEF vars, FilesKnown
<1>2. ASSUME NEW p \in Procs, Moves(p) PROVE FilesKnown'
  BY <1>2, MovesFrame DEF FilesKnown, TypeOK, Goto
<1>3. ASSUME NEW p \in Procs, Opens(p) PROVE FilesKnown'
  BY <1>3, OpensFrame, OpensCases DEF FilesKnown, TypeOK, Goto, Close
<1>4. ASSUME NEW p \in Procs, Create(p) PROVE FilesKnown'
  <2>1. PICK i \in Inodes :
          /\ path' = i
          /\ by' = [by EXCEPT ![i] = p]
          /\ handle' = [handle EXCEPT ![p] = i]
    BY <1>4 DEF Create, Unused
  <2>2. path' # NoFile => by'[path'] \in Procs
    BY <2>1 DEF TypeOK
  <2>3. \A q \in Procs : pc'[q] \in {"created", "opened", "inspecting"}
                           => handle'[q] \in Inodes
    BY <1>4, <2>1 DEF FilesKnown, TypeOK, Create, Goto
  <2>4. \A q \in Procs : pc'[q] # "dead" => q \in alive'
    BY <1>4 DEF FilesKnown, TypeOK, Create, Goto
  <2> QED
    BY <2>2, <2>3, <2>4 DEF FilesKnown
<1>5. ASSUME NEW p \in Procs, WriteOwner(p) PROVE FilesKnown'
  BY <1>5 DEF FilesKnown, TypeOK, WriteOwner, Close, Goto
<1>6. ASSUME NEW p \in Procs, Delete(p) PROVE FilesKnown'
  BY <1>6 DEF FilesKnown, TypeOK, Delete, Close, Goto
<1>7. ASSUME NEW p \in Procs, Exit(p) PROVE FilesKnown'
  BY <1>7 DEF FilesKnown, TypeOK, Exit, Goto
<1>8. ASSUME NEW p \in Procs, Die(p) PROVE FilesKnown'
  BY <1>8 DEF FilesKnown, TypeOK, Die, Close, Goto
<1>9. ASSUME NEW i \in Inodes, Ages(i) PROVE FilesKnown'
  BY <1>9 DEF FilesKnown, Ages
<1> QED
  BY <1>1, <1>2, <1>3, <1>4, <1>5, <1>6, <1>7, <1>8, <1>9, NextCases

-----------------------------------------------------------------------------
(* The exclusive form                                                      *)

\* No step lets two processes use the file that the path names
LEMMA NextOneUser ==
    ASSUME TypeOK, FilesKnown, FileHasOneUser, [Next]_vars
    PROVE  FileHasOneUser'
<1> SUFFICES ASSUME form = "exclusive" PROVE FileHasOneUser'
  BY SameForm DEF FileHasOneUser
<1> USE LockConstants DEF FileHasOneUser, TypeOK, Goto
<1>1. CASE UNCHANGED vars
  BY <1>1 DEF vars
<1>2. ASSUME NEW p \in Procs, Moves(p) PROVE FileHasOneUser'
  BY <1>2, MovesFrame
<1>3. ASSUME NEW p \in Procs, Opens(p) PROVE FileHasOneUser'
  <2> USE <1>3, OpensFrame
  <2>1. CASE Close(p, "waiting")
    BY <2>1 DEF Close
  <2>2. CASE Goto(p, "waiting") /\ UNCHANGED handle
    BY <2>2
  <2>3. ASSUME path # NoFile, handle' = [handle EXCEPT ![p] = path],
               Goto(p, "inspecting"), Openable(path)
        PROVE  FileHasOneUser'
    BY <2>3 DEF Openable
  <2>4. CASE /\ UNCHANGED handle /\ pc[p] = "opened"
             /\ path = handle[p] /\ Goto(p, "inspecting")
    <3>1. path # NoFile
      BY <2>4 DEF FilesKnown
    <3> QED
      BY <2>4, <3>1
  <2>5. CASE /\ UNCHANGED handle /\ pc[p] = "inspecting"
             /\ DeadOwner(handle[p]) /\ Goto(p, "deleting")
    BY <2>5 DEF DeadOwner
  <2> QED
    BY <2>1, <2>2, <2>3, <2>4, <2>5, OpensCases
<1>4. ASSUME NEW p \in Procs, Create(p) PROVE FileHasOneUser'
  <2>1. PICK i \in Inodes :
          /\ \A q \in Procs : handle[q] # i
          /\ path' = i
          /\ by' = [by EXCEPT ![i] = p]
          /\ handle' = [handle EXCEPT ![p] = i]
    BY <1>4 DEF Create, Unused
  <2>2. path = NoFile /\ pc' = [pc EXCEPT ![p] = "created"]
    BY <1>4 DEF Create, Absent
  <2>3. \A q \in Procs : pc[q] \notin {"created", "critical", "inspecting",
                                       "deleting"}
    BY <2>2
  <2>4. \A q \in Procs :
          /\ pc'[q] \in {"created", "critical"} => path' # NoFile /\ by'[path'] = q
          /\ pc'[q] \notin {"inspecting", "deleting"}
    BY <2>1, <2>2, <2>3
  <2>5. \A q, r \in Procs :
          handle'[q] # NoFile /\ handle'[q] = handle'[r] => q = r
    BY <2>1
  <2> QED
    BY <2>4, <2>5
<1>5. ASSUME NEW p \in Procs, WriteOwner(p) PROVE FileHasOneUser'
  BY <1>5 DEF WriteOwner, Close
<1>6. ASSUME NEW p \in Procs, Delete(p) PROVE FileHasOneUser'
  BY <1>6 DEF Delete, Close, FilesKnown
<1>7. ASSUME NEW p \in Procs, Exit(p) PROVE FileHasOneUser'
  BY <1>7 DEF Exit, Unlinkable
<1>8. ASSUME NEW p \in Procs, Die(p) PROVE FileHasOneUser'
  BY <1>8 DEF Die, Close
<1>9. ASSUME NEW i \in Inodes, Ages(i) PROVE FileHasOneUser'
  BY <1>9 DEF Ages
<1> QED
  BY <1>1, <1>2, <1>3, <1>4, <1>5, <1>6, <1>7, <1>8, <1>9, NextCases

\* ProcessLock: LockInv is inductive, for every form of the lock.
THEOREM LockInvariant == Spec => []LockInv
<1>1. Init => LockInv
  BY InitInv
<1>2. LockInv /\ [Next]_vars => LockInv'
  BY NextTyped, NextFilesKnown, NextOneUser DEF LockInv
<1> QED
  BY <1>1, <1>2, PTL DEF Spec

\* Every variable of ProcessLock keeps its type, whichever form the lock has.
THEOREM TypeCorrect == Spec => []TypeOK
<1>1. LockInv => TypeOK
  BY DEF LockInv
<1> QED
  BY <1>1, LockInvariant, PTL

\* In the Windows form the file that the path names has one user: whoever
\* created it or is inside owns it, one handle is open on it, and a file about
\* to be deleted has a dead creator.
THEOREM OneUserHolds == Spec => []FileHasOneUser
<1>1. LockInv => FileHasOneUser
  BY DEF LockInv
<1> QED
  BY <1>1, LockInvariant, PTL

\* In the Windows form of the owner_alive lock two processes are never inside.
THEOREM ExclusiveMutexHolds == Spec => []ExclusiveMutex
<1>1. LockInv => ExclusiveMutex
  BY DEF LockInv, FileHasOneUser, ExclusiveMutex, MutualExclusion
<1> QED
  BY <1>1, LockInvariant, PTL

-----------------------------------------------------------------------------
(* The exclusive form implements Lock                                      *)

\* Steps that change neither the path, the creators nor the processes
LEMMA SameOwner ==
    ASSUME UNCHANGED <<path, by, alive>>
    PROVE  UNCHANGED <<L!lockVars>>
  BY DEF L!lockVars

\* A step of the exclusive form is a step of Lock, or leaves its variables
LEMMA StepImplements ==
    ASSUME LockInv, [Next]_vars, form = "exclusive"
    PROVE  L!Next \/ UNCHANGED <<L!lockVars>>
<1> USE DEF LockInv, TypeOK, FilesKnown, FileHasOneUser
<1>1. CASE UNCHANGED vars
  BY <1>1, SameOwner DEF vars
<1>2. ASSUME NEW p \in Procs, Moves(p) PROVE UNCHANGED <<L!lockVars>>
  BY <1>2, MovesFrame, SameOwner
<1>3. ASSUME NEW p \in Procs, Opens(p) PROVE UNCHANGED <<L!lockVars>>
  BY <1>3, OpensFrame, SameOwner
<1>4. ASSUME NEW p \in Procs, Create(p) PROVE L!Acquire(p)
  BY <1>4, LockConstants DEF Create, Absent, Unused, L!Acquire
<1>5. ASSUME NEW p \in Procs, WriteOwner(p) PROVE UNCHANGED <<L!lockVars>>
  BY <1>5, SameOwner DEF WriteOwner
<1>6. ASSUME NEW p \in Procs, Delete(p) PROVE L!Reclaim
  BY <1>6 DEF Delete, L!Reclaim
<1>7. ASSUME NEW p \in Procs, Exit(p) PROVE L!Release(p)
  BY <1>7 DEF Exit, L!Release
<1>8. ASSUME NEW p \in Procs, Die(p) PROVE L!Die(p)
  BY <1>8 DEF Die, L!Die
<1>9. ASSUME NEW i \in Inodes, Ages(i) PROVE UNCHANGED <<L!lockVars>>
  BY <1>9, SameOwner DEF Ages
<1> QED
  BY <1>1, <1>2, <1>3, <1>4, <1>5, <1>6, <1>7, <1>8, <1>9, NextCases
     DEF L!Next

\* Each step of the Windows form is a step of Lock or none.
THEOREM ImplementsLockHolds == Spec => ImplementsLock
<1>1. LockInv /\ [Next]_vars
        => [form = "exclusive" => L!Next \/ UNCHANGED <<L!lockVars>>]_vars
  BY StepImplements
<1> QED
  BY <1>1, LockInvariant, PTL DEF Spec, ImplementsLock

\* ProcessLock in its Windows form implements Lock, the lock that the callers
\* of request.lock rely on: only a dead owner loses it to another process.
THEOREM ExclusiveImplementsLock == Spec /\ form = "exclusive" => L!Spec
<1>1. Init => L!Init
  BY DEF Init, L!Init
<1>2. LockInv /\ [Next]_vars /\ form = "exclusive" => [L!Next]_(L!lockVars)
  BY StepImplements
<1>3. [Next]_vars /\ form = "exclusive" => (form = "exclusive")'
  BY SameForm
<1> QED
  BY <1>1, <1>2, <1>3, LockInvariant, PTL DEF Spec, L!Spec
=============================================================================
