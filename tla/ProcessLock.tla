----------------------------- MODULE ProcessLock -----------------------------
(***************************************************************************)
(* class ProcessLock of coo_dispatcher_store.py: a lock file created with  *)
(* O_EXCL that holds its owner's pid.  A process that finds the file waits,*)
(* gives up at its timeout, or removes the file when it was abandoned, in  *)
(* one of three forms:                                                     *)
(*                                                                         *)
(*   "exclusive"  owner_alive given, Windows: read the pid through a handle*)
(*                that shares nothing, delete the file by that handle      *)
(*   "flock"      owner_alive given, POSIX: flock the opened file, compare *)
(*                its inode with the path's, read the pid, unlink the path *)
(*   "age"        no owner_alive: unlink the path when its file is older   *)
(*                than stale_seconds                                       *)
(*                                                                         *)
(* The pid of a process is never reused, and a process that died does not  *)
(* come back.  An inode is free again once no path or handle refers to it. *)
(***************************************************************************)
CONSTANTS
    Procs,      \* processes that use the lock
    Nobody,     \* not a process
    Inodes,     \* inodes the file system gives lock files
    NoFile,     \* the path, or a handle, names no file
    Forms       \* the forms of the lock that are considered

ASSUME LockConstants ==
    /\ Nobody \notin Procs
    /\ NoFile \notin Inodes
    /\ Forms \subseteq {"exclusive", "flock", "age"}

VARIABLES
    form,       \* the form of this lock: fixed by the platform and the caller
    path,       \* the inode the lock's path names, or NoFile
    by,         \* the process that created each inode (known only to a reader
                \* of the file once it is written)
    written,    \* the inodes that hold their creator's pid
    old,        \* the inodes modified more than stale_seconds ago
    handle,     \* the file each process has open
    pc,         \* where each process is in __enter__ and __exit__
    alive       \* the processes that run

vars == <<form, path, by, written, old, handle, pc, alive>>

PCs == {"out", "trying", "created", "critical", "found", "opened",
        "inspecting", "deleting", "waiting", "dead"}

\* In __enter__, before it has the lock
Entering == {"trying", "found", "opened", "inspecting", "deleting", "waiting"}

Init ==
    /\ form \in Forms
    /\ path = NoFile
    /\ by = [i \in Inodes |-> Nobody]
    /\ written = {}
    /\ old = {}
    /\ handle = [p \in Procs |-> NoFile]
    /\ pc = [p \in Procs |-> "out"]
    /\ alive = Procs

-----------------------------------------------------------------------------
(* Operators                                                               *)

Goto(p, label) == pc' = [pc EXCEPT ![p] = label]

\* p closes what it has open and goes on at label
Close(p, label) == Goto(p, label) /\ handle' = [handle EXCEPT ![p] = NoFile]

Unused == {i \in Inodes : i # path /\ \A p \in Procs : handle[p] # i}

\* A handle that shares nothing needs the file to be open nowhere else
Openable(i) == form = "exclusive" => \A p \in Procs : handle[p] # i

\* flock(LOCK_EX | LOCK_NB) succeeds
Lockable(i) ==
    \A p \in Procs : handle[p] = i => pc[p] \notin {"inspecting", "deleting"}

\* An open handle without FILE_SHARE_DELETE keeps the file from being unlinked
Unlinkable(i) == form = "exclusive" => \A p \in Procs : handle[p] # i

\* Mutant of DeadOwner: owner_alive is not asked
AnyOwner(i) == i \in written

\* Mutant of DeadOwner: owner_alive never says that a process is dead
NeverDead(i) == FALSE

\* dead(): the file has a pid, and owner_alive says that it does not run
DeadOwner(i) == i \in written /\ by[i] \notin alive

-----------------------------------------------------------------------------
(* __enter__                                                               *)

Enter(p) ==
    /\ pc[p] = "out"
    /\ Goto(p, "trying")
    /\ UNCHANGED <<form, path, by, written, old, handle, alive>>

\* Mutant of Absent: the file is opened without O_EXCL
Whatever == TRUE

Absent == path = NoFile

Create(p) ==
    /\ pc[p] = "trying"
    /\ Absent
    /\ \E i \in Unused :
         /\ path' = i
         /\ by' = [by EXCEPT ![i] = p]
         /\ written' = written \ {i}
         /\ old' = old \ {i}
         /\ handle' = [handle EXCEPT ![p] = i]
    /\ Goto(p, "created")
    /\ UNCHANGED <<form, alive>>

\* Mutant of WriteTarget: the pid is written to the path, opened once more
PathTarget(p) == path

WriteTarget(p) == handle[p]

WriteOwner(p) ==
    /\ pc[p] = "created"
    /\ written' = written \cup {WriteTarget(p)}
    /\ Close(p, "critical")
    /\ UNCHANGED <<form, path, by, old, alive>>

FileExists(p) ==
    /\ pc[p] = "trying"
    /\ path # NoFile
    /\ Goto(p, "found")
    /\ UNCHANGED <<form, path, by, written, old, handle, alive>>

\* path.stat(): gone already, try again; or decide by the form
FoundMissing(p) ==
    /\ pc[p] = "found"
    /\ path = NoFile
    /\ Goto(p, "trying")
    /\ UNCHANGED <<form, path, by, written, old, handle, alive>>

\* The age form looks at the age first, and unlinks the path afterwards
FoundAge(p) ==
    /\ pc[p] = "found" /\ form = "age"
    /\ path # NoFile
    /\ Goto(p, IF path \in old THEN "deleting" ELSE "waiting")
    /\ UNCHANGED <<form, path, by, written, old, handle, alive>>

OpenExclusive(p) ==
    /\ pc[p] = "found" /\ form = "exclusive"
    /\ path # NoFile
    /\ IF Openable(path)
       THEN /\ handle' = [handle EXCEPT ![p] = path]
            /\ Goto(p, "inspecting")
       ELSE Goto(p, "waiting") /\ UNCHANGED handle
    /\ UNCHANGED <<form, path, by, written, old, alive>>

OpenShared(p) ==
    /\ pc[p] = "found" /\ form = "flock"
    /\ path # NoFile
    /\ handle' = [handle EXCEPT ![p] = path]
    /\ Goto(p, "opened")
    /\ UNCHANGED <<form, path, by, written, old, alive>>

\* flock, then st_ino of the handle compared with that of the path
FlockCompare(p) ==
    /\ pc[p] = "opened"
    /\ IF Lockable(handle[p]) /\ path = handle[p]
       THEN Goto(p, "inspecting") /\ UNCHANGED handle
       ELSE Close(p, "waiting")
    /\ UNCHANGED <<form, path, by, written, old, alive>>

ReadOwner(p) ==
    /\ pc[p] = "inspecting"
    /\ IF DeadOwner(handle[p])
       THEN Goto(p, "deleting") /\ UNCHANGED handle
       ELSE Close(p, "waiting")
    /\ UNCHANGED <<form, path, by, written, old, alive>>

\* Windows deletes the file of the handle, POSIX and the age form the path
Delete(p) ==
    /\ pc[p] = "deleting"
    /\ path' = IF form = "exclusive" /\ path # handle[p] THEN path ELSE NoFile
    /\ Close(p, "trying")
    /\ UNCHANGED <<form, by, written, old, alive>>

\* time.sleep, then another round; or the deadline has passed
Retry(p) ==
    /\ pc[p] = "waiting"
    /\ Goto(p, "trying")
    /\ UNCHANGED <<form, path, by, written, old, handle, alive>>

TimesOut(p) ==
    /\ pc[p] = "waiting"
    /\ Goto(p, "out")
    /\ UNCHANGED <<form, path, by, written, old, handle, alive>>

-----------------------------------------------------------------------------
(* __exit__, and what happens to processes and files                       *)

\* Unlinks the path, whichever file it names
Exit(p) ==
    /\ pc[p] = "critical"
    /\ Unlinkable(path)
    /\ path' = NoFile
    /\ Goto(p, "out")
    /\ UNCHANGED <<form, by, written, old, handle, alive>>

\* An inspector kept its handle until the deadline: the exception leaves the
\* file behind, with the pid of a process that lives
ExitFails(p) ==
    /\ pc[p] = "critical"
    /\ ~Unlinkable(path)
    /\ Goto(p, "out")
    /\ UNCHANGED <<form, path, by, written, old, handle, alive>>

Die(p) ==
    /\ alive' = alive \ {p}
    /\ p \in alive
    /\ Close(p, "dead")
    /\ UNCHANGED <<form, path, by, written, old>>

\* Assumed: a live owner is done with the lock within stale_seconds
Ages(i) ==
    /\ i = path /\ i \notin old
    /\ by[i] \notin alive
    /\ old' = old \cup {i}
    /\ UNCHANGED <<form, path, by, written, handle, pc, alive>>

\* What a process does once it wants the lock, or has it
Works(p) ==
    \/ Create(p) \/ WriteOwner(p) \/ FileExists(p) \/ FoundMissing(p)
    \/ FoundAge(p) \/ OpenExclusive(p) \/ OpenShared(p) \/ FlockCompare(p)
    \/ ReadOwner(p) \/ Delete(p) \/ Retry(p) \/ Exit(p)

Next ==
    \/ \E p \in Procs : Works(p) \/ Enter(p) \/ TimesOut(p) \/ ExitFails(p) \/ Die(p)
    \/ \E i \in Inodes : Ages(i)

Spec == Init /\ [][Next]_vars

\* The scheduler runs every live process, and time passes
Fairness ==
    /\ \A p \in Procs : WF_vars(Works(p))
    /\ \A i \in Inodes : WF_vars(Ages(i))

FairSpec == Spec /\ Fairness

-----------------------------------------------------------------------------
(* Properties                                                              *)

\* Every variable keeps its type, and the form never changes.
TypeOK ==
    /\ form \in Forms
    /\ path \in Inodes \cup {NoFile}
    /\ by \in [Inodes -> Procs \cup {Nobody}]
    /\ written \subseteq Inodes
    /\ old \subseteq Inodes
    /\ handle \in [Procs -> Inodes \cup {NoFile}]
    /\ pc \in [Procs -> PCs]
    /\ alive \subseteq Procs

\* A file that is created, opened or read is open, and the path names a file
\* that somebody created.
FilesKnown ==
    /\ path # NoFile => by[path] \in Procs
    /\ \A p \in Procs :
         /\ pc[p] \in {"created", "opened", "inspecting"} => handle[p] \in Inodes
         /\ pc[p] # "dead" => p \in alive

\* The Windows form, by who may touch the file that the path names: its
\* creator while it is inside, or the one inspector that has it open, which
\* deletes it only when the creator is dead.
FileHasOneUser ==
    form = "exclusive" =>
      /\ \A p \in Procs :
           /\ pc[p] \in {"created", "critical"} => path # NoFile /\ by[path] = p
           /\ pc[p] \in {"inspecting", "deleting"} => path # NoFile /\ path = handle[p]
           /\ pc[p] = "deleting" => by[path] \notin alive
      /\ \A p, q \in Procs : handle[p] # NoFile /\ handle[p] = handle[q] => p = q

LockInv == TypeOK /\ FilesKnown /\ FileHasOneUser

\* "Single-writer lock": two processes are never inside at the same time.
MutualExclusion ==
    \A p, q \in Procs : pc[p] = "critical" /\ pc[q] = "critical" => p = q

\* The Windows form of the owner_alive lock is a single-writer lock, whatever
\* dies, times out or inspects at the same moment.
ExclusiveMutex == form = "exclusive" => MutualExclusion

\* _remove_dead_owner: "Delete only the inspected dead-owner file".  A process
\* that reclaims a lock never removes the file of one that lives.
KeepsLiveLock ==
    [][\A p \in Procs :
         pc[p] = "deleting" /\ path # NoFile /\ path' = NoFile
           => by[path] \notin alive]_vars

\* The file of a dead owner does not block a process that keeps trying: it is
\* removed.  Only the age form can do so before the pid was written.
AbandonedRemoved ==
    \A p \in Procs, i \in Inodes :
      (/\ pc[p] \in Entering
       /\ path = i /\ by[i] \notin alive
       /\ form = "age" \/ i \in written)
      ~> (path # i \/ pc[p] \notin Entering)

\* The Lock that the owner_alive form on Windows implements: whoever created
\* the file that the path names is the owner, from O_EXCL to unlink.
L == INSTANCE Lock WITH
       owner <- IF path = NoFile THEN Nobody ELSE by[path],
       live <- alive

\* Each step of the Windows form is a step of Lock, or none: the lock is taken
\* from an owner only when it has died.
ImplementsLock ==
    [][form = "exclusive" => L!Next \/ UNCHANGED <<L!lockVars>>]_vars
=============================================================================
