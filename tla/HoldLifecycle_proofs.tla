------------------------ MODULE HoldLifecycle_proofs ------------------------
(***************************************************************************)
(* Proofs about HoldLifecycle, for any set of Hosts and any bounds:        *)
(*   - TypeCorrect: every variable keeps its type;                         *)
(*   - LockDisciplineHolds: sections under request.lock exclude each other *)
(*     also when Hosts die and their lock is reclaimed;                    *)
(*   - NoDispatchAfterStopHolds: no turn is started once a stop is latched.*)
(* The inductive invariant is TypeOK /\ LockDiscipline.                    *)
(***************************************************************************)
EXTENDS HoldLifecycle, TLAPS

-----------------------------------------------------------------------------
(* What the operators shared by the actions keep typed                     *)

\* An exception in hold_task leaves typed locals, labels and lock.
LEMMA FailTyped ==
    ASSUME TypeOK, NEW h \in Hosts,
           NEW kind \in {"error", "unknown", "readback"}, Fail(h, kind)
    PROVE  /\ my' \in [Hosts -> Locals]
           /\ pc' \in [Hosts -> PCs]
           /\ rlock' \in Procs \cup {Nobody}
<1>1. my \in [Hosts -> Locals]
  BY DEF TypeOK
<1>2. my' = [my EXCEPT ![h].fail = kind]
  BY DEF Fail
<1>3. my' \in [Hosts -> Locals]
  BY <1>1, <1>2 DEF Locals
<1>4. QED
  BY <1>3 DEF Fail, TypeOK, Goto, PCs, Unlocked

\* The first request is one.
LEMMA FirstRequestTyped == FirstRequest \in Requests
BY HoldConstants DEF FirstRequest, Requests, Rids, Modes

\* A Host whose scan ends has typed labels and an empty scan.
LEMMA ScanEndsTyped ==
    ASSUME TypeOK, NEW h \in Hosts, ScanEnds(h)
    PROVE  scan' \in [Hosts -> Scans] /\ pc' \in [Hosts -> PCs]
<1>1. NoScan \in Scans
  BY HoldConstants DEF NoScan, Scans, FirstRequest, FirstAck, Requests, Acks,
                       Rids, Modes, Phases
<1>2. QED
  BY <1>1 DEF ScanEnds, TypeOK, Goto, PCs

\* refresh_close_report() writes a close.json, whatever the evidence.
LEMMA RefreshedCloseTyped ==
    ASSUME TypeOK, NEW r \in Results, NEW released \in BOOLEAN
    PROVE  RefreshedClose(r, released) \in Closes
BY DEF RefreshedClose, NotDispatched, TypeOK, Results, Closes, Claims

\* A snapshot field is replaced by what the Host reads now.
LEMMA ScanReadTyped ==
    ASSUME TypeOK, NEW h \in Hosts
    PROVE  /\ [scan EXCEPT ![h].req = req] \in [Hosts -> Scans]
           /\ [scan EXCEPT ![h].ack = ack] \in [Hosts -> Scans]
           /\ \A g \in Hosts : [scan EXCEPT ![h].dead = g] \in [Hosts -> Scans]
<1>1. scan \in [Hosts -> Scans] /\ req \in Requests /\ ack \in Acks
  BY DEF TypeOK
<1>2. QED
  BY <1>1 DEF Scans

\* The request that replaces a dead owner's one is a request.
LEMMA RecoveredRequestTyped ==
    ASSUME TypeOK, NEW h \in Hosts, RequeueRequest(h)
    PROVE  req' \in Requests
<1>1. scan[h].req \in Requests /\ scan[h].ack \in Acks /\ req \in Requests
  BY DEF TypeOK, Scans
<1>2. RecoveredTurn(h) \in Nat
  BY <1>1 DEF RecoveredTurn, Requests, Acks
<1>3. [scan[h].req EXCEPT
         !.mode = RecoveryMode(h),
         !.turn = RecoveredTurn(h),
         !.base = IF scan[h].ack.count = 0 THEN 1 ELSE scan[h].ack.count,
         !.stop = scan[h].req.stop \/ req.stop] \in Requests
  BY <1>1, <1>2 DEF Requests, Acks, RecoveryMode, Modes
<1>4. QED
  BY <1>1, <1>3 DEF RequeueRequest

\* hold_task's finally block leaves a typed result and close report.
LEMMA HolderExitTyped ==
    ASSUME TypeOK, NEW h \in Hosts, HolderExit(h)
    PROVE  res' \in Results \cup {NoResult} /\ close' \in Closes
<1>1. CASE res = NoResult
  BY <1>1 DEF HolderExit, TypeOK
<1>2. CASE res # NoResult
  <2>1. res \in Results
    BY <1>2 DEF TypeOK
  <2>2. [res EXCEPT !.exit = @ \/ res.hs] \in Results
    BY <2>1 DEF Results
  <2>3. [res EXCEPT !.exit = @ \/ res.hs, !.obs = TRUE] \in Results
    BY <2>1 DEF Results
  <2>4. res' \in Results
    BY <2>2, <2>3, <1>2 DEF HolderExit
  <2>5. (res.conf /\ ~claim.dir) \in BOOLEAN
    BY <2>1 DEF Results
  <2>6. \/ close' = close
        \/ close' = RefreshedClose(res', res.conf /\ ~claim.dir)
    BY <1>2 DEF HolderExit
  <2>7. QED
    BY <2>4, <2>5, <2>6, RefreshedCloseTyped DEF TypeOK
<1>3. QED
  BY <1>1, <1>2

\* run_once's finally block leaves a typed result.
LEMMA HostFinallyTyped ==
    ASSUME TypeOK, NEW h \in Hosts, HostFinally(h)
    PROVE  res' \in Results \cup {NoResult}
<1>1. CASE res = NoResult
  BY <1>1 DEF HostFinally, TypeOK
<1>2. CASE res # NoResult
  <2>1. res \in Results
    BY <1>2 DEF TypeOK
  <2>2. [res EXCEPT !.hexit = TRUE, !.conf = @ \/ OwnerProof] \in Results
    BY <2>1 DEF Results, OwnerProof
  <2>3. QED
    BY <2>1, <2>2, <1>2 DEF HostFinally
<1>3. QED
  BY <1>1, <1>2

-----------------------------------------------------------------------------
(* One step keeps the types                                                *)

\* Every action of a Host, of a caller and of the App Server keeps TypeOK.
LEMMA TypeStep == TypeOK /\ LockDiscipline /\ [Next]_vars => TypeOK'
<1> SUFFICES ASSUME TypeOK, LockDiscipline, [Next]_vars
             PROVE  TypeOK'
  OBVIOUS
<1>0. my \in [Hosts -> Locals] /\ req \in Requests
  BY DEF TypeOK
<1>1. ASSUME NEW h \in Hosts, StartHost(h) PROVE TypeOK'
  <2>1. alive' \in [Hosts -> BOOLEAN]
    BY <1>1, HoldConstants DEF TypeOK, StartHost
  <2>2. QED
    BY <1>1, <2>1 DEF TypeOK, StartHost, files, procs, callers, server
<1>2. ASSUME NEW h \in Hosts, ReadRequest(h) PROVE TypeOK'
  <2>1. pc' \in [Hosts -> PCs]
    BY <1>2, HoldConstants DEF TypeOK, ReadRequest, Running, Goto, PCs
  <2>2. scan' \in [Hosts -> Scans]
    BY <1>2, ScanReadTyped DEF TypeOK, ReadRequest
  <2>3. QED
    BY <1>2, <2>1, <2>2 DEF TypeOK, ReadRequest, files, procs, callers,
         server
<1>3. ASSUME NEW h \in Hosts, ReadAck(h) PROVE TypeOK'
  <2>1. pc' \in [Hosts -> PCs]
    BY <1>3, HoldConstants DEF TypeOK, ReadAck, Running, Goto, ScanEnds,
         NoScan, FirstRequest, FirstAck, PCs
  <2>2. scan' \in [Hosts -> Scans]
    <3>1. ScanEnds(h) \/ scan' = [scan EXCEPT ![h].ack = ack]
      BY <1>3 DEF ReadAck
    <3>2. QED
      BY <3>1, ScanReadTyped, ScanEndsTyped
  <2>3. QED
    BY <1>3, <2>1, <2>2 DEF TypeOK, ReadAck, files, procs, callers, server
<1>4. ASSUME NEW h \in Hosts, ClaimMkdir(h) PROVE TypeOK'
  <2>1. claim' \in Claims
    BY <1>4 DEF TypeOK, ClaimMkdir, Claims
  <2>2. pc' \in [Hosts -> PCs]
    BY <1>4, HoldConstants DEF TypeOK, ClaimMkdir, Running, MayClaim, Goto,
         PCs
  <2>3. QED
    BY <1>4, <2>1, <2>2 DEF TypeOK, ClaimMkdir, files, procs, callers,
         server
<1>5. ASSUME NEW h \in Hosts, ClaimOwner(h) PROVE TypeOK'
  <2>1. claim' \in Claims
    BY <1>5, HoldConstants DEF TypeOK, ClaimOwner, Running, Goto, Claims
  <2>2. pc' \in [Hosts -> PCs]
    BY <1>5, HoldConstants DEF TypeOK, ClaimOwner, Running, Goto, PCs
  <2>3. QED
    BY <1>5, <2>1, <2>2 DEF TypeOK, ClaimOwner, files, procs, callers,
         server
<1>6. ASSUME NEW h \in Hosts, ClaimRecheck(h) PROVE TypeOK'
  <2>1. pc' \in [Hosts -> PCs]
    BY <1>6, HoldConstants DEF TypeOK, ClaimRecheck, Running, StillQueued,
         Goto, PCs
  <2>2. scan' \in [Hosts -> Scans]
    <3>1. scan' = scan \/ scan' = [scan EXCEPT ![h].ack = ack]
      BY <1>6 DEF ClaimRecheck
    <3>2. scan \in [Hosts -> Scans]
      BY DEF TypeOK
    <3>3. QED
      BY <3>1, <3>2, ScanReadTyped
  <2>3. QED
    BY <1>6, <2>1, <2>2 DEF TypeOK, ClaimRecheck, files, procs, callers,
         server
<1>7. ASSUME NEW h \in Hosts, ClaimAck(h) PROVE TypeOK'
  <2>1. ack' \in Acks
    BY <1>7, HoldConstants DEF TypeOK, ClaimAck, Running, Goto, Acks, Scans,
         Requests, Phases, Modes, Rids
  <2>2. pc' \in [Hosts -> PCs]
    BY <1>7, HoldConstants DEF TypeOK, ClaimAck, Running, Goto, PCs
  <2>3. QED
    BY <1>7, <2>1, <2>2 DEF TypeOK, ClaimAck, files, procs, callers, server
<1>8. ASSUME NEW h \in Hosts, RequeueDeadClaim(h) PROVE TypeOK'
  <2>1. pc' \in [Hosts -> PCs]
    BY <1>8, HoldConstants DEF TypeOK, RequeueDeadClaim, Running,
         RecoveredTurn, Goto, ScanEnds, NoScan, FirstRequest, FirstAck, PCs
  <2>2. scan' \in [Hosts -> Scans]
    <3>1. \/ ScanEnds(h)
          \/ /\ claim.owner \in Hosts
             /\ scan' = [scan EXCEPT ![h].dead = claim.owner]
      BY <1>8 DEF RequeueDeadClaim
    <3>2. CASE ScanEnds(h)
      BY <3>2, ScanEndsTyped
    <3>3. ASSUME claim.owner \in Hosts,
                 scan' = [scan EXCEPT ![h].dead = claim.owner]
          PROVE  scan' \in [Hosts -> Scans]
      <4>1. [scan EXCEPT ![h].dead = claim.owner] \in [Hosts -> Scans]
        BY <3>3, ScanReadTyped
      <4>2. QED
        BY <3>3, <4>1
    <3>4. QED
      BY <3>1, <3>2, <3>3
  <2>3. QED
    BY <1>8, <2>1, <2>2 DEF TypeOK, RequeueDeadClaim, files, procs, callers,
         server
<1>9. ASSUME NEW h \in Hosts, RecoveryFailed(h) PROVE TypeOK'
  <2>1. ack' \in Acks
    BY <1>9, HoldConstants DEF TypeOK, RecoveryFailed, Running, Goto, Acks,
         Requests, Scans, Phases, Modes, Rids
  <2>2. pc' \in [Hosts -> PCs]
    BY <1>9, HoldConstants DEF TypeOK, RecoveryFailed, Running, Goto, PCs
  <2>3. QED
    BY <1>9, <2>1, <2>2 DEF TypeOK, RecoveryFailed, files, procs, callers,
         server
<1>10. ASSUME NEW h \in Hosts, RequeueLock(h) PROVE TypeOK'
  <2>1. rlock' \in Procs \cup {Nobody}
    BY <1>10, HoldConstants DEF TypeOK, RequeueLock, Running, CanLock,
         Unlocked, Goto, ScanEnds, NoScan, FirstRequest, FirstAck, Procs
  <2>2. pc' \in [Hosts -> PCs]
    BY <1>10, HoldConstants DEF TypeOK, RequeueLock, Running, CanLock,
         Unlocked, Goto, ScanEnds, NoScan, FirstRequest, FirstAck, PCs
  <2>3. scan' \in [Hosts -> Scans]
    BY <1>10, ScanEndsTyped DEF TypeOK, RequeueLock
  <2>4. QED
    BY <1>10, <2>1, <2>2, <2>3 DEF TypeOK, RequeueLock, files, procs,
         callers, server
<1>11. ASSUME NEW h \in Hosts, RequeueRequest(h) PROVE TypeOK'
  <2>1. req' \in Requests
    BY <1>11, RecoveredRequestTyped
  <2>2. rlock' \in Procs \cup {Nobody}
    BY <1>11, HoldConstants DEF TypeOK, RequeueRequest, Running,
         RecoveryMode, RecoveredTurn, Goto, ScanEnds, NoScan, FirstRequest,
         FirstAck, Unlocked, Procs
  <2>3. pc' \in [Hosts -> PCs]
    BY <1>11, HoldConstants DEF TypeOK, RequeueRequest, Running,
         RecoveryMode, RecoveredTurn, Goto, ScanEnds, NoScan, FirstRequest,
         FirstAck, Unlocked, PCs
  <2>4. scan' \in [Hosts -> Scans]
    BY <1>11, ScanEndsTyped DEF TypeOK, RequeueRequest
  <2>5. QED
    BY <1>11, <2>1, <2>2, <2>3, <2>4 DEF TypeOK, RequeueRequest, files,
         procs, callers, server
<1>12. ASSUME NEW h \in Hosts, RequeueAck(h) PROVE TypeOK'
  <2>1. ack' \in Acks
    BY <1>12, HoldConstants DEF TypeOK, RequeueAck, Running, Goto, Acks,
         Requests, Scans, Phases, Modes, Rids
  <2>2. pc' \in [Hosts -> PCs]
    BY <1>12, HoldConstants DEF TypeOK, RequeueAck, Running, Goto, PCs
  <2>3. QED
    BY <1>12, <2>1, <2>2 DEF TypeOK, RequeueAck, files, procs, callers,
         server
<1>13. ASSUME NEW h \in Hosts, ReleaseOwner(h) PROVE TypeOK'
  <2>1. claim' \in Claims
    BY <1>13, HoldConstants DEF TypeOK, ReleaseOwner, Running, Goto, Claims
  <2>2. pc' \in [Hosts -> PCs]
    BY <1>13, HoldConstants DEF TypeOK, ReleaseOwner, Running, Goto, PCs
  <2>3. QED
    BY <1>13, <2>1, <2>2 DEF TypeOK, ReleaseOwner, files, procs, callers,
         server
<1>14. ASSUME NEW h \in Hosts, ReleaseDir(h) PROVE TypeOK'
  <2>1. claim' \in Claims
    BY <1>14, HoldConstants DEF TypeOK, ReleaseDir, Running, Unlocked, Goto,
         ScanEnds, NoScan, FirstRequest, FirstAck, Claims, Requests, Acks,
         Scans, Phases, Modes, Rids
  <2>2. rlock' \in Procs \cup {Nobody}
    BY <1>14, HoldConstants DEF TypeOK, ReleaseDir, Running, Unlocked, Goto,
         ScanEnds, NoScan, FirstRequest, FirstAck, Procs
  <2>3. pc' \in [Hosts -> PCs]
    BY <1>14, HoldConstants DEF TypeOK, ReleaseDir, Running, Unlocked, Goto,
         ScanEnds, NoScan, FirstRequest, FirstAck, PCs
  <2>4. scan' \in [Hosts -> Scans]
    BY <1>14, ScanEndsTyped DEF TypeOK, ReleaseDir
  <2>5. QED
    BY <1>14, <2>1, <2>2, <2>3, <2>4 DEF TypeOK, ReleaseDir, files, procs,
         callers, server
<1>15. ASSUME NEW h \in Hosts, HoldStarted(h) PROVE TypeOK'
  <2>1. ack' \in Acks
    BY <1>15, HoldConstants DEF TypeOK, HoldStarted, Running, Goto, Acks,
         Requests, Locals, Phases, Statuses, Modes, Rids
  <2>2. pc' \in [Hosts -> PCs]
    BY <1>15, HoldConstants DEF TypeOK, HoldStarted, Running, Goto, PCs
  <2>3. my' \in [Hosts -> Locals]
    BY <1>15, HoldConstants DEF TypeOK, HoldStarted, Running, Goto, Locals,
         Requests, Statuses, Modes, Rids, TurnIds
  <2>4. QED
    BY <1>15, <2>1, <2>2, <2>3 DEF TypeOK, HoldStarted, files, procs,
         callers, server
<1>16. ASSUME NEW h \in Hosts, LockStart(h) PROVE TypeOK'
  <2>1. /\ my' \in [Hosts -> Locals]
        /\ pc' \in [Hosts -> PCs]
        /\ rlock' \in Procs \cup {Nobody}
    <3>1. \/ Fail(h, "error")
          \/ rlock' = h /\ my' = my /\ Goto(h, "starting")
      BY <1>16 DEF LockStart
    <3>2. my' \in [Hosts -> Locals]
      BY <1>0, FailTyped, <3>1 DEF Locals
    <3>3. QED
      BY <3>1, <3>2, FailTyped DEF TypeOK, Goto, PCs, Procs, Unlocked
  <2>2. QED
    BY <1>16, <2>1 DEF TypeOK, LockStart, files, procs, callers, server
<1>17. ASSUME NEW h \in Hosts, StopBeforeDispatch(h) PROVE TypeOK'
  <2>1. res' \in Results \cup {NoResult}
    BY <1>17, HoldConstants DEF TypeOK, StopBeforeDispatch, Running,
         StopRequested, Cancelled, Goto, Results, Requests, Closes, Locals,
         Statuses, Modes, Rids, TurnIds
  <2>2. pc' \in [Hosts -> PCs]
    BY <1>17, HoldConstants DEF TypeOK, StopBeforeDispatch, Running,
         StopRequested, Cancelled, Goto, PCs
  <2>3. QED
    BY <1>17, <2>1, <2>2 DEF TypeOK, StopBeforeDispatch, files, procs,
         callers, server
<1>18. ASSUME NEW h \in Hosts, CancelAck(h) PROVE TypeOK'
  <2>1. ack' \in Acks
    BY <1>18, HoldConstants DEF TypeOK, CancelAck, Running, EndedAck,
         Unlocked, Goto, Acks, Locals, Phases, Statuses, Modes, Rids
  <2>2. rlock' \in Procs \cup {Nobody}
    BY <1>18, HoldConstants DEF TypeOK, CancelAck, Running, EndedAck,
         Unlocked, Goto, Procs
  <2>3. pc' \in [Hosts -> PCs]
    BY <1>18, HoldConstants DEF TypeOK, CancelAck, Running, EndedAck,
         Unlocked, Goto, PCs
  <2>4. QED
    BY <1>18, <2>1, <2>2, <2>3 DEF TypeOK, CancelAck, files, procs, callers,
         server
<1>19. ASSUME NEW h \in Hosts, AttachRecovered(h) PROVE TypeOK'
  <2>1. ack' \in Acks
    BY <1>19, HoldConstants DEF TypeOK, AttachRecovered, Running, Goto,
         Acks, Requests, Locals, Phases, Statuses, Modes, Rids
  <2>2. pc' \in [Hosts -> PCs]
    BY <1>19, HoldConstants DEF TypeOK, AttachRecovered, Running, Goto, PCs
  <2>3. rlock' \in Procs \cup {Nobody}
    BY <1>19, HoldConstants DEF TypeOK, AttachRecovered, Unlocked, Procs
  <2>4. QED
    BY <1>19, <2>1, <2>2, <2>3 DEF TypeOK, AttachRecovered, files, procs,
         callers, server
<1>20. ASSUME NEW h \in Hosts, StartThread(h) PROVE TypeOK'
  <2>1. ack' \in Acks
    BY <1>20, HoldConstants DEF TypeOK, StartThread, Running, StopRequested,
         Goto, Acks, Requests, Closes, Locals, Phases, Statuses, Modes, Rids
  <2>2. pc' \in [Hosts -> PCs]
    BY <1>20, HoldConstants DEF TypeOK, StartThread, Running, StopRequested,
         Goto, PCs
  <2>3. my' \in [Hosts -> Locals]
    <3>1. my' = [my EXCEPT ![h].conf = FALSE]
      BY <1>20 DEF StartThread
    <3>2. [my[h] EXCEPT !.conf = FALSE] \in Locals
      BY <1>0, ZenonT(60) DEF Locals
    <3>3. QED
      BY <1>0, <3>1, <3>2
  <2>4. QED
    BY <1>20, <2>1, <2>2, <2>3 DEF TypeOK, StartThread, files, procs,
         callers, server
<1>21. ASSUME NEW h \in Hosts, ThreadStarted(h) PROVE TypeOK'
  <2>1. ack' \in Acks
    BY <1>21, HoldConstants DEF TypeOK, ThreadStarted, Running, Goto, Acks,
         Locals, Phases, Statuses, Modes, Rids
  <2>2. pc' \in [Hosts -> PCs]
    BY <1>21, HoldConstants DEF TypeOK, ThreadStarted, Running, Goto, PCs
  <2>3. my' \in [Hosts -> Locals]
    <3>1. my' = [my EXCEPT ![h].thread = TRUE]
      BY <1>21 DEF ThreadStarted
    <3>2. [my[h] EXCEPT !.thread = TRUE] \in Locals
      BY <1>0, ZenonT(60) DEF Locals
    <3>3. QED
      BY <1>0, <3>1, <3>2
  <2>4. QED
    BY <1>21, <2>1, <2>2, <2>3 DEF TypeOK, ThreadStarted, files, procs,
         callers, server
<1>22. ASSUME NEW h \in Hosts, TurnStarting(h) PROVE TypeOK'
  <2>1. ack' \in Acks
    BY <1>22, HoldConstants DEF TypeOK, TurnStarting, Running, Goto, Acks,
         Locals, Phases, Statuses, Modes, Rids
  <2>2. pc' \in [Hosts -> PCs]
    BY <1>22, HoldConstants DEF TypeOK, TurnStarting, Running, Goto, PCs
  <2>3. my' \in [Hosts -> Locals]
    <3>1. my' = [my EXCEPT ![h].notSent = FALSE]
      BY <1>22 DEF TurnStarting
    <3>2. [my[h] EXCEPT !.notSent = FALSE] \in Locals
      BY <1>0, ZenonT(60) DEF Locals
    <3>3. QED
      BY <1>0, <3>1, <3>2
  <2>4. QED
    BY <1>22, <2>1, <2>2, <2>3 DEF TypeOK, TurnStarting, files, procs,
         callers, server
<1>23. ASSUME NEW h \in Hosts, NEW answered \in BOOLEAN,
             StartTurn(h, answered)
      PROVE TypeOK'
  <2>1. /\ my' \in [Hosts -> Locals]
        /\ pc' \in [Hosts -> PCs]
        /\ rlock' \in Procs \cup {Nobody}
    <3>1. \/ Fail(h, "error")
          \/ rlock' = rlock /\ Goto(h, "sent") /\ my' = [my EXCEPT ![h].turn = issued + 1]
      BY <1>23 DEF StartTurn
    <3>2. issued + 1 \in Nat
      BY HoldConstants DEF TypeOK
    <3>3. my' \in [Hosts -> Locals]
      BY <1>0, FailTyped, <3>1, <3>2 DEF Locals
    <3>4. QED
      BY <3>1, <3>3, FailTyped DEF TypeOK, Goto, PCs, Procs, Unlocked
  <2>2. issued' \in 0..MaxIssued
    BY <1>23, HoldConstants DEF TypeOK, StartTurn, Running, NextCount, Goto,
         Fail, Unlocked, TurnIds
  <2>3. turns' \in [TurnIds -> Turns]
    BY <1>23, HoldConstants DEF TypeOK, StartTurn, Running, NextCount, Goto,
         Fail, Unlocked, Turns, Locals, Statuses, Modes, Rids, TurnIds
  <2>4. QED
    BY <1>23, <2>1, <2>2, <2>3 DEF TypeOK, StartTurn, files, procs, callers,
         server
<1>24. ASSUME NEW h \in Hosts, TurnStarted(h) PROVE TypeOK'
  <2>1. ack' \in Acks
    BY <1>24, HoldConstants DEF TypeOK, TurnStarted, Running, NextCount,
         Goto, Acks, Locals, Phases, Statuses, Modes, Rids
  <2>2. pc' \in [Hosts -> PCs]
    BY <1>24, HoldConstants DEF TypeOK, TurnStarted, Running, NextCount,
         Goto, PCs
  <2>3. my' \in [Hosts -> Locals]
    <3>1. my' = [my EXCEPT ![h].count = NextCount(h)]
      BY <1>24 DEF TurnStarted
    <3>2. NextCount(h) \in Nat
      BY <1>0 DEF NextCount, Locals
    <3>3. QED
      BY <1>0, <3>1, <3>2 DEF Locals
  <2>4. rlock' \in Procs \cup {Nobody}
    BY <1>24, HoldConstants DEF TypeOK, TurnStarted, Unlocked, Procs
  <2>5. QED
    BY <1>24, <2>1, <2>2, <2>3, <2>4 DEF TypeOK, TurnStarted, files, procs,
         callers, server
<1>25. ASSUME NEW h \in Hosts, TurnHolding(h) PROVE TypeOK'
  <2>1. ack' \in Acks
    BY <1>25, HoldConstants DEF TypeOK, TurnHolding, Running, Goto,
         Unlocked, Acks, Locals, Phases, Statuses, Modes, Rids
  <2>2. rlock' \in Procs \cup {Nobody}
    BY <1>25, HoldConstants DEF TypeOK, TurnHolding, Running, Goto,
         Unlocked, Procs
  <2>3. pc' \in [Hosts -> PCs]
    BY <1>25, HoldConstants DEF TypeOK, TurnHolding, Running, Goto,
         Unlocked, PCs
  <2>4. QED
    BY <1>25, <2>1, <2>2, <2>3 DEF TypeOK, TurnHolding, files, procs,
         callers, server
<1>26. ASSUME NEW h \in Hosts, AdvanceRequest(h) PROVE TypeOK'
  <2>1. /\ my' \in [Hosts -> Locals]
        /\ pc' \in [Hosts -> PCs]
        /\ rlock' \in Procs \cup {Nobody}
    <3>1. \/ Fail(h, "error")
          \/ rlock' = Unlocked(h) /\ my' = my /\ Goto(h, "observing")
      BY <1>26 DEF AdvanceRequest
    <3>2. my' \in [Hosts -> Locals]
      BY <1>0, FailTyped, <3>1 DEF Locals
    <3>3. QED
      BY <3>1, <3>2, FailTyped DEF TypeOK, Goto, PCs, Procs, Unlocked
  <2>2. req' \in Requests
    <3>1. req' = req \/ req' = [req EXCEPT !.turn = my[h].turn]
      BY <1>26 DEF AdvanceRequest
    <3>2. my[h].turn \in Nat
      BY <1>0 DEF Locals
    <3>3. QED
      BY <1>0, <3>1, <3>2 DEF Requests
  <2>3. QED
    BY <1>26, <2>1, <2>2 DEF TypeOK, AdvanceRequest, files, procs, callers,
         server
<1>28. ASSUME NEW h \in Hosts, PollGivesUp(h) PROVE TypeOK'
  <2>1. pc' \in [Hosts -> PCs]
    BY <1>28, HoldConstants DEF TypeOK, PollGivesUp, Goto, PCs
  <2>2. my' \in [Hosts -> Locals]
    <3> DEFINE matches == ControlMatches(h)
               kind == IF matches THEN ReadBack(h) ELSE "unknown"
    <3>1. my' = [my EXCEPT ![h] =
                   [my[h] EXCEPT !.sel = my[h].sel \/ matches,
                                 !.fail = kind]]
      BY <1>28 DEF PollGivesUp
    <3>2. matches \in BOOLEAN
      BY DEF ControlMatches
    <3>3. kind \in {"error", "unknown", "readback"}
      BY DEF ReadBack
    <3> HIDE DEF matches, kind
    <3>4. [my[h] EXCEPT !.sel = my[h].sel \/ matches,
                        !.fail = kind] \in Locals
      BY <1>0, <3>2, <3>3, ZenonT(60) DEF Locals
    <3>5. QED
      BY <1>0, <3>1, <3>4
  <2>3. QED
    BY <1>28, <2>1, <2>2 DEF TypeOK, PollGivesUp, files, procs, callers,
         server
<1>29. ASSUME NEW h \in Hosts, PollInterrupt(h) PROVE TypeOK'
  <2>1. ack' \in Acks
    BY <1>29, HoldConstants DEF TypeOK, PollInterrupt, Running,
         ControlPending, ControlTurn, ControlMatches, Acks, Requests,
         Locals, Phases, Statuses, Modes, Rids
  <2>2. my' \in [Hosts -> Locals]
    <3>1. my' = [my EXCEPT ![h] =
                   [@ EXCEPT !.sel = TRUE, !.latched = TRUE]]
      BY <1>29 DEF PollInterrupt
    <3>2. [my[h] EXCEPT !.sel = TRUE, !.latched = TRUE] \in Locals
      BY <1>0, ZenonT(60) DEF Locals
    <3>3. QED
      BY <1>0, <3>1, <3>2
  <2>3. QED
    BY <1>29, <2>1, <2>2 DEF TypeOK, PollInterrupt, files, procs, callers,
         server
<1>30. ASSUME NEW h \in Hosts, Observe(h) PROVE TypeOK'
  <2>1. /\ my' \in [Hosts -> Locals]
        /\ pc' \in [Hosts -> PCs]
        /\ rlock' \in Procs \cup {Nobody}
    <3>1. \/ Fail(h, "error")
          \/ rlock' = rlock /\ Goto(h, "decided")
             /\ \E d \in Decisions(h) :
                  my' = [my EXCEPT ![h] = [@ EXCEPT !.dec = d, !.conf = TRUE]]
      BY <1>30 DEF Observe
    <3>2. Decisions(h) \subseteq Statuses \cup {"CONTINUE"}
      BY DEF Decisions, Statuses
    <3>3. \A d \in Decisions(h) :
            [my[h] EXCEPT !.dec = d, !.conf = TRUE] \in Locals
      BY <1>0, <3>2, ZenonT(60) DEF Locals
    <3>4. CASE Fail(h, "error")
      BY <3>4, FailTyped
    <3>5. ASSUME NEW d \in Decisions(h),
                 my' = [my EXCEPT ![h] = [@ EXCEPT !.dec = d, !.conf = TRUE]]
          PROVE  my' \in [Hosts -> Locals]
      <4>1. [my[h] EXCEPT !.dec = d, !.conf = TRUE] \in Locals
        BY <3>3, <3>5
      <4>2. my' = [my EXCEPT ![h] = [my[h] EXCEPT !.dec = d, !.conf = TRUE]]
        BY <3>5
      <4>3. QED
        BY <1>0, <4>1, <4>2
    <3>6. my' \in [Hosts -> Locals]
      BY <3>1, <3>4, <3>5
    <3>7. QED
      BY <3>1, <3>6, FailTyped DEF TypeOK, Goto, PCs, Procs, Unlocked
  <2>2. QED
    BY <1>30, <2>1 DEF TypeOK, Observe, files, procs, callers, server
<1>31. ASSUME NEW h \in Hosts, LockRecord(h) PROVE TypeOK'
  <2>1. /\ my' \in [Hosts -> Locals]
        /\ pc' \in [Hosts -> PCs]
        /\ rlock' \in Procs \cup {Nobody}
    <3>1. \/ Fail(h, "error")
          \/ rlock' = h /\ my' = my /\ Goto(h, "recording")
      BY <1>31 DEF LockRecord
    <3>2. my' \in [Hosts -> Locals]
      BY <1>0, FailTyped, <3>1 DEF Locals
    <3>3. QED
      BY <3>1, <3>2, FailTyped DEF TypeOK, Goto, PCs, Procs, Unlocked
  <2>2. QED
    BY <1>31, <2>1 DEF TypeOK, LockRecord, files, procs, callers, server
<1>32. ASSUME NEW h \in Hosts, Record(h) PROVE TypeOK'
  <2>1. /\ my' \in [Hosts -> Locals]
        /\ pc' \in [Hosts -> PCs]
        /\ rlock' \in Procs \cup {Nobody}
    <3>1. \/ Fail(h, "error")
          \/ rlock' = rlock /\ Goto(h, "recorded")
             /\ my' = [my EXCEPT ![h].dec = FinalDecision(h)]
      BY <1>32 DEF Record
    <3>2. FinalDecision(h) \in Statuses \cup {"none", "CONTINUE"}
      BY <1>0 DEF FinalDecision, Locals, Statuses
    <3>3. my' \in [Hosts -> Locals]
      BY <1>0, FailTyped, <3>1, <3>2 DEF Locals
    <3>4. QED
      BY <3>1, <3>3, FailTyped DEF TypeOK, Goto, PCs, Procs, Unlocked
  <2>2. history' \subseteq TurnIds
    BY <1>32, HoldConstants DEF TypeOK, Record, Running, Fail, Goto,
         Unlocked, FinalDecision, StopRequested, HistoryWith, TurnIds,
         LockDiscipline, DecisionOK, HistoryWith
  <2>3. QED
    BY <1>32, <2>1, <2>2 DEF TypeOK, Record, files, procs, callers, server
<1>33. ASSUME NEW h \in Hosts, DecisionAck(h) PROVE TypeOK'
  <2>1. ack' \in Acks
    BY <1>33, HoldConstants DEF TypeOK, DecisionAck, Running, Continues,
         Goto, Unlocked, Acks, Locals, Phases, Statuses, Modes, Rids
  <2>2. rlock' \in Procs \cup {Nobody}
    BY <1>33, HoldConstants DEF TypeOK, DecisionAck, Running, Continues,
         Goto, Unlocked, Procs
  <2>3. pc' \in [Hosts -> PCs]
    BY <1>33, HoldConstants DEF TypeOK, DecisionAck, Running, Continues,
         Goto, Unlocked, PCs
  <2>4. my' \in [Hosts -> Locals]
    <3>1. \/ my' = my
          \/ my' = [my EXCEPT ![h] = [@ EXCEPT !.conf = FALSE, !.turn = 0,
                                               !.notSent = TRUE]]
      BY <1>33 DEF DecisionAck
    <3>2. [my[h] EXCEPT !.conf = FALSE, !.turn = 0, !.notSent = TRUE]
            \in Locals
      BY <1>0, ZenonT(60) DEF Locals
    <3>3. QED
      BY <1>0, <3>1, <3>2
  <2>5. QED
    BY <1>33, <2>1, <2>2, <2>3, <2>4 DEF TypeOK, DecisionAck, files, procs,
         callers, server
<1>34. ASSUME NEW h \in Hosts, WriteResult(h) PROVE TypeOK'
  <2>1. res' \in Results \cup {NoResult}
    BY <1>34, HoldConstants DEF TypeOK, WriteResult, Running, Goto, Results,
         Locals, Statuses, Modes, Rids, TurnIds, LockDiscipline, DecisionOK
  <2>2. pc' \in [Hosts -> PCs]
    BY <1>34, HoldConstants DEF TypeOK, WriteResult, Running, Goto, PCs
  <2>3. QED
    BY <1>34, <2>1, <2>2 DEF TypeOK, WriteResult, files, procs, callers,
         server
<1>35. ASSUME NEW h \in Hosts, WriteFailure(h) PROVE TypeOK'
  <2>1. res' \in Results \cup {NoResult}
    BY <1>35, HoldConstants DEF TypeOK, WriteFailure, Running, Goto,
         Results, Locals, Turns, Statuses, Modes, Rids, TurnIds
  <2>2. pc' \in [Hosts -> PCs]
    BY <1>35, HoldConstants DEF TypeOK, WriteFailure, Running, Goto, PCs
  <2>3. QED
    BY <1>35, <2>1, <2>2 DEF TypeOK, WriteFailure, files, procs, callers,
         server
<1>36. ASSUME NEW h \in Hosts, FailAck(h) PROVE TypeOK'
  <2>1. ack' \in Acks
    BY <1>36, HoldConstants DEF TypeOK, FailAck, Running, EndedAck, Goto,
         Acks, Locals, Phases, Statuses, Modes, Rids
  <2>2. pc' \in [Hosts -> PCs]
    BY <1>36, HoldConstants DEF TypeOK, FailAck, Running, EndedAck, Goto,
         PCs
  <2>3. QED
    BY <1>36, <2>1, <2>2 DEF TypeOK, FailAck, files, procs, callers, server
<1>37. ASSUME NEW h \in Hosts, HolderExit(h) PROVE TypeOK'
  <2>1. res' \in Results \cup {NoResult}
    BY <1>37, HolderExitTyped
  <2>2. close' \in Closes
    BY <1>37, HolderExitTyped
  <2>3. pc' \in [Hosts -> PCs]
    BY <1>37, HoldConstants DEF TypeOK, HolderExit, Running, RefreshedClose,
         NotDispatched, Goto, PCs
  <2>4. QED
    BY <1>37, <2>1, <2>2, <2>3 DEF TypeOK, HolderExit, files, procs,
         callers, server
<1>38. ASSUME NEW h \in Hosts, HostFinally(h) PROVE TypeOK'
  <2>1. ack' \in Acks
    BY <1>38, HoldConstants DEF TypeOK, HostFinally, Running, OwnerProof,
         EndedAck, Goto, Acks, Results, Locals, Phases, Statuses, Modes,
         Rids
  <2>2. res' \in Results \cup {NoResult}
    BY <1>38, HostFinallyTyped
  <2>3. pc' \in [Hosts -> PCs]
    BY <1>38, HoldConstants DEF TypeOK, HostFinally, Running, OwnerProof,
         EndedAck, Goto, PCs
  <2>4. QED
    BY <1>38, <2>1, <2>2, <2>3 DEF TypeOK, HostFinally, files, procs,
         callers, server
<1>39. ASSUME NEW h \in Hosts, HostReport(h) PROVE TypeOK'
  <2>1. close' \in Closes
    <3>1. CASE res = NoResult
      BY <1>39, <3>1 DEF TypeOK, HostReport
    <3>2. CASE res # NoResult
      <4>1. res \in Results
        BY <3>2 DEF TypeOK
      <4>2. (res.conf /\ ~claim.dir) \in BOOLEAN
        OBVIOUS
      <4>3. close' = RefreshedClose(res, res.conf /\ ~claim.dir)
        BY <1>39, <3>2 DEF HostReport
      <4>4. QED
        BY <4>1, <4>2, <4>3, RefreshedCloseTyped
    <3>3. QED
      BY <3>1, <3>2
  <2>2. pc' \in [Hosts -> PCs]
    BY <1>39, ScanEndsTyped DEF HostReport
  <2>3. scan' \in [Hosts -> Scans]
    BY <1>39, ScanEndsTyped DEF TypeOK, HostReport
  <2>4. my' \in [Hosts -> Locals]
    <3>1. NoLocals \in Locals
      BY HoldConstants, SMTT(30) DEF NoLocals, Locals, Rids, Modes
    <3>2. my' = [my EXCEPT ![h] = NoLocals]
      BY <1>39 DEF HostReport
    <3>3. QED
      BY <1>0, <3>1, <3>2
  <2>5. told' \in [Hosts -> SUBSET TurnIds]
    BY <1>39, HoldConstants DEF TypeOK, HostReport, Running, RefreshedClose,
         NotDispatched, NoLocals, ScanEnds, Goto, NoScan, FirstRequest,
         FirstAck, TurnIds
  <2>6. QED
    BY <1>39, <2>1, <2>2, <2>3, <2>4, <2>5 DEF TypeOK, HostReport, files,
         procs, callers, server
<1>40. ASSUME NEW h \in Hosts, StartFails(h) PROVE TypeOK'
  <2>1. /\ my' \in [Hosts -> Locals]
        /\ pc' \in [Hosts -> PCs]
        /\ rlock' \in Procs \cup {Nobody}
    BY <1>40, FailTyped DEF StartFails
  <2>2. QED
    BY <1>40, <2>1 DEF TypeOK, StartFails, files, procs, callers, server
<1>41. ASSUME NEW h \in Hosts, StartTurnFails(h) PROVE TypeOK'
  <2>1. /\ my' \in [Hosts -> Locals]
        /\ pc' \in [Hosts -> PCs]
        /\ rlock' \in Procs \cup {Nobody}
    BY <1>41, FailTyped DEF StartTurnFails
  <2>2. QED
    BY <1>41, <2>1 DEF TypeOK, StartTurnFails, files, procs, callers, server
<1>42. ASSUME NEW h \in Hosts, PollTimeout(h) PROVE TypeOK'
  <2>1. /\ my' \in [Hosts -> Locals]
        /\ pc' \in [Hosts -> PCs]
        /\ rlock' \in Procs \cup {Nobody}
    BY <1>42, FailTyped DEF PollTimeout
  <2>2. QED
    BY <1>42, <2>1 DEF TypeOK, PollTimeout, files, procs, callers, server
<1>43. ASSUME NEW h \in Hosts, HoldFails(h) PROVE TypeOK'
  <2>1. /\ my' \in [Hosts -> Locals]
        /\ pc' \in [Hosts -> PCs]
        /\ rlock' \in Procs \cup {Nobody}
    BY <1>43, FailTyped DEF HoldFails
  <2>2. QED
    BY <1>43, <2>1 DEF TypeOK, HoldFails, files, procs, callers, server
<1>44. ASSUME NEW h \in Hosts, Crash(h) PROVE TypeOK'
  <2>1. pc' \in [Hosts -> PCs]
    BY <1>44, HoldConstants DEF TypeOK, Crash, NoLocals, ScanEnds, Goto,
         NoScan, FirstRequest, FirstAck, PCs
  <2>2. scan' \in [Hosts -> Scans]
    BY <1>44, ScanEndsTyped DEF TypeOK, Crash
  <2>3. my' \in [Hosts -> Locals]
    BY <1>44, HoldConstants DEF TypeOK, Crash, NoLocals, ScanEnds, Goto,
         NoScan, FirstRequest, FirstAck, Locals, Requests, Acks, Scans,
         Phases, Statuses, Modes, Rids, TurnIds
  <2>4. alive' \in [Hosts -> BOOLEAN]
    BY <1>44, HoldConstants DEF TypeOK, Crash, NoLocals, ScanEnds, Goto,
         NoScan, FirstRequest, FirstAck
  <2>5. crashed' \subseteq Hosts
    BY <1>44, HoldConstants DEF TypeOK, Crash, NoLocals, ScanEnds, Goto,
         NoScan, FirstRequest, FirstAck
  <2>6. told' \in [Hosts -> SUBSET TurnIds]
    BY <1>44, HoldConstants DEF TypeOK, Crash, NoLocals, ScanEnds, Goto,
         NoScan, FirstRequest, FirstAck, TurnIds
  <2>7. QED
    BY <1>44, <2>1, <2>2, <2>3, <2>4, <2>5, <2>6 DEF TypeOK, Crash, files,
         procs, callers, server
<1>45. ASSUME RequestHoldStop PROVE TypeOK'
  <2>1. req' \in Requests
    BY <1>45, HoldConstants DEF TypeOK, RequestHoldStop, CanLock, Unlocked,
         Requests, Modes, Rids
  <2>2. rlock' \in Procs \cup {Nobody}
    BY <1>45, HoldConstants DEF TypeOK, RequestHoldStop, CanLock, Unlocked,
         Procs
  <2>3. QED
    BY <1>45, <2>1, <2>2 DEF TypeOK, RequestHoldStop, files, procs, callers,
         server
<1>46. ASSUME CloseBind PROVE TypeOK'
  <2>1. close' \in Closes
    BY <1>46, HoldConstants DEF TypeOK, CloseBind, Closes, Requests, Modes,
         Rids
  <2>2. closer' \in Closers
    BY <1>46 DEF TypeOK, CloseBind, Closers, Requests
  <2>3. QED
    BY <1>46, <2>1, <2>2 DEF TypeOK, CloseBind, files, procs, callers,
         server
<1>47. ASSUME CloseInspect PROVE TypeOK'
  <2>1. rlock' \in Procs \cup {Nobody}
    BY <1>47, HoldConstants DEF TypeOK, CloseInspect, CanLock, Unlocked,
         Procs
  <2>2. closer' \in Closers
    BY <1>47 DEF TypeOK, CloseInspect, Closers
  <2>3. QED
    BY <1>47, <2>1, <2>2 DEF TypeOK, CloseInspect, files, procs, callers,
         server
<1>48. ASSUME CloseLatch PROVE TypeOK'
  <2>1. req' \in Requests
    BY <1>48 DEF TypeOK, CloseLatch, Closers, Requests
  <2>2. rlock' \in Procs \cup {Nobody}
    BY <1>48, HoldConstants DEF TypeOK, CloseLatch, Unlocked, Procs
  <2>3. closer' \in Closers
    BY <1>48, FirstRequestTyped DEF TypeOK, CloseLatch, Closers
  <2>4. QED
    BY <1>48, <2>1, <2>2, <2>3 DEF TypeOK, CloseLatch, files, procs,
         callers, server
<1>49. ASSUME CloseCancel PROVE TypeOK'
  <2>1. req' \in Requests
    BY <1>49 DEF TypeOK, CloseCancel, Closers, Requests
  <2>2. ack' \in Acks
    BY <1>49 DEF TypeOK, CloseCancel, EndedAck, Closers, Requests, Acks, Phases
  <2>3. res' \in Results \cup {NoResult}
    BY <1>49 DEF TypeOK, CloseCancel, Cancelled, Closers, Requests, Results, Statuses
  <2>4. rlock' \in Procs \cup {Nobody}
    BY <1>49, HoldConstants DEF TypeOK, CloseCancel, Cancelled, EndedAck,
         Unlocked, Procs
  <2>5. closer' \in Closers
    BY <1>49, FirstRequestTyped DEF TypeOK, CloseCancel, Closers
  <2>6. QED
    BY <1>49, <2>1, <2>2, <2>3, <2>4, <2>5 DEF TypeOK, CloseCancel, files,
         procs, callers, server
<1>50. ASSUME CloseReport PROVE TypeOK'
  <2>1. close' \in Closes
    BY <1>50, HoldConstants DEF TypeOK, CloseReport, RefreshedClose,
         NotDispatched, Released, Closes, Requests, Results, Claims,
         Statuses, Modes, Rids
  <2>2. closer' \in Closers
    BY <1>50 DEF TypeOK, CloseReport, Closers
  <2>3. QED
    BY <1>50, <2>1, <2>2 DEF TypeOK, CloseReport, files, procs, callers,
         server
<1>51. ASSUME RequestHostStop PROVE TypeOK'
  <2>1. req' \in Requests
    BY <1>51, HoldConstants DEF TypeOK, RequestHostStop, CanLock, Unlocked,
         Requests, Acks, Results, Claims, Phases, Statuses, Modes, Rids
  <2>2. rlock' \in Procs \cup {Nobody}
    BY <1>51, HoldConstants DEF TypeOK, RequestHostStop, CanLock, Unlocked,
         Procs
  <2>3. QED
    BY <1>51, <2>1, <2>2 DEF TypeOK, RequestHostStop, files, procs, callers,
         server
<1>52. ASSUME ReconcileHold PROVE TypeOK'
  <2>1. ack' \in Acks
    BY <1>52, HoldConstants DEF TypeOK, ReconcileHold, Inactive, CanLock,
         Unlocked, EndedAck, Acks, Requests, Results, Claims, Turns, Phases,
         Statuses, Modes, Rids
  <2>2. res' \in Results \cup {NoResult}
    BY <1>52, HoldConstants DEF TypeOK, ReconcileHold, Inactive, CanLock,
         Unlocked, EndedAck, Results, Requests, Acks, Claims, Turns, Phases,
         Statuses, Modes, Rids, TurnIds
  <2>3. claim' \in Claims
    BY <1>52, HoldConstants DEF TypeOK, ReconcileHold, Inactive, CanLock,
         Unlocked, EndedAck, Claims, Requests, Acks, Results, Turns, Phases,
         Statuses, Modes, Rids
  <2>4. rlock' \in Procs \cup {Nobody}
    BY <1>52, HoldConstants DEF TypeOK, ReconcileHold, Inactive, CanLock,
         Unlocked, EndedAck, Procs
  <2>5. QED
    BY <1>52, <2>1, <2>2, <2>3, <2>4 DEF TypeOK, ReconcileHold, files,
         procs, callers, server
<1>53. ASSUME ResumeCheck PROVE TypeOK'
  <2>1. resumer' \in Resumers
    BY <1>53 DEF TypeOK, ResumeCheck, Resumers
  <2>2. QED
    BY <1>53, <2>1 DEF TypeOK, ResumeCheck, files, procs, callers, server
<1>54. ASSUME ResumeArchive PROVE TypeOK'
  <2>1. res' \in Results \cup {NoResult}
    BY <1>54, HoldConstants DEF TypeOK, ResumeArchive, Results, Statuses,
         Rids, TurnIds
  <2>2. resumer' \in Resumers
    BY <1>54 DEF TypeOK, ResumeArchive, Resumers
  <2>3. QED
    BY <1>54, <2>1, <2>2 DEF TypeOK, ResumeArchive, files, procs, callers,
         server
<1>55. ASSUME ResumeRequest PROVE TypeOK'
  <2>1. req' \in Requests
    BY <1>55, HoldConstants DEF TypeOK, ResumeRequest, Resumers, Requests, Modes, Rids, LockDiscipline, ResumerOK
  <2>2. resumer' \in Resumers
    BY <1>55, HoldConstants DEF TypeOK, ResumeRequest, Resumers, Rids, LockDiscipline, ResumerOK
  <2>3. QED
    BY <1>55, <2>1, <2>2 DEF TypeOK, ResumeRequest, files, procs, callers,
         server
<1>56. ASSUME ResumeAck PROVE TypeOK'
  <2>1. ack' \in Acks
    BY <1>56 DEF TypeOK, ResumeAck, Resumers, Acks, Phases
  <2>2. resumer' \in Resumers
    BY <1>56 DEF TypeOK, ResumeAck, Resumers
  <2>3. QED
    BY <1>56, <2>1, <2>2 DEF TypeOK, ResumeAck, files, procs, callers,
         server
<1>57. ASSUME NEW t \in TurnIds, NEW st \in {"completed", "interrupted"},
             TurnEnds(t, st)
      PROVE TypeOK'
  <2>1. turns' \in [TurnIds -> Turns]
    <3>1. turns \in [TurnIds -> Turns]
      BY DEF TypeOK
    <3>2. turns' = [turns EXCEPT ![t].st = st]
      BY <1>57 DEF TurnEnds
    <3>3. QED
      BY <1>57, <3>1, <3>2 DEF Turns
  <2>2. told' \in [Hosts -> SUBSET TurnIds]
    BY <1>57, HoldConstants DEF TypeOK, TurnEnds, ClientPCs, TurnIds
  <2>3. QED
    BY <1>57, <2>1, <2>2 DEF TypeOK, TurnEnds, files, procs, callers, server
<1>58. ASSUME ReconcileUndispatched PROVE TypeOK'
  <2>1. res' \in Results \cup {NoResult}
    BY <1>58 DEF TypeOK, ReconcileUndispatched, Results
  <2>2. QED
    BY <1>58, <2>1 DEF TypeOK, ReconcileUndispatched, procs, callers, server
<1>59. ASSUME UNCHANGED vars PROVE TypeOK'
  BY <1>59 DEF TypeOK, vars
<1>60. QED
  BY <1>1, <1>2, <1>3, <1>4, <1>5, <1>6, <1>7, <1>8, <1>9, <1>10, <1>11,
       <1>12, <1>13, <1>14, <1>15, <1>16, <1>17, <1>18, <1>19, <1>20, <1>21,
       <1>22, <1>23, <1>24, <1>25, <1>26, <1>28, <1>29, <1>30, <1>31,
       <1>32, <1>33, <1>34, <1>35, <1>36, <1>37, <1>38, <1>39, <1>40, <1>41,
       <1>42, <1>43, <1>44, <1>45, <1>46, <1>47, <1>48, <1>49, <1>50, <1>51,
       <1>52, <1>53, <1>54, <1>55, <1>56, <1>57, <1>58, <1>59 DEF Next, HostNext,
       HostFault, CallerNext

-----------------------------------------------------------------------------
(* One step keeps the lock discipline                                      *)

\* close_hold takes the lock only when no Host is in a section under it.
LEMMA CloseInspectDisciplined ==
    ASSUME TypeOK, LockDiscipline, CloseInspect
    PROVE  LockDiscipline'
<1>1. closer'.pc \in {"cancel", "latch"} => rlock' = Closer
  BY DEF CloseInspect, TypeOK, Closers
<1>2. \A h \in Hosts : /\ pc[h] \notin LockedPCs
                       /\ ~(pc[h] = "started" /\ my[h].dec = "CONTINUE")
  BY HoldConstants DEF CloseInspect, CanLock, LockDiscipline, LockOK,
       LockedPCs
<1>3. QED
  BY <1>1, <1>2 DEF CloseInspect, LockDiscipline, DecisionOK, ResumerOK,
       LockOK, StopOK, LockedPCs, procs

\* A requeue keeps the request id, and its stop cannot meet a dispatch.
LEMMA RequeueRequestDisciplined ==
    ASSUME TypeOK, LockDiscipline, NEW h \in Hosts, RequeueRequest(h)
    PROVE  LockDiscipline'
<1>1. my \in [Hosts -> Locals] /\ pc \in [Hosts -> PCs]
  BY DEF TypeOK
<1>2. pc[h] = "requeueing" /\ rlock = h /\ alive[h] /\ my' = my /\ alive' = alive /\ closer' = closer /\ resumer' = resumer
  BY DEF RequeueRequest, Running, LockDiscipline, LockOK, LockedPCs,
       callers, procs
<1>3. \A g \in Hosts : g # h => pc[g] \notin LockedPCs /\ pc'[g] = pc[g]
  BY <1>1, <1>2 DEF RequeueRequest, LockDiscipline, LockOK, ScanEnds, Goto
<1>4. closer.pc \notin {"cancel", "latch"}
  BY <1>2, HoldConstants DEF LockDiscipline, LockOK
<1>5. \/ pc'[h] = "requeueAck" /\ rlock' = h
      \/ pc'[h] = "idle"
  BY <1>1, <1>2 DEF RequeueRequest, ScanEnds, Goto
<1>6. req'.rid = req.rid
  BY DEF RequeueRequest, TypeOK, Scans, Requests
<1>7. DecisionOK' /\ ResumerOK' /\ StopOK'
  BY <1>2, <1>3, <1>5, <1>6 DEF LockDiscipline, DecisionOK, ResumerOK,
       StopOK, LockedPCs
<1>8. LockOK'
  BY <1>1, <1>2, <1>3, <1>4, <1>5 DEF LockDiscipline, LockOK, LockedPCs
<1>9. QED
  BY <1>7, <1>8 DEF LockDiscipline

\* Advancing a recovery binding keeps the request id and its stop.
LEMMA AdvanceRequestDisciplined ==
    ASSUME TypeOK, LockDiscipline, NEW h \in Hosts, AdvanceRequest(h)
    PROVE  LockDiscipline'
<1>1. my \in [Hosts -> Locals] /\ pc \in [Hosts -> PCs] /\ req \in Requests
  BY DEF TypeOK
<1>2. req'.rid = req.rid /\ req'.stop = req.stop
  BY <1>1 DEF AdvanceRequest, Requests
<1>3. QED
  BY <1>1, <1>2, HoldConstants DEF AdvanceRequest, Running, Fail, Goto,
       Unlocked, LockDiscipline, DecisionOK, ResumerOK, LockOK, StopOK,
       LockedPCs, procs, callers


\* A holder decides on a turn it was told about.
LEMMA ObserveDisciplined ==
    ASSUME TypeOK, LockDiscipline, NEW h \in Hosts, Observe(h)
    PROVE  LockDiscipline'
<1>1. my \in [Hosts -> Locals] /\ pc \in [Hosts -> PCs] /\ my[h] \in Locals
  BY DEF TypeOK
<1>2. my[h].turn \in TurnIds
  BY DEF Observe, TypeOK
<1>3. ASSUME NEW d \in Decisions(h) PROVE d # "none"
  BY <1>3 DEF Decisions
<1>4. CASE Fail(h, "error")
  BY <1>1, <1>4, HoldConstants DEF Observe, Running, Fail, Goto, Unlocked,
       LockDiscipline, DecisionOK, ResumerOK, LockOK, StopOK, LockedPCs,
       files, procs, callers
<1>5. CASE ~Fail(h, "error")
  <2>1. PICK d \in Decisions(h) : my' = [my EXCEPT ![h] = [@ EXCEPT !.dec = d, !.conf = TRUE]]
    BY <1>5 DEF Observe
  <2>2. my'[h].dec = d /\ my'[h].turn = my[h].turn
    BY <1>1, <2>1 DEF Locals
  <2>3. pc' = [pc EXCEPT ![h] = "decided"] /\ pc[h] = "observing"
    BY <1>5 DEF Observe, Goto, Running
  <2>4. \A g \in Hosts : g # h => my'[g] = my[g] /\ pc'[g] = pc[g]
    BY <1>1, <2>1, <2>3
  <2>5. /\ req' = req /\ rlock' = rlock /\ alive' = alive
        /\ closer' = closer /\ resumer' = resumer
    BY <1>5 DEF Observe, files, procs, callers
  <2>6. DecisionOK'
    BY <1>1, <1>2, <1>3, <2>2, <2>3, <2>4 DEF LockDiscipline, DecisionOK
  <2>7. ResumerOK' /\ LockOK' /\ StopOK'
    BY <1>1, <2>3, <2>4, <2>5 DEF LockDiscipline, ResumerOK, LockOK, StopOK,
         LockedPCs
  <2>8. QED
    BY <2>6, <2>7 DEF LockDiscipline
<1>6. QED
  BY <1>4, <1>5


\* A decision that is still CONTINUE met no stop.
LEMMA RecordDisciplined ==
    ASSUME TypeOK, LockDiscipline, NEW h \in Hosts, Record(h)
    PROVE  LockDiscipline'
<1>1. my \in [Hosts -> Locals] /\ pc \in [Hosts -> PCs] /\ my[h] \in Locals
  BY DEF TypeOK
<1>2. CASE Fail(h, "error")
  BY <1>1, <1>2, HoldConstants DEF Record, Running, Fail, Goto, Unlocked,
       LockDiscipline, DecisionOK, ResumerOK, LockOK, StopOK, LockedPCs,
       procs, callers
<1>3. CASE ~Fail(h, "error")
  <2>1. my' = [my EXCEPT ![h].dec = FinalDecision(h)] /\ pc' = [pc EXCEPT ![h] = "recorded"] /\ pc[h] = "recording" /\ rlock' = rlock
    BY <1>3 DEF Record, Goto, Running
  <2>2. my'[h].dec = FinalDecision(h)
    BY <1>1, <2>1 DEF Locals
  <2>3. FinalDecision(h) # "none" /\ (FinalDecision(h) = "CONTINUE" => ~req.stop)
    BY <2>1 DEF FinalDecision, StopRequested, LockDiscipline, DecisionOK
  <2>4. \A g \in Hosts : g # h => my'[g] = my[g] /\ pc'[g] = pc[g]
    BY <1>1, <2>1
  <2>5. QED
    BY <1>1, <2>1, <2>2, <2>3, <2>4 DEF Record, Running, LockDiscipline,
         DecisionOK, ResumerOK, LockOK, StopOK, LockedPCs, procs, callers
<1>4. QED
  BY <1>2, <1>3

\* Every action keeps the lock discipline.
LEMMA DisciplineStep ==
    TypeOK /\ LockDiscipline /\ [Next]_vars => LockDiscipline'
<1> SUFFICES ASSUME TypeOK, LockDiscipline, [Next]_vars
             PROVE  LockDiscipline'
  OBVIOUS
<1>0. /\ my \in [Hosts -> Locals] /\ pc \in [Hosts -> PCs]
      /\ alive \in [Hosts -> BOOLEAN]
  BY DEF TypeOK
<1>1. ASSUME NEW h \in Hosts, StartHost(h) PROVE LockDiscipline'
  BY <1>0, <1>1, HoldConstants DEF LockDiscipline, DecisionOK, ResumerOK,
       LockOK, StopOK, LockedPCs, files, procs, callers, server, StartHost
<1>2. ASSUME NEW h \in Hosts, ReadRequest(h) PROVE LockDiscipline'
  BY <1>0, <1>2, HoldConstants DEF LockDiscipline, DecisionOK, ResumerOK,
       LockOK, StopOK, LockedPCs, files, procs, callers, server,
       ReadRequest, Running, Goto
<1>3. ASSUME NEW h \in Hosts, ReadAck(h) PROVE LockDiscipline'
  BY <1>0, <1>3, HoldConstants DEF LockDiscipline, DecisionOK, ResumerOK,
       LockOK, StopOK, LockedPCs, files, procs, callers, server, ReadAck,
       Running, Goto, ScanEnds
<1>4. ASSUME NEW h \in Hosts, ClaimMkdir(h) PROVE LockDiscipline'
  BY <1>0, <1>4, HoldConstants DEF LockDiscipline, DecisionOK, ResumerOK,
       LockOK, StopOK, LockedPCs, files, procs, callers, server, ClaimMkdir,
       Running, Goto
<1>5. ASSUME NEW h \in Hosts, ClaimOwner(h) PROVE LockDiscipline'
  BY <1>0, <1>5, HoldConstants DEF LockDiscipline, DecisionOK, ResumerOK,
       LockOK, StopOK, LockedPCs, files, procs, callers, server, ClaimOwner,
       Running, Goto
<1>6. ASSUME NEW h \in Hosts, ClaimRecheck(h) PROVE LockDiscipline'
  BY <1>0, <1>6, HoldConstants DEF LockDiscipline, DecisionOK, ResumerOK,
       LockOK, StopOK, LockedPCs, files, procs, callers, server,
       ClaimRecheck, Running, Goto
<1>7. ASSUME NEW h \in Hosts, ClaimAck(h) PROVE LockDiscipline'
  BY <1>0, <1>7, HoldConstants DEF LockDiscipline, DecisionOK, ResumerOK,
       LockOK, StopOK, LockedPCs, files, procs, callers, server, ClaimAck,
       Running, Goto
<1>8. ASSUME NEW h \in Hosts, RequeueDeadClaim(h) PROVE LockDiscipline'
  BY <1>0, <1>8, HoldConstants DEF LockDiscipline, DecisionOK, ResumerOK,
       LockOK, StopOK, LockedPCs, files, procs, callers, server,
       RequeueDeadClaim, Running, Goto, ScanEnds
<1>9. ASSUME NEW h \in Hosts, RecoveryFailed(h) PROVE LockDiscipline'
  BY <1>0, <1>9, HoldConstants DEF LockDiscipline, DecisionOK, ResumerOK,
       LockOK, StopOK, LockedPCs, files, procs, callers, server,
       RecoveryFailed, Running, Goto
<1>10. ASSUME NEW h \in Hosts, RequeueLock(h) PROVE LockDiscipline'
  BY <1>0, <1>10, HoldConstants DEF LockDiscipline, DecisionOK, ResumerOK,
       LockOK, StopOK, LockedPCs, files, procs, callers, server,
       RequeueLock, Running, CanLock, Unlocked, Goto, ScanEnds
<1>11. ASSUME NEW h \in Hosts, RequeueRequest(h) PROVE LockDiscipline'
  BY <1>11, RequeueRequestDisciplined
<1>12. ASSUME NEW h \in Hosts, RequeueAck(h) PROVE LockDiscipline'
  BY <1>0, <1>12, HoldConstants DEF LockDiscipline, DecisionOK, ResumerOK,
       LockOK, StopOK, LockedPCs, files, procs, callers, server, RequeueAck,
       Running, Goto
<1>13. ASSUME NEW h \in Hosts, ReleaseOwner(h) PROVE LockDiscipline'
  BY <1>0, <1>13, HoldConstants DEF LockDiscipline, DecisionOK, ResumerOK,
       LockOK, StopOK, LockedPCs, files, procs, callers, server,
       ReleaseOwner, Running, Goto
<1>14. ASSUME NEW h \in Hosts, ReleaseDir(h) PROVE LockDiscipline'
  BY <1>0, <1>14, HoldConstants DEF LockDiscipline, DecisionOK, ResumerOK,
       LockOK, StopOK, LockedPCs, files, procs, callers, server, ReleaseDir,
       Running, Unlocked, Goto, ScanEnds
<1>15. ASSUME NEW h \in Hosts, HoldStarted(h) PROVE LockDiscipline'
  BY <1>0, <1>15, HoldConstants DEF LockDiscipline, DecisionOK, ResumerOK,
       LockOK, StopOK, LockedPCs, files, procs, callers, server,
       HoldStarted, Running, Goto
<1>16. ASSUME NEW h \in Hosts, LockStart(h) PROVE LockDiscipline'
  BY <1>0, <1>16, HoldConstants DEF LockDiscipline, DecisionOK, ResumerOK,
       LockOK, StopOK, LockedPCs, files, procs, callers, server, LockStart,
       Running, CanLock, Unlocked, Goto, Fail
<1>17. ASSUME NEW h \in Hosts, StopBeforeDispatch(h) PROVE LockDiscipline'
  BY <1>0, <1>17, HoldConstants DEF LockDiscipline, DecisionOK, ResumerOK,
       LockOK, StopOK, LockedPCs, files, procs, callers, server,
       StopBeforeDispatch, Running, StopRequested, Goto
<1>18. ASSUME NEW h \in Hosts, CancelAck(h) PROVE LockDiscipline'
  BY <1>0, <1>18, HoldConstants DEF LockDiscipline, DecisionOK, ResumerOK,
       LockOK, StopOK, LockedPCs, files, procs, callers, server, CancelAck,
       Running, Unlocked, Goto
<1>19. ASSUME NEW h \in Hosts, AttachRecovered(h) PROVE LockDiscipline'
  BY <1>0, <1>19, HoldConstants DEF LockDiscipline, DecisionOK, ResumerOK,
       LockOK, StopOK, LockedPCs, files, procs, callers, server,
       AttachRecovered, Running, Goto, Unlocked
<1>20. ASSUME NEW h \in Hosts, StartThread(h) PROVE LockDiscipline'
  BY <1>0, <1>20, HoldConstants DEF LockDiscipline, DecisionOK, ResumerOK,
       LockOK, StopOK, LockedPCs, files, procs, callers, server,
       StartThread, Running, StopRequested, Goto
<1>21. ASSUME NEW h \in Hosts, ThreadStarted(h) PROVE LockDiscipline'
  BY <1>0, <1>21, HoldConstants DEF LockDiscipline, DecisionOK, ResumerOK,
       LockOK, StopOK, LockedPCs, files, procs, callers, server,
       ThreadStarted, Running, Goto
<1>22. ASSUME NEW h \in Hosts, TurnStarting(h) PROVE LockDiscipline'
  BY <1>0, <1>22, HoldConstants DEF LockDiscipline, DecisionOK, ResumerOK,
       LockOK, StopOK, LockedPCs, files, procs, callers, server,
       TurnStarting, Running, Goto
<1>23. ASSUME NEW h \in Hosts, NEW answered \in BOOLEAN,
             StartTurn(h, answered)
      PROVE LockDiscipline'
  BY <1>0, <1>23, HoldConstants DEF LockDiscipline, DecisionOK, ResumerOK,
       LockOK, StopOK, LockedPCs, files, procs, callers, server, StartTurn,
       Running, Goto, Fail, Unlocked
<1>24. ASSUME NEW h \in Hosts, TurnStarted(h) PROVE LockDiscipline'
  BY <1>0, <1>24, HoldConstants DEF LockDiscipline, DecisionOK, ResumerOK,
       LockOK, StopOK, LockedPCs, files, procs, callers, server,
       TurnStarted, Running, Goto, Unlocked
<1>25. ASSUME NEW h \in Hosts, TurnHolding(h) PROVE LockDiscipline'
  BY <1>0, <1>25, HoldConstants DEF LockDiscipline, DecisionOK, ResumerOK,
       LockOK, StopOK, LockedPCs, files, procs, callers, server,
       TurnHolding, Running, Goto, Unlocked
<1>26. ASSUME NEW h \in Hosts, AdvanceRequest(h) PROVE LockDiscipline'
  BY <1>26, AdvanceRequestDisciplined
<1>28. ASSUME NEW h \in Hosts, PollGivesUp(h) PROVE LockDiscipline'
  BY <1>0, <1>28, HoldConstants DEF LockDiscipline, DecisionOK, ResumerOK,
       LockOK, StopOK, LockedPCs, files, procs, callers, server,
       PollGivesUp, Running, Goto
<1>29. ASSUME NEW h \in Hosts, PollInterrupt(h) PROVE LockDiscipline'
  BY <1>0, <1>29, HoldConstants DEF LockDiscipline, DecisionOK, ResumerOK,
       LockOK, StopOK, LockedPCs, files, procs, callers, server,
       PollInterrupt, Running
<1>30. ASSUME NEW h \in Hosts, Observe(h) PROVE LockDiscipline'
  BY <1>30, ObserveDisciplined
<1>31. ASSUME NEW h \in Hosts, LockRecord(h) PROVE LockDiscipline'
  BY <1>0, <1>31, HoldConstants DEF LockDiscipline, DecisionOK, ResumerOK,
       LockOK, StopOK, LockedPCs, files, procs, callers, server, LockRecord,
       Running, CanLock, Unlocked, Goto, Fail
<1>32. ASSUME NEW h \in Hosts, Record(h) PROVE LockDiscipline'
  BY <1>32, RecordDisciplined
<1>33. ASSUME NEW h \in Hosts, DecisionAck(h) PROVE LockDiscipline'
  BY <1>0, <1>33, HoldConstants DEF LockDiscipline, DecisionOK, ResumerOK,
       LockOK, StopOK, LockedPCs, files, procs, callers, server,
       DecisionAck, Running, Continues, Goto, Unlocked
<1>34. ASSUME NEW h \in Hosts, WriteResult(h) PROVE LockDiscipline'
  BY <1>0, <1>34, HoldConstants DEF LockDiscipline, DecisionOK, ResumerOK,
       LockOK, StopOK, LockedPCs, files, procs, callers, server,
       WriteResult, Running, Goto
<1>35. ASSUME NEW h \in Hosts, WriteFailure(h) PROVE LockDiscipline'
  BY <1>0, <1>35, HoldConstants DEF LockDiscipline, DecisionOK, ResumerOK,
       LockOK, StopOK, LockedPCs, files, procs, callers, server,
       WriteFailure, Running, Goto
<1>36. ASSUME NEW h \in Hosts, FailAck(h) PROVE LockDiscipline'
  BY <1>0, <1>36, HoldConstants DEF LockDiscipline, DecisionOK, ResumerOK,
       LockOK, StopOK, LockedPCs, files, procs, callers, server, FailAck,
       Running, Goto
<1>37. ASSUME NEW h \in Hosts, HolderExit(h) PROVE LockDiscipline'
  BY <1>0, <1>37, HoldConstants DEF LockDiscipline, DecisionOK, ResumerOK,
       LockOK, StopOK, LockedPCs, files, procs, callers, server, HolderExit,
       Running, Goto
<1>38. ASSUME NEW h \in Hosts, HostFinally(h) PROVE LockDiscipline'
  BY <1>0, <1>38, HoldConstants DEF LockDiscipline, DecisionOK, ResumerOK,
       LockOK, StopOK, LockedPCs, files, procs, callers, server,
       HostFinally, Running, Goto
<1>39. ASSUME NEW h \in Hosts, HostReport(h) PROVE LockDiscipline'
  BY <1>0, <1>39, HoldConstants DEF LockDiscipline, DecisionOK, ResumerOK,
       LockOK, StopOK, LockedPCs, files, procs, callers, server, HostReport,
       Running, ScanEnds, Goto
<1>40. ASSUME NEW h \in Hosts, StartFails(h) PROVE LockDiscipline'
  BY <1>0, <1>40, HoldConstants DEF LockDiscipline, DecisionOK, ResumerOK,
       LockOK, StopOK, LockedPCs, files, procs, callers, server, StartFails,
       Running, Fail, Goto, Unlocked
<1>41. ASSUME NEW h \in Hosts, StartTurnFails(h) PROVE LockDiscipline'
  BY <1>0, <1>41, HoldConstants DEF LockDiscipline, DecisionOK, ResumerOK,
       LockOK, StopOK, LockedPCs, files, procs, callers, server,
       StartTurnFails, Running, Fail, Goto, Unlocked
<1>42. ASSUME NEW h \in Hosts, PollTimeout(h) PROVE LockDiscipline'
  BY <1>0, <1>42, HoldConstants DEF LockDiscipline, DecisionOK, ResumerOK,
       LockOK, StopOK, LockedPCs, files, procs, callers, server,
       PollTimeout, Running, Fail, Goto, Unlocked
<1>43. ASSUME NEW h \in Hosts, HoldFails(h) PROVE LockDiscipline'
  BY <1>0, <1>43, HoldConstants DEF LockDiscipline, DecisionOK, ResumerOK,
       LockOK, StopOK, LockedPCs, files, procs, callers, server,
       HoldFails, Running, Fail, Goto, Unlocked
<1>44. ASSUME NEW h \in Hosts, Crash(h) PROVE LockDiscipline'
  BY <1>0, <1>44, HoldConstants DEF LockDiscipline, DecisionOK, ResumerOK,
       LockOK, StopOK, LockedPCs, files, procs, callers, server, Crash,
       ScanEnds, Goto
<1>45. ASSUME RequestHoldStop PROVE LockDiscipline'
  BY <1>0, <1>45, HoldConstants DEF LockDiscipline, DecisionOK, ResumerOK,
       LockOK, StopOK, LockedPCs, files, procs, callers, server,
       RequestHoldStop, CanLock, Unlocked
<1>46. ASSUME CloseBind PROVE LockDiscipline'
  BY <1>0, <1>46, HoldConstants DEF LockDiscipline, DecisionOK, ResumerOK,
       LockOK, StopOK, LockedPCs, files, procs, callers, server, CloseBind
<1>47. ASSUME CloseInspect PROVE LockDiscipline'
  BY <1>47, CloseInspectDisciplined
<1>48. ASSUME CloseLatch PROVE LockDiscipline'
  BY <1>0, <1>48, HoldConstants DEF LockDiscipline, DecisionOK, ResumerOK,
       LockOK, StopOK, LockedPCs, files, procs, callers, server, CloseLatch,
       Unlocked
<1>49. ASSUME CloseCancel PROVE LockDiscipline'
  BY <1>0, <1>49, HoldConstants DEF LockDiscipline, DecisionOK, ResumerOK,
       LockOK, StopOK, LockedPCs, files, procs, callers, server,
       CloseCancel, Unlocked
<1>50. ASSUME CloseReport PROVE LockDiscipline'
  BY <1>0, <1>50, HoldConstants DEF LockDiscipline, DecisionOK, ResumerOK,
       LockOK, StopOK, LockedPCs, files, procs, callers, server, CloseReport
<1>51. ASSUME RequestHostStop PROVE LockDiscipline'
  BY <1>0, <1>51, HoldConstants DEF LockDiscipline, DecisionOK, ResumerOK,
       LockOK, StopOK, LockedPCs, files, procs, callers, server,
       RequestHostStop, CanLock, Unlocked
<1>52. ASSUME ReconcileHold PROVE LockDiscipline'
  BY <1>0, <1>52, HoldConstants DEF LockDiscipline, DecisionOK, ResumerOK,
       LockOK, StopOK, LockedPCs, files, procs, callers, server,
       ReconcileHold, CanLock, Unlocked
<1>53. ASSUME ResumeCheck PROVE LockDiscipline'
  BY <1>0, <1>53, HoldConstants DEF LockDiscipline, DecisionOK, ResumerOK,
       LockOK, StopOK, LockedPCs, files, procs, callers, server, ResumeCheck
<1>54. ASSUME ResumeArchive PROVE LockDiscipline'
  BY <1>0, <1>54, HoldConstants DEF LockDiscipline, DecisionOK, ResumerOK,
       LockOK, StopOK, LockedPCs, files, procs, callers, server,
       ResumeArchive
<1>55. ASSUME ResumeRequest PROVE LockDiscipline'
  BY <1>0, <1>55, HoldConstants DEF LockDiscipline, DecisionOK, ResumerOK,
       LockOK, StopOK, LockedPCs, files, procs, callers, server,
       ResumeRequest
<1>56. ASSUME ResumeAck PROVE LockDiscipline'
  BY <1>0, <1>56, HoldConstants DEF LockDiscipline, DecisionOK, ResumerOK,
       LockOK, StopOK, LockedPCs, files, procs, callers, server, ResumeAck
<1>57. ASSUME NEW t \in TurnIds, NEW st \in {"completed", "interrupted"},
             TurnEnds(t, st)
      PROVE LockDiscipline'
  BY <1>0, <1>57, HoldConstants DEF LockDiscipline, DecisionOK, ResumerOK,
       LockOK, StopOK, LockedPCs, files, procs, callers, server, TurnEnds,
       ClientPCs
<1>58. ASSUME ReconcileUndispatched PROVE LockDiscipline'
  BY <1>0, <1>58, HoldConstants DEF LockDiscipline, DecisionOK, ResumerOK,
       LockOK, StopOK, LockedPCs, files, procs, callers, server,
       ReconcileUndispatched, CanLock, Unlocked
<1>59. ASSUME UNCHANGED vars PROVE LockDiscipline'
  BY <1>59 DEF LockDiscipline, DecisionOK, ResumerOK, LockOK, StopOK,
       LockedPCs, files, procs, callers, server, vars
<1>60. QED
  BY <1>1, <1>2, <1>3, <1>4, <1>5, <1>6, <1>7, <1>8, <1>9, <1>10, <1>11,
       <1>12, <1>13, <1>14, <1>15, <1>16, <1>17, <1>18, <1>19, <1>20, <1>21,
       <1>22, <1>23, <1>24, <1>25, <1>26, <1>28, <1>29, <1>30, <1>31,
       <1>32, <1>33, <1>34, <1>35, <1>36, <1>37, <1>38, <1>39, <1>40, <1>41,
       <1>42, <1>43, <1>44, <1>45, <1>46, <1>47, <1>48, <1>49, <1>50, <1>51,
       <1>52, <1>53, <1>54, <1>55, <1>56, <1>57, <1>58, <1>59 DEF Next, HostNext,
       HostFault, CallerNext

-----------------------------------------------------------------------------
(* The theorems                                                            *)

\* What provision() has written is typed, and nobody is in a locked section.
LEMMA InitOK == Init => TypeOK /\ LockDiscipline
<1> SUFFICES ASSUME Init
             PROVE  TypeOK /\ LockDiscipline
  OBVIOUS
<1>1. /\ FirstRequest \in Requests /\ FirstAck \in Acks
      /\ NoLocals \in Locals /\ NoScan \in Scans
  BY HoldConstants DEF FirstRequest, FirstAck, NoLocals, NoScan, Requests, Acks,
                       Locals, Scans, Rids, Modes, Phases, Statuses
<1>2. TypeOK
  BY <1>1, HoldConstants DEF Init, TypeOK, Claims, Closes, Closers, Resumers, PCs, Turns, Rids
<1>3. LockDiscipline
  BY HoldConstants DEF Init, LockDiscipline, DecisionOK, ResumerOK, LockOK,
                       StopOK, LockedPCs
<1>4. QED
  BY <1>2, <1>3

\* Every variable keeps its type, whatever the Hosts, the callers and the App
\* Server do, and whichever Hosts die.
THEOREM TypeCorrect == Spec => []TypeOK
<1>1. Init => TypeOK /\ LockDiscipline
  BY InitOK
<1>2. TypeOK /\ LockDiscipline /\ [Next]_vars => (TypeOK /\ LockDiscipline)'
  BY TypeStep, DisciplineStep
<1>3. QED
  BY <1>1, <1>2, PTL DEF Spec

\* Sections under request.lock exclude each other, and no stop is latched from
\* the check before a dispatch to the dispatch.
THEOREM LockDisciplineHolds == Spec => []LockDiscipline
<1>1. Init => TypeOK /\ LockDiscipline
  BY InitOK
<1>2. TypeOK /\ LockDiscipline /\ [Next]_vars => (TypeOK /\ LockDiscipline)'
  BY TypeStep, DisciplineStep
<1>3. QED
  BY <1>1, <1>2, PTL DEF Spec

\* A step that starts a turn is a dispatch under the lock: no stop is latched.
LEMMA DispatchUnderLock ==
    TypeOK /\ LockDiscipline /\ [Next]_vars
      => [issued' # issued => ~req.stop]_vars
<1> SUFFICES ASSUME TypeOK, LockDiscipline, Next, issued' # issued
             PROVE  ~req.stop
  OBVIOUS
<1>1. ASSUME NEW h \in Hosts,
             StartHost(h) \/ ReadRequest(h) \/ ReadAck(h) \/ ClaimMkdir(h)
             \/ ClaimOwner(h) \/ ClaimRecheck(h) \/ ClaimAck(h) \/
             RequeueDeadClaim(h) \/ RecoveryFailed(h)
      PROVE  FALSE
  BY <1>1 DEF server, StartHost, ReadRequest, ReadAck, ClaimMkdir,
         ClaimOwner, ClaimRecheck, ClaimAck, RequeueDeadClaim,
         RecoveryFailed
<1>2. ASSUME NEW h \in Hosts,
             RequeueLock(h) \/ RequeueRequest(h) \/ RequeueAck(h) \/
             ReleaseOwner(h) \/ ReleaseDir(h) \/ HoldStarted(h) \/
             LockStart(h) \/ StopBeforeDispatch(h) \/ CancelAck(h)
      PROVE  FALSE
  BY <1>2 DEF server, RequeueLock, RequeueRequest, RequeueAck, ReleaseOwner,
         ReleaseDir, HoldStarted, LockStart, StopBeforeDispatch, CancelAck
<1>3. ASSUME NEW h \in Hosts,
             AttachRecovered(h) \/ StartThread(h) \/ ThreadStarted(h) \/
             TurnStarting(h) \/ TurnStarted(h) \/ TurnHolding(h) \/
             AdvanceRequest(h) \/ PollGivesUp(h)
      PROVE  FALSE
  BY <1>3 DEF server, AttachRecovered, StartThread, ThreadStarted,
         TurnStarting, TurnStarted, TurnHolding, AdvanceRequest,
         PollGivesUp
<1>4. ASSUME NEW h \in Hosts,
             PollInterrupt(h) \/ Observe(h) \/ LockRecord(h) \/ Record(h) \/
             DecisionAck(h) \/ WriteResult(h) \/ WriteFailure(h) \/
             FailAck(h) \/ HolderExit(h)
      PROVE  FALSE
  BY <1>4 DEF server, PollInterrupt, Observe, LockRecord, Record,
         DecisionAck, WriteResult, WriteFailure, FailAck, HolderExit
<1>5. ASSUME NEW h \in Hosts,
             HostFinally(h) \/ HostReport(h) \/ StartFails(h) \/
             StartTurnFails(h) \/ PollTimeout(h) \/ HoldFails(h) \/
             Crash(h)
      PROVE  FALSE
  BY <1>5 DEF server, HostFinally, HostReport, StartFails, StartTurnFails,
         PollTimeout, HoldFails, Crash
<1>6. ASSUME RequestHoldStop \/ CloseBind \/ CloseInspect \/ CloseLatch \/
             CloseCancel \/ CloseReport \/ RequestHostStop \/ ReconcileHold
             \/ ReconcileUndispatched
             \/ ResumeCheck \/ ResumeArchive \/ ResumeRequest \/ ResumeAck
      PROVE  FALSE
  BY <1>6 DEF server, RequestHoldStop, CloseBind, CloseInspect, CloseLatch,
         CloseCancel, CloseReport, RequestHostStop, ReconcileHold,
         ReconcileUndispatched,
         ResumeCheck, ResumeArchive, ResumeRequest, ResumeAck
<1>7. ASSUME NEW t \in TurnIds, NEW st \in {"completed", "interrupted"},
             TurnEnds(t, st)
      PROVE  FALSE
  BY <1>7 DEF TurnEnds
<1>8. PICK h \in Hosts, answered \in BOOLEAN : StartTurn(h, answered)
  BY <1>1, <1>2, <1>3, <1>4, <1>5, <1>6, <1>7 DEF Next, HostNext, HostFault,
         CallerNext
<1>9. QED
  BY <1>8 DEF StartTurn, Running, LockDiscipline, StopOK

\* Once a stop is in request.json no Host starts a turn of the Hold.
THEOREM NoDispatchAfterStopHolds == Spec => NoDispatchAfterStop
<1>1. Spec => [](TypeOK /\ LockDiscipline)
  BY TypeCorrect, LockDisciplineHolds, PTL
<1>2. QED
  BY <1>1, DispatchUnderLock, PTL DEF Spec, NoDispatchAfterStop
=============================================================================

