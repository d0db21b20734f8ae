--------------------------- MODULE HoldClaim_proofs ---------------------------
(***************************************************************************)
(* The claim of a Hold, when Hosts run one after another (~Overlap): from  *)
(* its recheck of the claim until it has finished, a Host owns it, however *)
(* many Hosts die and whatever the callers do (HoldersOwnClaim).           *)
(*                                                                         *)
(* Only reconcile_hold takes a claim from a live Host that is not yet, or  *)
(* no longer, active.  Refused says why it cannot while a Host is claiming.*)
(***************************************************************************)
EXTENDS HoldLifecycle_proofs

\* Hosts run one after another
OneAlive == \A g, h \in Hosts : alive[g] /\ alive[h] => g = h

\* Nothing is of a request id that was not given yet
RidsKnown ==
    /\ req.rid <= resumer.rid /\ closer.req.rid <= resumer.rid
    /\ res # NoResult => res.rid <= resumer.rid
    /\ \A h \in Hosts : my[h].rid <= resumer.rid

\* close_hold works with a copy of the request
Copying == closer.pc \in {"cancel", "latch"}

\* The copy is the request, or of an older one
CopyKnown == Copying => closer.req = req \/ closer.req.rid < req.rid

\* Only a recovery names a turn, and who holds one recovers the request
Bound(q) ==
    /\ q.turn # 0 => q.mode = "recover"
    /\ \A h \in Hosts : (my[h].mode = "recover" /\ my[h].rid = q.rid) => q.mode = "recover"

RecoveryKnown ==
    /\ Bound(req) /\ (Copying => Bound(closer.req))
    /\ \A h \in Hosts : pc[h] = "advance" => my[h].mode = "recover"

\* What makes reconcile_hold refuse when q is the request: no result, one without a
\* turn or of another request, or a close's own result of a controlled recovery
Refused(q) ==
    \/ res = NoResult \/ res.turn = 0 \/ res.rid # q.rid
    \/ ~res.hs /\ q.mode = "recover" /\ q.stop

\* The request that close_hold is about to write
Latched == [closer.req EXCEPT !.stop = TRUE]

Claiming == {"scanned", "claiming", "recheck", "claimAck"}
OwningPCs == {"recheck", "claimAck"} \cup HolderPCs

Owns(h) == claim = [dir |-> TRUE, owner |-> h]

ClaimInv ==
    /\ OneAlive /\ RidsKnown /\ CopyKnown /\ RecoveryKnown
    /\ \A h \in Hosts : /\ pc[h] \in Claiming =>
                             Refused(req) /\ (closer.pc = "latch" => Refused(Latched))
                        /\ pc[h] \in OwningPCs => Owns(h)

-----------------------------------------------------------------------------
(* What a step does to the request, the locals, the result and the claim   *)

\* A Host's step leaves the other Hosts where they are
LEMMA OthersKeep ==
    ASSUME TypeOK, NEW h \in Hosts, HostNext(h) \/ HostFault(h), NEW g \in Hosts, g # h
    PROVE  pc'[g] = pc[g] /\ my'[g] = my[g]
<1>0. pc \in [Hosts -> PCs] /\ my \in [Hosts -> Locals]
  BY DEF TypeOK
<1>1. ASSUME \/ StartHost(h) \/ ReadRequest(h) \/ ReadAck(h) \/ ClaimMkdir(h) \/ ClaimOwner(h)
             \/ ClaimRecheck(h) \/ ClaimAck(h) \/ RequeueDeadClaim(h) \/ RecoveryFailed(h)
             \/ RequeueLock(h) \/ RequeueRequest(h) \/ RequeueAck(h) \/ ReleaseOwner(h) \/ ReleaseDir(h)
      PROVE  pc'[g] = pc[g] /\ my'[g] = my[g]
  BY <1>0, <1>1 DEF StartHost, ReadRequest, ReadAck, ClaimMkdir, ClaimOwner, ClaimRecheck, ClaimAck,
       RequeueDeadClaim, RecoveryFailed, RequeueLock, RequeueRequest, RequeueAck, ReleaseOwner,
       ReleaseDir, Goto, ScanEnds
<1>2. ASSUME \/ HoldStarted(h) \/ LockStart(h) \/ StopBeforeDispatch(h) \/ CancelAck(h)
             \/ AttachRecovered(h) \/ StartThread(h) \/ ThreadStarted(h) \/ TurnStarting(h)
             \/ StartTurn(h, TRUE) \/ StartTurn(h, FALSE) \/ TurnStarted(h) \/ TurnHolding(h)
             \/ AdvanceRequest(h)
      PROVE  pc'[g] = pc[g] /\ my'[g] = my[g]
  BY <1>0, <1>2 DEF HoldStarted, LockStart, StopBeforeDispatch, CancelAck, AttachRecovered,
       StartThread, ThreadStarted, TurnStarting, StartTurn, TurnStarted, TurnHolding, AdvanceRequest,
       Goto, Fail
<1>3. ASSUME \/ PollGivesUp(h) \/ PollInterrupt(h) \/ Observe(h) \/ LockRecord(h) \/ Record(h)
             \/ DecisionAck(h) \/ WriteResult(h) \/ WriteFailure(h) \/ FailAck(h) \/ HolderExit(h)
             \/ HostFinally(h) \/ HostReport(h)
      PROVE  pc'[g] = pc[g] /\ my'[g] = my[g]
  BY <1>0, <1>3 DEF PollGivesUp, PollInterrupt, Observe, LockRecord, Record, DecisionAck, WriteResult,
       WriteFailure, FailAck, HolderExit, HostFinally, HostReport, Goto, Fail, ScanEnds
<1>4. ASSUME \/ StartFails(h) \/ StartTurnFails(h) \/ PollTimeout(h) \/ HoldFails(h) \/ Crash(h)
      PROVE  pc'[g] = pc[g] /\ my'[g] = my[g]
  BY <1>0, <1>4 DEF StartFails, StartTurnFails, PollTimeout, HoldFails, Crash, Goto, Fail, ScanEnds
<1>5. QED
  BY <1>1, <1>2, <1>3, <1>4 DEF HostNext, HostFault

\* Only a live Host acts, or one that starts
LEMMA OnlyAliveAct ==
    ASSUME NEW h \in Hosts, HostNext(h) \/ HostFault(h)
    PROVE  alive[h] \/ StartHost(h)
BY DEF HostNext, HostFault, Running, ReadRequest, ReadAck, ClaimMkdir, ClaimOwner, ClaimRecheck,
       ClaimAck, RequeueDeadClaim, RecoveryFailed, RequeueLock, RequeueRequest, RequeueAck,
       ReleaseOwner, ReleaseDir, HoldStarted, LockStart, StopBeforeDispatch, CancelAck,
       AttachRecovered, StartThread, ThreadStarted, TurnStarting, StartTurn, TurnStarted,
       TurnHolding, AdvanceRequest, PollGivesUp, PollInterrupt, Observe, LockRecord, Record,
       DecisionAck, WriteResult, WriteFailure, FailAck, HolderExit, HostFinally, HostReport,
       StartFails, StartTurnFails, PollTimeout, HoldFails, Crash

\* The callers and the App Server leave every Host where it is
LEMMA CallersKeepHosts ==
    ASSUME \/ CallerNext
           \/ \E t \in TurnIds, st \in {"completed", "interrupted"} : TurnEnds(t, st)
           \/ UNCHANGED vars
    PROVE  pc' = pc /\ my' = my /\ alive' = alive
BY DEF CallerNext, RequestHoldStop, CloseBind, CloseInspect, CloseLatch, CloseCancel, CloseReport,
       RequestHostStop, ReconcileHold, ReconcileUndispatched, ResumeCheck, ResumeArchive,
       ResumeRequest, ResumeAck, TurnEnds, vars, procs

\* What a Host's own step does as long as it claims, or holds
LEMMA OwnStep ==
    ASSUME TypeOK, LockDiscipline, NEW h \in Hosts, HostNext(h) \/ HostFault(h)
    PROVE  /\ pc'[h] \in Claiming =>
                res' = res /\ req' = req /\ (pc[h] \in Claiming \/ res = NoResult)
           /\ pc'[h] \in OwningPCs =>
                \/ claim' = [dir |-> TRUE, owner |-> h]
                \/ claim' = claim /\ pc[h] \in OwningPCs
<1> DEFINE Claims1 == pc'[h] \in Claiming =>
                        res' = res /\ req' = req /\ (pc[h] \in Claiming \/ res = NoResult)
           Owns1   == pc'[h] \in OwningPCs =>
                        \/ claim' = [dir |-> TRUE, owner |-> h]
                        \/ claim' = claim /\ pc[h] \in OwningPCs
<1>0. pc \in [Hosts -> PCs] /\ (pc[h] # "idle" => alive[h])
  BY DEF TypeOK, LockDiscipline, LockOK
<1>1. ASSUME \/ StartHost(h) \/ ReadRequest(h) \/ ReadAck(h) \/ ClaimMkdir(h) \/ ClaimOwner(h)
             \/ ClaimRecheck(h) \/ ClaimAck(h)
      PROVE  Claims1 /\ Owns1
  BY <1>0, <1>1 DEF StartHost, ReadRequest, ReadAck, ClaimMkdir, ClaimOwner, ClaimRecheck, ClaimAck,
       Running, Goto, ScanEnds, files, Claiming, OwningPCs, HolderPCs
<1>2. ASSUME \/ RequeueDeadClaim(h) \/ RecoveryFailed(h) \/ RequeueLock(h) \/ RequeueRequest(h)
             \/ RequeueAck(h) \/ ReleaseOwner(h) \/ ReleaseDir(h)
      PROVE  Claims1 /\ Owns1
  BY <1>0, <1>2 DEF RequeueDeadClaim, RecoveryFailed, RequeueLock, RequeueRequest, RequeueAck,
       ReleaseOwner, ReleaseDir, Running, Goto, ScanEnds, Claiming, OwningPCs, HolderPCs
<1>3. ASSUME \/ HoldStarted(h) \/ LockStart(h) \/ StopBeforeDispatch(h) \/ CancelAck(h)
             \/ AttachRecovered(h) \/ StartThread(h) \/ ThreadStarted(h) \/ TurnStarting(h)
             \/ StartTurn(h, TRUE) \/ StartTurn(h, FALSE) \/ TurnStarted(h) \/ TurnHolding(h)
             \/ AdvanceRequest(h)
      PROVE  Claims1 /\ Owns1
  BY <1>0, <1>3 DEF HoldStarted, LockStart, StopBeforeDispatch, CancelAck, AttachRecovered,
       StartThread, ThreadStarted, TurnStarting, StartTurn, TurnStarted, TurnHolding, AdvanceRequest,
       Running, Goto, Fail, Claiming, OwningPCs, HolderPCs
<1>4. ASSUME \/ PollGivesUp(h) \/ PollInterrupt(h) \/ Observe(h) \/ LockRecord(h) \/ Record(h)
             \/ DecisionAck(h) \/ WriteResult(h) \/ WriteFailure(h) \/ FailAck(h) \/ HolderExit(h)
             \/ HostFinally(h) \/ HostReport(h)
      PROVE  Claims1 /\ Owns1
  BY <1>0, <1>4 DEF PollGivesUp, PollInterrupt, Observe, LockRecord, Record, DecisionAck, WriteResult,
       WriteFailure, FailAck, HolderExit, HostFinally, HostReport, Running, Goto, Fail, ScanEnds,
       files, Claiming, OwningPCs, HolderPCs
<1>5. ASSUME \/ StartFails(h) \/ StartTurnFails(h) \/ PollTimeout(h) \/ HoldFails(h) \/ Crash(h)
      PROVE  Claims1 /\ Owns1
  BY <1>0, <1>5 DEF StartFails, StartTurnFails, PollTimeout, HoldFails, Crash, Running, Goto, Fail,
       ScanEnds, files, Claiming, OwningPCs, HolderPCs
<1>6. QED
  BY <1>1, <1>2, <1>3, <1>4, <1>5 DEF HostNext, HostFault

\* A Host does nothing to the callers' places
LEMMA HostsKeepCallers ==
    ASSUME NEW h \in Hosts, HostNext(h) \/ HostFault(h)
    PROVE  closer' = closer /\ resumer' = resumer
<1>1. ASSUME \/ StartHost(h) \/ ReadRequest(h) \/ ReadAck(h) \/ ClaimMkdir(h) \/ ClaimOwner(h)
             \/ ClaimRecheck(h) \/ ClaimAck(h) \/ RequeueDeadClaim(h) \/ RecoveryFailed(h)
             \/ RequeueLock(h) \/ RequeueRequest(h) \/ RequeueAck(h) \/ ReleaseOwner(h) \/ ReleaseDir(h)
             \/ HoldStarted(h) \/ LockStart(h) \/ StopBeforeDispatch(h) \/ CancelAck(h)
             \/ AttachRecovered(h) \/ StartThread(h) \/ ThreadStarted(h) \/ TurnStarting(h)
             \/ StartTurn(h, TRUE) \/ StartTurn(h, FALSE) \/ TurnStarted(h) \/ TurnHolding(h)
      PROVE  closer' = closer /\ resumer' = resumer
  BY <1>1 DEF StartHost, ReadRequest, ReadAck, ClaimMkdir, ClaimOwner, ClaimRecheck, ClaimAck,
       RequeueDeadClaim, RecoveryFailed, RequeueLock, RequeueRequest, RequeueAck, ReleaseOwner,
       ReleaseDir, HoldStarted, LockStart, StopBeforeDispatch, CancelAck, AttachRecovered,
       StartThread, ThreadStarted, TurnStarting, StartTurn, TurnStarted, TurnHolding, callers
<1>2. ASSUME \/ AdvanceRequest(h) \/ PollGivesUp(h) \/ PollInterrupt(h) \/ Observe(h)
             \/ LockRecord(h) \/ Record(h) \/ DecisionAck(h) \/ WriteResult(h) \/ WriteFailure(h)
             \/ FailAck(h) \/ HolderExit(h) \/ HostFinally(h) \/ HostReport(h) \/ StartFails(h)
             \/ StartTurnFails(h) \/ PollTimeout(h) \/ HoldFails(h) \/ Crash(h)
      PROVE  closer' = closer /\ resumer' = resumer
  BY <1>2 DEF AdvanceRequest, PollGivesUp, PollInterrupt, Observe, LockRecord, Record, DecisionAck,
       WriteResult, WriteFailure, FailAck, HolderExit, HostFinally, HostReport, StartFails,
       StartTurnFails, PollTimeout, HoldFails, Crash, callers
<1>3. QED
  BY <1>1, <1>2 DEF HostNext, HostFault

(* What a step does to the request, to close_hold's copy of it and to the ids that were
   given: five kinds of steps.                                                          *)

ReqKept ==
    /\ req' = req /\ resumer'.rid = resumer.rid
    /\ \/ /\ closer'.req = closer.req /\ (Copying' => Copying)
          /\ closer'.pc = "latch" => closer.pc = "latch"
       \/ closer'.req = req

ReqStopped ==
    /\ req'.rid = req.rid /\ req'.mode = req.mode /\ req'.turn = req.turn /\ req'.stop
    /\ req'.base = req.base
    /\ ~Copying /\ closer' = closer /\ resumer' = resumer

ReqRecovers ==
    /\ req'.rid = req.rid /\ ~Copying /\ closer' = closer /\ resumer' = resumer
    /\ \/ req'.mode = "recover"
       \/ /\ req'.mode = req.mode
          /\ \E h \in Hosts : pc[h] = "advance" /\ my[h].rid = req.rid

ReqCopied ==
    /\ Copying /\ (req' = req \/ req' = Latched)
    /\ closer'.req = FirstRequest /\ closer'.pc = "report" /\ resumer' = resumer

ReqResumed ==
    /\ resumer'.rid = resumer.rid + 1 /\ req'.rid = resumer'.rid /\ req'.turn = 0
    /\ req'.base = 1 /\ closer' = closer

LEMMA RequestSteps ==
    ASSUME TypeOK, LockDiscipline, [Next]_vars
    PROVE  ReqKept \/ ReqStopped \/ ReqRecovers \/ ReqCopied \/ ReqResumed
<1>0. /\ req \in Requests /\ scan \in [Hosts -> Scans] /\ closer.req \in Requests
      /\ resumer \in Resumers /\ closer \in Closers
      /\ \A h \in Hosts : rlock = h => ~Copying
      /\ CanLock => ~Copying
  BY HoldConstants DEF TypeOK, Closers, Copying, LockDiscipline, LockOK, CanLock
<1>2. ASSUME NEW h \in Hosts, RequeueRequest(h), req' # req
      PROVE  ReqRecovers
  <2>1. scan[h].req \in Requests
    BY <1>0 DEF Scans
  <2> DEFINE base == IF scan[h].ack.count = 0 THEN 1 ELSE scan[h].ack.count
             q == [scan[h].req EXCEPT !.mode = RecoveryMode(h), !.turn = RecoveredTurn(h),
                                      !.base = base, !.stop = scan[h].req.stop \/ req.stop]
  <2>2. q.rid = scan[h].req.rid /\ q.mode = "recover"
    BY <2>1 DEF Requests, RecoveryMode
  <2>3. req' = q /\ req.rid = scan[h].req.rid /\ rlock = h
    BY <1>2 DEF RequeueRequest, Running, LockDiscipline, LockOK, LockedPCs
  <2>4. closer' = closer /\ resumer' = resumer
    BY <1>2, HostsKeepCallers DEF HostNext
  <2> HIDE DEF q
  <2>5. QED
    BY <1>0, <2>2, <2>3, <2>4 DEF ReqRecovers
<1>3. ASSUME NEW h \in Hosts, AdvanceRequest(h), req' # req
      PROVE  ReqRecovers
  <2>1. closer' = closer /\ resumer' = resumer
    BY <1>3, HostsKeepCallers DEF HostNext
  <2>2. rlock = h
    BY <1>3 DEF AdvanceRequest, Running, LockDiscipline, LockOK, LockedPCs
  <2>3. QED
    BY <1>0, <1>3, <2>1, <2>2 DEF AdvanceRequest, Running, Requests, ReqRecovers
<1>4. ASSUME RequestHoldStop
      PROVE  ReqStopped
  BY <1>0, <1>4 DEF RequestHoldStop, ReqStopped, Requests, callers
<1>5. ASSUME RequestHostStop
      PROVE  ReqStopped
  BY <1>0, <1>5 DEF RequestHostStop, ReqStopped, Requests, callers
<1>6. ASSUME CloseLatch \/ CloseCancel
      PROVE  ReqCopied
  BY <1>0, <1>6 DEF CloseLatch, CloseCancel, ReqCopied, Latched, Copying, Closers
<1>7. ASSUME ResumeRequest
      PROVE  ReqResumed
  BY <1>0, <1>7 DEF ResumeRequest, ReqResumed, Resumers
<1>8. ASSUME NEW h \in Hosts,
             \/ StartHost(h) \/ ReadRequest(h) \/ ReadAck(h) \/ ClaimMkdir(h) \/ ClaimOwner(h)
             \/ ClaimRecheck(h) \/ ClaimAck(h) \/ RequeueDeadClaim(h) \/ RecoveryFailed(h)
             \/ RequeueLock(h) \/ RequeueAck(h) \/ ReleaseOwner(h) \/ ReleaseDir(h)
             \/ HoldStarted(h) \/ LockStart(h) \/ StopBeforeDispatch(h) \/ CancelAck(h)
             \/ AttachRecovered(h) \/ StartThread(h) \/ ThreadStarted(h) \/ TurnStarting(h)
             \/ StartTurn(h, TRUE) \/ StartTurn(h, FALSE) \/ TurnStarted(h) \/ TurnHolding(h)
      PROVE  req' = req
  BY <1>8 DEF StartHost, ReadRequest, ReadAck, ClaimMkdir, ClaimOwner, ClaimRecheck, ClaimAck,
       RequeueDeadClaim, RecoveryFailed, RequeueLock, RequeueAck, ReleaseOwner, ReleaseDir,
       HoldStarted, LockStart, StopBeforeDispatch, CancelAck, AttachRecovered, StartThread,
       ThreadStarted, TurnStarting, StartTurn, TurnStarted, TurnHolding, files
<1>9. ASSUME NEW h \in Hosts,
             \/ PollGivesUp(h) \/ PollInterrupt(h) \/ Observe(h) \/ LockRecord(h) \/ Record(h)
             \/ DecisionAck(h) \/ WriteResult(h) \/ WriteFailure(h) \/ FailAck(h) \/ HolderExit(h)
             \/ HostFinally(h) \/ HostReport(h) \/ StartFails(h) \/ StartTurnFails(h)
             \/ PollTimeout(h) \/ HoldFails(h) \/ Crash(h)
      PROVE  req' = req
  BY <1>9 DEF PollGivesUp, PollInterrupt, Observe, LockRecord, Record, DecisionAck, WriteResult,
       WriteFailure, FailAck, HolderExit, HostFinally, HostReport, StartFails, StartTurnFails,
       PollTimeout, HoldFails, Crash, files
<1>10. ASSUME NEW h \in Hosts, HostNext(h) \/ HostFault(h), req' = req
       PROVE  ReqKept
  BY <1>10, HostsKeepCallers DEF ReqKept, Copying
<1>11. ASSUME \/ CloseBind \/ CloseInspect \/ CloseReport \/ ReconcileHold \/ ReconcileUndispatched
              \/ ResumeCheck \/ ResumeArchive \/ ResumeAck \/ UNCHANGED vars
              \/ \E t \in TurnIds, st \in {"completed", "interrupted"} : TurnEnds(t, st)
       PROVE  ReqKept
  BY <1>0, <1>11 DEF CloseBind, CloseInspect, CloseReport, ReconcileHold, ReconcileUndispatched,
       ResumeCheck, ResumeArchive, ResumeAck, TurnEnds, files, vars, callers, ReqKept, Copying,
       Closers, Resumers
<1>12. QED
  <2>1. ASSUME NEW h \in Hosts, HostNext(h) \/ HostFault(h)
        PROVE  ReqKept \/ ReqRecovers
    BY <2>1, <1>2, <1>3, <1>8, <1>9, <1>10 DEF HostNext, HostFault
  <2>2. ASSUME CallerNext
        PROVE  ReqKept \/ ReqStopped \/ ReqRecovers \/ ReqCopied \/ ReqResumed
    BY <2>2, <1>4, <1>5, <1>6, <1>7, <1>11 DEF CallerNext
  <2>3. QED
    BY <2>1, <2>2, <1>11 DEF Next

\* What any step does to what a holder knows of its request
LEMMA LocalSteps ==
    ASSUME TypeOK, [Next]_vars, NEW h \in Hosts
    PROVE  /\ \/ my'[h].rid = my[h].rid /\ my'[h].mode = my[h].mode
              \/ my'[h].rid = 1 /\ my'[h].mode = "create"
              \/ my'[h].rid = req.rid /\ my'[h].mode = req.mode /\ req' = req
           /\ pc'[h] = "advance" =>
                /\ my'[h].mode = my[h].mode
                /\ pc[h] = "advance" \/ my[h].mode = "recover"
<1> DEFINE Kept    == my'[h].rid = my[h].rid /\ my'[h].mode = my[h].mode
           Changes == \/ Kept
                      \/ my'[h].rid = 1 /\ my'[h].mode = "create"
                      \/ my'[h].rid = req.rid /\ my'[h].mode = req.mode /\ req' = req
           Enters  == pc'[h] = "advance" =>
                        /\ my'[h].mode = my[h].mode
                        /\ pc[h] = "advance" \/ my[h].mode = "recover"
<1>0. pc \in [Hosts -> PCs] /\ my \in [Hosts -> Locals] /\ my[h] \in Locals
  BY DEF TypeOK
<1>1. CASE ~(HostNext(h) \/ HostFault(h))
  <2>1. my'[h] = my[h] /\ pc'[h] = pc[h]
    BY <1>1, OthersKeep, CallersKeepHosts DEF Next
  <2>2. QED
    BY <2>1
<1>2. ASSUME \/ StartHost(h) \/ ReadRequest(h) \/ ReadAck(h) \/ ClaimMkdir(h) \/ ClaimOwner(h)
             \/ ClaimRecheck(h) \/ ClaimAck(h) \/ RequeueDeadClaim(h) \/ RecoveryFailed(h)
             \/ RequeueLock(h) \/ RequeueRequest(h) \/ RequeueAck(h) \/ ReleaseOwner(h) \/ ReleaseDir(h)
      PROVE  Changes /\ Enters
  BY <1>0, <1>2 DEF StartHost, ReadRequest, ReadAck, ClaimMkdir, ClaimOwner, ClaimRecheck, ClaimAck,
       RequeueDeadClaim, RecoveryFailed, RequeueLock, RequeueRequest, RequeueAck, ReleaseOwner,
       ReleaseDir, Running, Goto, ScanEnds
<1>3. ASSUME HoldStarted(h)
      PROVE  Changes /\ Enters
  BY <1>0, <1>3 DEF HoldStarted, Goto
<1> DEFINE Keeps(v) == v.rid = my[h].rid /\ v.mode = my[h].mode
<1>a. ASSUME NEW v, Keeps(v), my' = [my EXCEPT ![h] = v]
      PROVE  Kept
  BY <1>0, <1>a
<1>b. /\ \A x : Keeps([my[h] EXCEPT !.fail = x]) /\ Keeps([my[h] EXCEPT !.conf = x])
      /\ \A x : Keeps([my[h] EXCEPT !.thread = x]) /\ Keeps([my[h] EXCEPT !.notSent = x])
      /\ \A x : Keeps([my[h] EXCEPT !.turn = x]) /\ Keeps([my[h] EXCEPT !.count = x])
      /\ \A x : Keeps([my[h] EXCEPT !.dec = x])
      /\ \A x, y : /\ Keeps([my[h] EXCEPT !.sel = x, !.fail = y])
                   /\ Keeps([my[h] EXCEPT !.sel = x, !.latched = y])
                   /\ Keeps([my[h] EXCEPT !.dec = x, !.conf = y])
      /\ \A x, y, z : Keeps([my[h] EXCEPT !.conf = x, !.turn = y, !.notSent = z])
  BY <1>0, Zenon DEF Locals
<1> HIDE DEF Keeps
<1>4. ASSUME \/ LockStart(h) \/ StopBeforeDispatch(h) \/ CancelAck(h)
             \/ AttachRecovered(h) \/ StartThread(h) \/ ThreadStarted(h) \/ TurnStarting(h)
             \/ StartTurn(h, TRUE) \/ StartTurn(h, FALSE) \/ TurnStarted(h)
      PROVE  Changes /\ Enters
  <2>1. \/ my' = my
        \/ \E v : Keeps(v) /\ my' = [my EXCEPT ![h] = v]
    BY <1>b, <1>4, Zenon DEF LockStart, StopBeforeDispatch, CancelAck, AttachRecovered,
       StartThread, ThreadStarted, TurnStarting, StartTurn, TurnStarted, Fail
  <2>0. Kept
    BY <1>a, <2>1
  <2>2. pc'[h] # "advance"
    BY <1>0, <1>4 DEF LockStart, StopBeforeDispatch, CancelAck, AttachRecovered, StartThread,
       ThreadStarted, TurnStarting, StartTurn, TurnStarted, Goto, Fail
  <2>3. QED
    BY <2>0, <2>2
<1>5. ASSUME TurnHolding(h) \/ AdvanceRequest(h)
      PROVE  Changes /\ Enters
  BY <1>0, <1>5 DEF TurnHolding, AdvanceRequest, Running, Goto, Fail, Locals
<1>6. ASSUME \/ PollGivesUp(h) \/ PollInterrupt(h) \/ Observe(h)
      PROVE  Changes /\ Enters
  <2>1. \E v : Keeps(v) /\ my' = [my EXCEPT ![h] = v]
    BY <1>b, <1>6, Zenon DEF PollGivesUp, PollInterrupt, Observe, Fail
  <2>2. Kept
    BY <1>a, <2>1
  <2>3. pc'[h] # "advance"
    BY <1>0, <1>6 DEF PollGivesUp, PollInterrupt, Observe, Running, Goto, Fail
  <2>4. QED
    BY <2>2, <2>3
<1>7. ASSUME \/ LockRecord(h) \/ Record(h) \/ DecisionAck(h) \/ WriteResult(h) \/ WriteFailure(h)
             \/ FailAck(h) \/ HolderExit(h) \/ HostFinally(h)
      PROVE  Changes /\ Enters
  <2>1. \/ my' = my
        \/ \E v : Keeps(v) /\ my' = [my EXCEPT ![h] = v]
    BY <1>b, <1>7, Zenon DEF LockRecord, Record, DecisionAck, WriteResult, WriteFailure,
       FailAck, HolderExit, HostFinally, Fail
  <2>2. Kept
    BY <1>a, <2>1
  <2>3. pc'[h] # "advance"
    BY <1>0, <1>7 DEF LockRecord, Record, DecisionAck, WriteResult, WriteFailure, FailAck, HolderExit,
       HostFinally, Running, Goto, Fail
  <2>4. QED
    BY <2>2, <2>3
<1>8. ASSUME HostReport(h) \/ Crash(h)
      PROVE  Changes /\ Enters
  BY <1>0, <1>8 DEF HostReport, Crash, Running, ScanEnds, Goto, NoLocals
<1>9. ASSUME \/ StartFails(h) \/ StartTurnFails(h) \/ PollTimeout(h) \/ HoldFails(h)
      PROVE  Changes /\ Enters
  BY <1>0, <1>9 DEF StartFails, StartTurnFails, PollTimeout, HoldFails, Running, Goto, Fail, Locals
<1>10. QED
  BY <1>1, <1>2, <1>3, <1>4, <1>5, <1>6, <1>7, <1>8, <1>9 DEF HostNext, HostFault

-----------------------------------------------------------------------------
(* The invariant, part by part                                             *)

\* Every result that a step writes is of a request that its writer knows
LEMMA ResultSteps ==
    ASSUME TypeOK, [Next]_vars
    PROVE  \/ res' = res \/ res' = NoResult
           \/ res'.rid = closer.req.rid
           \/ res # NoResult /\ res'.rid = res.rid
           \/ \E h \in Hosts : res'.rid = my[h].rid
<1>0. res # NoResult => res \in Results
  BY DEF TypeOK
<1>1. ASSUME CloseCancel
      PROVE  res'.rid = closer.req.rid
  BY <1>1 DEF CloseCancel, Cancelled
<1>2. ASSUME ReconcileHold \/ ReconcileUndispatched
      PROVE  res # NoResult /\ res'.rid = res.rid
  BY <1>0, <1>2 DEF ReconcileHold, ReconcileUndispatched, Results
<1>3. ASSUME ResumeArchive
      PROVE  res' = NoResult
  BY <1>3 DEF ResumeArchive
<1>4. ASSUME NEW h \in Hosts, HolderExit(h) \/ HostFinally(h), res' # res
      PROVE  res # NoResult /\ res'.rid = res.rid
  BY <1>0, <1>4 DEF HolderExit, HostFinally, Results
<1>5. ASSUME NEW h \in Hosts, StopBeforeDispatch(h) \/ WriteResult(h) \/ WriteFailure(h)
      PROVE  res'.rid = my[h].rid
  BY <1>5 DEF StopBeforeDispatch, WriteResult, WriteFailure, Cancelled
<1>6. ASSUME NEW h \in Hosts,
             \/ StartHost(h) \/ ReadRequest(h) \/ ReadAck(h) \/ ClaimMkdir(h) \/ ClaimOwner(h)
             \/ ClaimRecheck(h) \/ ClaimAck(h) \/ RequeueDeadClaim(h) \/ RecoveryFailed(h)
             \/ RequeueLock(h) \/ RequeueRequest(h) \/ RequeueAck(h) \/ ReleaseOwner(h) \/ ReleaseDir(h)
             \/ HoldStarted(h) \/ LockStart(h) \/ CancelAck(h) \/ AttachRecovered(h)
             \/ StartThread(h) \/ ThreadStarted(h) \/ TurnStarting(h) \/ StartTurn(h, TRUE)
             \/ StartTurn(h, FALSE) \/ TurnStarted(h) \/ TurnHolding(h) \/ AdvanceRequest(h)
      PROVE  res' = res
  BY <1>6 DEF StartHost, ReadRequest, ReadAck, ClaimMkdir, ClaimOwner, ClaimRecheck, ClaimAck,
       RequeueDeadClaim, RecoveryFailed, RequeueLock, RequeueRequest, RequeueAck, ReleaseOwner,
       ReleaseDir, HoldStarted, LockStart, CancelAck, AttachRecovered, StartThread, ThreadStarted,
       TurnStarting, StartTurn, TurnStarted, TurnHolding, AdvanceRequest, files
<1>7. ASSUME NEW h \in Hosts,
             \/ PollGivesUp(h) \/ PollInterrupt(h) \/ Observe(h) \/ LockRecord(h) \/ Record(h)
             \/ DecisionAck(h) \/ FailAck(h) \/ HostReport(h) \/ StartFails(h)
             \/ StartTurnFails(h) \/ PollTimeout(h) \/ HoldFails(h) \/ Crash(h)
      PROVE  res' = res
  BY <1>7 DEF PollGivesUp, PollInterrupt, Observe, LockRecord, Record, DecisionAck, FailAck,
       HostReport, StartFails, StartTurnFails, PollTimeout, HoldFails, Crash, files
<1>8. ASSUME \/ RequestHoldStop \/ CloseBind \/ CloseInspect \/ CloseLatch \/ CloseReport
             \/ RequestHostStop \/ ResumeCheck \/ ResumeRequest \/ ResumeAck \/ UNCHANGED vars
             \/ \E t \in TurnIds, st \in {"completed", "interrupted"} : TurnEnds(t, st)
      PROVE  res' = res
  BY <1>8 DEF RequestHoldStop, CloseBind, CloseInspect, CloseLatch, CloseReport, RequestHostStop,
       ResumeCheck, ResumeRequest, ResumeAck, TurnEnds, files, vars
<1>9. QED
  BY <1>1, <1>2, <1>3, <1>4, <1>5, <1>6, <1>7, <1>8 DEF Next, HostNext, HostFault, CallerNext

LEMMA RidsStayKnown ==
    ASSUME TypeOK, TypeOK', LockDiscipline, RidsKnown, [Next]_vars
    PROVE  RidsKnown' /\ resumer'.rid >= resumer.rid
<1>0. /\ req.rid \in Nat /\ closer.req.rid \in Nat /\ resumer.rid \in Nat
      /\ res # NoResult => res.rid \in Nat
      /\ \A h \in Hosts : my[h].rid \in Nat
  BY DEF TypeOK, Requests, Results, Locals, Closers, Resumers, Rids
<1>1. resumer'.rid \in Nat /\ resumer'.rid >= resumer.rid /\ resumer'.rid >= 1
  <2>1. resumer'.rid = resumer.rid \/ resumer'.rid = resumer.rid + 1
    BY RequestSteps DEF ReqKept, ReqStopped, ReqRecovers, ReqCopied, ReqResumed
  <2>2. resumer.rid >= 1
    BY DEF TypeOK, Resumers, Rids
  <2>3. QED
    BY <1>0, <2>1, <2>2
<1>2. ASSUME NEW r, r \in {1, req.rid, closer.req.rid}
      PROVE  r <= resumer'.rid
  BY <1>0, <1>1, <1>2 DEF RidsKnown
<1>3. ASSUME NEW h \in Hosts
      PROVE  my'[h].rid <= resumer'.rid
  <2>1. my'[h].rid \in {my[h].rid, 1, req.rid}
    BY LocalSteps
  <2>2. my[h].rid <= resumer.rid
    BY DEF RidsKnown
  <2>3. QED
    BY <1>0, <1>1, <1>2, <2>1, <2>2
<1>4. ASSUME res' # NoResult
      PROVE  res'.rid <= resumer'.rid
  <2>1. CASE res' = res \/ (res # NoResult /\ res'.rid = res.rid)
    BY <1>0, <1>1, <1>4, <2>1 DEF RidsKnown
  <2>2. CASE res'.rid = closer.req.rid
    BY <1>2, <2>2
  <2>3. ASSUME NEW h \in Hosts, res'.rid = my[h].rid
        PROVE  res'.rid <= resumer'.rid
    <3>1. my[h].rid <= resumer.rid
      BY DEF RidsKnown
    <3>2. QED
      BY <1>0, <1>1, <2>3, <3>1
  <2>4. QED
    BY <1>4, <2>1, <2>2, <2>3, ResultSteps
<1>5. req'.rid \in {req.rid, closer.req.rid, resumer'.rid}
  <2>1. Latched.rid = closer.req.rid
    BY DEF Latched, TypeOK, Closers, Requests
  <2>2. QED
    BY <2>1, RequestSteps DEF ReqKept, ReqStopped, ReqRecovers, ReqCopied, ReqResumed
<1>6. closer'.req.rid \in {1, req.rid, closer.req.rid}
  BY RequestSteps DEF ReqKept, ReqStopped, ReqRecovers, ReqCopied, ReqResumed, FirstRequest
<1>7. req'.rid <= resumer'.rid /\ closer'.req.rid <= resumer'.rid
  BY <1>1, <1>2, <1>5, <1>6
<1>8. QED
  BY <1>1, <1>3, <1>4, <1>7 DEF RidsKnown

LEMMA CopyStaysKnown ==
    ASSUME TypeOK, LockDiscipline, RidsKnown, CopyKnown, [Next]_vars
    PROVE  CopyKnown'
<1>0. req.rid \in Nat /\ closer.req.rid \in Nat /\ resumer.rid \in Nat
  BY DEF TypeOK, Requests, Closers, Resumers, Rids
<1>1. CASE ReqKept
  BY <1>1 DEF ReqKept, CopyKnown
<1>2. CASE ReqStopped \/ ReqRecovers \/ ReqCopied
  BY <1>2 DEF ReqStopped, ReqRecovers, ReqCopied, CopyKnown, Copying
<1>3. CASE ReqResumed
  BY <1>0, <1>3 DEF ReqResumed, RidsKnown, CopyKnown, Copying
<1>4. QED
  BY <1>1, <1>2, <1>3, RequestSteps

LEMMA RecoveryStaysKnown ==
    ASSUME TypeOK, LockDiscipline, RidsKnown, CopyKnown, RecoveryKnown, [Next]_vars
    PROVE  RecoveryKnown'
<1>0. /\ req.rid \in Nat /\ closer.req.rid \in Nat /\ resumer.rid \in Nat
      /\ \A h \in Hosts : my[h].rid \in Nat /\ my[h].rid <= resumer.rid
      /\ req.rid <= resumer.rid
  BY DEF TypeOK, Requests, Locals, Closers, Resumers, Rids, RidsKnown
<1>1. Latched.rid = closer.req.rid /\ Latched.mode = closer.req.mode /\ Latched.turn = closer.req.turn
  BY DEF Latched, TypeOK, Closers, Requests
<1>2. req'.turn # 0 => req'.mode = "recover"
  BY <1>1, RequestSteps
     DEF ReqKept, ReqStopped, ReqRecovers, ReqCopied, ReqResumed, RecoveryKnown, Bound
<1>3. ASSUME NEW h \in Hosts
      PROVE  \/ my'[h].rid = my[h].rid /\ my'[h].mode = my[h].mode
             \/ my'[h].mode # "recover"
             \/ my'[h].rid = req.rid /\ my'[h].mode = req.mode /\ req' = req
  BY LocalSteps
<1>4. ASSUME NEW h \in Hosts, my'[h].mode = "recover", my'[h].rid = req'.rid
      PROVE  req'.mode = "recover"
  <2>1. CASE my'[h].rid = my[h].rid /\ my'[h].mode = my[h].mode
    <3>1. my[h].mode = "recover" /\ my[h].rid = req'.rid /\ my[h].rid <= resumer.rid
      BY <1>0, <1>4, <2>1
    <3>2. ~ReqResumed
      BY <1>0, <3>1 DEF ReqResumed
    <3>3. QED
      BY <1>1, <3>1, <3>2, RequestSteps
         DEF ReqKept, ReqStopped, ReqRecovers, ReqCopied, RecoveryKnown, Bound
  <2>2. QED
    BY <1>3, <1>4, <2>1
<1>5. ASSUME Copying'
      PROVE  Bound(closer.req)'
  <2>1. CASE closer'.req = req /\ req' = req
    BY <1>2, <1>4, <2>1 DEF Bound
  <2>2. CASE closer'.req = closer.req /\ Copying
    <3>1. Bound(closer.req)
      BY <2>2 DEF RecoveryKnown
    <3>2. ASSUME NEW h \in Hosts, my'[h].mode = "recover", my'[h].rid = closer.req.rid
          PROVE  closer.req.mode = "recover"
      <4>1. CASE my'[h].rid = my[h].rid /\ my'[h].mode = my[h].mode
        BY <3>1, <3>2, <4>1 DEF Bound
      <4>2. CASE my'[h].rid = req.rid /\ my'[h].mode = req.mode
        <5>1. closer.req = req
          BY <1>0, <2>2, <3>2, <4>2 DEF CopyKnown
        <5>2. QED
          BY <3>2, <4>2, <5>1
      <4>3. QED
        BY <1>3, <3>2, <4>1, <4>2
    <3>3. QED
      BY <2>2, <3>1, <3>2 DEF Bound
  <2>3. QED
    BY <1>5, <2>1, <2>2, RequestSteps
       DEF ReqKept, ReqStopped, ReqRecovers, ReqCopied, ReqResumed, Copying
<1>6. ASSUME NEW h \in Hosts, pc'[h] = "advance"
      PROVE  my'[h].mode = "recover"
  BY <1>6, LocalSteps DEF RecoveryKnown
<1>7. QED
  BY <1>2, <1>4, <1>5, <1>6 DEF RecoveryKnown, Bound

\* Hosts do not start while another one runs
LEMMA OneStaysAlive ==
    ASSUME TypeOK, ~Overlap, OneAlive, [Next]_vars
    PROVE  OneAlive'
<1>0. alive \in [Hosts -> BOOLEAN]
  BY DEF TypeOK
<1>1. CASE ~\E h \in Hosts : StartHost(h) \/ Crash(h)
  <2>1. ASSUME NEW h \in Hosts, HostNext(h) \/ HostFault(h)
        PROVE  alive' = alive
    BY <1>1, <2>1 DEF HostNext, HostFault, ReadRequest, ReadAck, ClaimMkdir, ClaimOwner,
       ClaimRecheck, ClaimAck, RequeueDeadClaim, RecoveryFailed, RequeueLock, RequeueRequest,
       RequeueAck, ReleaseOwner, ReleaseDir, HoldStarted, LockStart, StopBeforeDispatch, CancelAck,
       AttachRecovered, StartThread, ThreadStarted, TurnStarting, StartTurn, TurnStarted,
       TurnHolding, AdvanceRequest, PollGivesUp, PollInterrupt, Observe, LockRecord, Record,
       DecisionAck, WriteResult, WriteFailure, FailAck, HolderExit, HostFinally, HostReport,
       StartFails, StartTurnFails, PollTimeout, HoldFails, procs
  <2>2. alive' = alive
    BY <2>1, CallersKeepHosts DEF Next
  <2>3. QED
    BY <2>2 DEF OneAlive
<1>2. ASSUME NEW h \in Hosts, StartHost(h) \/ Crash(h)
      PROVE  OneAlive'
  BY <1>0, <1>2 DEF StartHost, Crash, OneAlive
<1>3. QED
  BY <1>1, <1>2

\* reconcile_hold refuses while a Host is claiming, and while one holds
LEMMA NotReconciled ==
    ASSUME TypeOK, ReconcileHold
    PROVE  ~Refused(req) /\ \A h \in Hosts : alive[h] /\ pc[h] \in HolderPCs => ~Owns(h)
<1>1. ~Refused(req)
  BY DEF ReconcileHold, Refused
<1>2. ASSUME NEW h \in Hosts, alive[h], pc[h] \in HolderPCs, Owns(h)
      PROVE  FALSE
  BY <1>2, HoldConstants DEF ReconcileHold, Owns, Inactive
<1>3. QED
  BY <1>1, <1>2

\* No caller makes a refused reconciliation possible
LEMMA StaysRefused ==
    ASSUME TypeOK, RidsKnown, RecoveryKnown,
           Refused(req), closer.pc = "latch" => Refused(Latched),
           \/ CallerNext
           \/ \E t \in TurnIds, st \in {"completed", "interrupted"} : TurnEnds(t, st)
           \/ UNCHANGED vars
    PROVE  Refused(req)' /\ (closer'.pc = "latch" => Refused(Latched)')
<1>0. /\ req \in Requests /\ closer \in Closers /\ closer.req \in Requests
      /\ resumer \in Resumers /\ resumer.rid \in Nat
      /\ res # NoResult => res \in Results /\ res.rid \in Nat /\ res.rid <= resumer.rid
  BY DEF TypeOK, Requests, Results, Closers, Resumers, Rids, RidsKnown
<1>q. /\ Latched.rid = closer.req.rid /\ Latched.mode = closer.req.mode /\ Latched.stop
      /\ closer' = closer => Latched' = Latched
  BY <1>0 DEF Latched, Requests
<1>1. CASE CloseCancel
  <2> DEFINE observing == closer.req.mode = "recover" \/ closer.req.turn # 0
  <2>1. /\ res'.turn = (IF observing THEN closer.req.turn ELSE 0) /\ ~res'.hs
        /\ req' = Latched /\ closer'.pc = "report"
    BY <1>0, <1>1 DEF CloseCancel, Cancelled, Latched, Closers
  <2>2. observing => closer.req.mode = "recover"
    BY <1>1 DEF CloseCancel, Copying, RecoveryKnown, Bound
  <2>3. QED
    BY <1>q, <2>1, <2>2 DEF Refused
<1>2. CASE CloseLatch
  <2>1. res' = res /\ (req' = req \/ req' = Latched) /\ closer.pc = "latch" /\ closer'.pc = "report"
    BY <1>0, <1>2 DEF CloseLatch, Latched, Closers
  <2>2. QED
    BY <2>1 DEF Refused
<1>3. CASE CloseInspect
  <2>1. res' = res /\ req' = req /\ (closer'.pc = "latch" => closer'.req = req)
    BY <1>0, <1>3 DEF CloseInspect, Closers
  <2>2. closer'.pc = "latch" => Latched' = [req EXCEPT !.stop = TRUE]
    BY <2>1 DEF Latched
  <2>3. QED
    BY <1>0, <2>1, <2>2 DEF Refused, Requests
<1>4. CASE ResumeArchive
  BY <1>4 DEF ResumeArchive, Refused
<1>5. CASE ResumeRequest
  <2>1. res' = res /\ closer' = closer /\ req'.rid = resumer.rid + 1
    BY <1>0, <1>5 DEF ResumeRequest
  <2>2. QED
    BY <1>0, <1>q, <2>1 DEF Refused
<1>6. CASE ReconcileHold
  BY <1>6, NotReconciled
<1>7. CASE ReconcileUndispatched
  BY <1>0, <1>7 DEF ReconcileUndispatched, Refused, Results
<1>8. CASE RequestHoldStop \/ RequestHostStop
  <2>1. /\ res' = res /\ closer' = closer
        /\ req'.rid = req.rid /\ req'.mode = req.mode /\ req'.stop
    BY <1>0, <1>8 DEF RequestHoldStop, RequestHostStop, Requests, callers
  <2>2. QED
    BY <1>q, <2>1 DEF Refused
<1>9. CASE \/ CloseBind \/ CloseReport \/ ResumeCheck \/ ResumeAck
           \/ \E t \in TurnIds, st \in {"completed", "interrupted"} : TurnEnds(t, st)
           \/ UNCHANGED vars
  <2>1. /\ res' = res /\ req' = req
        /\ closer'.pc = "latch" => closer' = closer
    BY <1>0, <1>9 DEF CloseBind, CloseReport, ResumeCheck, ResumeAck, TurnEnds, files, vars,
         callers, Closers
  <2>2. QED
    BY <1>q, <2>1 DEF Refused
<1>10. QED
  BY <1>1, <1>2, <1>3, <1>4, <1>5, <1>6, <1>7, <1>8, <1>9 DEF CallerNext

\* No caller but reconcile_hold touches the claim
LEMMA CallersKeepClaim ==
    ASSUME \/ CallerNext
           \/ \E t \in TurnIds, st \in {"completed", "interrupted"} : TurnEnds(t, st)
           \/ UNCHANGED vars,
           ~ReconcileHold
    PROVE  claim' = claim
BY DEF CallerNext, RequestHoldStop, CloseBind, CloseInspect, CloseLatch, CloseCancel, CloseReport,
       RequestHostStop, ReconcileUndispatched, ResumeCheck, ResumeArchive, ResumeRequest, ResumeAck,
       TurnEnds, vars, files

\* A Host that is claiming, or holds, is the only one that acts
LEMMA SoleActor ==
    ASSUME TypeOK, LockDiscipline, ~Overlap, OneAlive,
           NEW g \in Hosts, HostNext(g) \/ HostFault(g),
           NEW h \in Hosts, pc'[h] # "idle"
    PROVE  g = h
<1> SUFFICES ASSUME g # h PROVE FALSE
  OBVIOUS
<1>1. pc[h] # "idle"
  BY OthersKeep
<1>2. alive[h]
  BY <1>1 DEF LockDiscipline, LockOK
<1>3. ~StartHost(g)
  BY <1>2 DEF StartHost
<1>4. QED
  BY <1>2, <1>3, OnlyAliveAct DEF OneAlive

LEMMA ClaimStep ==
    ASSUME TypeOK, TypeOK', LockDiscipline, ~Overlap, ClaimInv, [Next]_vars
    PROVE  ClaimInv'
<1> DEFINE Unreconciled == Refused(req) /\ (closer.pc = "latch" => Refused(Latched))
<1>0. OneAlive' /\ RidsKnown' /\ CopyKnown' /\ RecoveryKnown'
  BY OneStaysAlive, RidsStayKnown, CopyStaysKnown, RecoveryStaysKnown DEF ClaimInv
<1>1. ASSUME NEW h \in Hosts, pc'[h] \in Claiming \cup OwningPCs
      PROVE  /\ pc'[h] \in Claiming => Unreconciled'
             /\ pc'[h] \in OwningPCs => claim' = [dir |-> TRUE, owner |-> h]
  <2>0. pc'[h] # "idle"
    BY <1>1 DEF Claiming, OwningPCs, HolderPCs
  <2>1. ASSUME NEW g \in Hosts, HostNext(g) \/ HostFault(g)
        PROVE  /\ pc'[h] \in Claiming => Unreconciled'
               /\ pc'[h] \in OwningPCs => claim' = [dir |-> TRUE, owner |-> h]
    <3>1. HostNext(h) \/ HostFault(h)
      BY <2>0, <2>1, SoleActor DEF ClaimInv
    <3>2. ASSUME pc'[h] \in Claiming
          PROVE  Unreconciled'
      <4>1. /\ res' = res /\ req' = req /\ (pc[h] \in Claiming \/ res = NoResult)
            /\ closer' = closer
        BY <3>1, <3>2, OwnStep, HostsKeepCallers
      <4>2. Unreconciled
        BY <4>1 DEF ClaimInv, Refused
      <4>3. QED
        BY <4>1, <4>2 DEF Refused, Latched
    <3>3. ASSUME pc'[h] \in OwningPCs
          PROVE  claim' = [dir |-> TRUE, owner |-> h]
      BY <3>1, <3>3, OwnStep DEF ClaimInv, Owns
    <3>4. QED
      BY <3>2, <3>3
  <2>2. ASSUME \/ CallerNext
               \/ \E t \in TurnIds, st \in {"completed", "interrupted"} : TurnEnds(t, st)
               \/ UNCHANGED vars
        PROVE  /\ pc'[h] \in Claiming => Unreconciled'
               /\ pc'[h] \in OwningPCs => claim' = [dir |-> TRUE, owner |-> h]
    <3>1. pc'[h] = pc[h]
      BY <2>2, CallersKeepHosts
    <3>2. pc'[h] \in Claiming => Unreconciled'
      BY <2>2, <3>1, StaysRefused DEF ClaimInv
    <3>3. ASSUME pc'[h] \in OwningPCs
          PROVE  claim' = [dir |-> TRUE, owner |-> h]
      <4>1. Owns(h) /\ alive[h]
        BY <2>0, <3>1, <3>3 DEF ClaimInv, LockDiscipline, LockOK
      <4>2. pc[h] \in Claiming \/ pc[h] \in HolderPCs
        BY <3>1, <3>3 DEF OwningPCs, Claiming
      <4>3. ~ReconcileHold
        BY <4>1, <4>2, NotReconciled DEF ClaimInv
      <4>4. QED
        BY <2>2, <4>1, <4>3, CallersKeepClaim DEF Owns
    <3>4. QED
      BY <3>2, <3>3
  <2>3. QED
    BY <2>1, <2>2 DEF Next
<1>2. QED
  BY <1>0, <1>1 DEF ClaimInv, Owns

LEMMA ClaimInit == Init => ClaimInv
<1> SUFFICES ASSUME Init
             PROVE  ClaimInv
  OBVIOUS
<1>1. OneAlive
  BY DEF Init, OneAlive
<1>2. RidsKnown /\ CopyKnown /\ RecoveryKnown
  BY DEF Init, RidsKnown, CopyKnown, Copying, RecoveryKnown, Bound, FirstRequest, NoLocals
<1>3. \A h \in Hosts : pc[h] = "idle"
  BY DEF Init
<1>4. QED
  BY <1>1, <1>2, <1>3 DEF ClaimInv, Claiming, OwningPCs, HolderPCs

\* The Host that runs a Hold owns its claim until it has finished, for any number
\* of Hosts, requests and crashes, as long as Hosts do not overlap: neither
\* reconcile_hold nor the requeue of a dead owner's claim takes it away.
THEOREM HoldersOwnClaim == ASSUME ~Overlap PROVE Spec => []HolderOwnsClaim
<1>1. Init => ClaimInv
  BY ClaimInit
<1>2. TypeOK /\ TypeOK' /\ LockDiscipline /\ ClaimInv /\ [Next]_vars => ClaimInv'
  BY ClaimStep
<1>3. ClaimInv => HolderOwnsClaim
  BY DEF ClaimInv, HolderOwnsClaim, OwningPCs, Owns
<1>4. QED
  BY <1>1, <1>2, <1>3, TypeCorrect, LockDisciplineHolds, PTL DEF Spec
=============================================================================
