---------------------------- MODULE HoldQuiet_proofs ----------------------------
(***************************************************************************)
(* The turns of a Hold, when Hosts run one after another (~Overlap).       *)
(*                                                                         *)
(* While at most one Host dies, in whatever place, one turn at a time is   *)
(* in progress, a released or closed Hold has none, and a continuation     *)
(* follows its history (TurnsOneAtATime, ReleasedIsTrue, ClosedIsTrue,     *)
(* HistoryComesFirst).  A second death refutes ReleasedMeansQuiet.  While  *)
(* no Host dies, no turn number is used twice and none is beyond the       *)
(* budget (NoItemRepeated, BudgetKept); one death refutes the first.       *)
(*                                                                         *)
(* The inductive invariants come in four layers, each on top of those      *)
(* before it and of ClaimInv:                                              *)
(*   ProtocolInv  which file says what while the others say something:     *)
(*                when a result stands, whose request a Host holds         *)
(*   RecoveryInv  what recovery knows of the turn of the Host that died    *)
(*   TurnsInv     what files and Hosts know of the turns in progress       *)
(*   NumbersInv   the counters of turns, without recoveries                *)
(***************************************************************************)
EXTENDS HoldClaim_proofs, FiniteSetTheorems

-----------------------------------------------------------------------------
(* The protocol of the files                                               *)

\* The request waits for a Host
Queued == ack.phase = "queued"

\* run_once reads the exact queued request, and has not yet looked again under its claim
Waits(h) == \/ pc[h] = "scanned" /\ scan[h].ack.phase = "queued"
            \/ pc[h] \in {"claiming", "recheck"}

\* The places of a holder with no turn yet, of one that runs turns, of one that dispatches
\* one, of one whose turn is known; and those of a Host that reads or requeues
OpenPCs == {"claimAck", "claimed", "entered", "starting"}
RunPCs == {"threadStarting", "dispatch", "sending", "sent", "started", "attached",
           "advance", "observing", "decided", "recording", "recorded", "result"}
DispatchPCs == {"threadStarting", "dispatch", "sending"}
TurnPCs == RunPCs \ DispatchPCs
ScanPCs == {"scanned", "claiming", "recheck", "requeue", "requeueLock", "requeueing", "requeueAck"}

\* Why resume_with_monitor refuses when q is the request and res the result
Unresumable(q) ==
    \/ res.rid # q.rid
    \/ res.turn = 0 /\ ~res.thread
    \/ ~res.hs /\ ~res.conf /\ res.status = "unknown" /\ q.mode = "recover" /\ q.stop

\* A result that stands beside a queued or claimed request does not let it be resumed
Unresumed == res # NoResult => Unresumable(req) /\ (closer.pc = "latch" => Unresumable(Latched))

FilesKnown ==
    /\ ~claim.dir => claim.owner = Nobody
    /\ claim.owner \in Hosts => alive[claim.owner] \/ claim.owner \in crashed
    /\ resumer.pc # "idle" => ~Queued /\ ~claim.dir
    /\ Queued \/ resumer.pc \in {"archived", "written"} => Unresumed
    /\ Queued => ack.turn = 0
    /\ req.mode = "recover" => req.turn # 0
    /\ Copying => /\ closer.req.mode = "recover" => closer.req.turn # 0
                  /\ req.mode = "recover" => closer.req.rid = req.rid
    /\ res = NoResult /\ resumer.pc = "idle" /\ ack.turn # 0
         => ack.rid = req.rid /\ (closer.pc = "latch" => closer.req.rid = req.rid)

HostKnown(h) ==
    /\ alive[h] => h \notin crashed
    /\ pc[h] = "claiming" => claim.dir
    /\ Waits(h) => resumer.pc = "idle"
    /\ pc[h] \in ScanPCs => Unresumed
    /\ pc[h] = "claimAck" => scan[h].ack.turn = 0
    /\ pc[h] \in {"requeueLock", "requeueing"} => RecoveredTurn(h) # 0 /\ scan[h].dead \in Hosts
    /\ pc[h] = "requeueAck" => claim.owner \in Hosts
    /\ pc[h] \in HolderPCs => ~Queued
    /\ pc[h] \in {"cancelAck", "failAck"} => res # NoResult
    /\ pc[h] \in OpenPCs \cup RunPCs => res = NoResult \/ req.stop
    /\ pc[h] \in RunPCs => my[h].rid = req.rid /\ (Copying => closer.req.rid = req.rid)
    /\ pc[h] \in {"entered", "starting"} => (my[h].mode = "recover" <=> my[h].turn # 0)
    /\ pc[h] \in DispatchPCs => ~my[h].conf /\ my[h].turn = 0
    /\ pc[h] = "sending" => ~my[h].notSent /\ ack.turn = 0
    /\ pc[h] \in TurnPCs => my[h].turn # 0
    /\ pc[h] \in {"decided", "recording", "recorded", "result"} => my[h].conf

ProtocolInv == FilesKnown /\ \A h \in Hosts : HostKnown(h)

-----------------------------------------------------------------------------
(* What a Host writes to result.json is a result                           *)
LEMMA HostResultTyped ==
    ASSUME TypeOK, LockDiscipline, NEW h \in Hosts
    PROVE  /\ StopBeforeDispatch(h) \/ WriteResult(h) \/ WriteFailure(h) => res' \in Results
           /\ (HolderExit(h) \/ HostFinally(h)) /\ res # NoResult => res' \in Results
<1>1. ASSUME StopBeforeDispatch(h) PROVE res' \in Results
  BY <1>1 DEF TypeOK, StopBeforeDispatch, Cancelled, Results, Locals, Statuses, Rids
<1>2. ASSUME WriteResult(h) PROVE res' \in Results
  BY <1>2, HoldConstants DEF TypeOK, WriteResult, Running, Goto, Results,
     Locals, Statuses, Modes, Rids, TurnIds, LockDiscipline, DecisionOK
<1>3. ASSUME WriteFailure(h) PROVE res' \in Results
  BY <1>3, HoldConstants DEF TypeOK, WriteFailure, Running, Goto,
     Results, Locals, Turns, Statuses, Modes, Rids, TurnIds
<1>4. ASSUME HolderExit(h), res # NoResult PROVE res' \in Results
  <2>1. res \in Results
    BY <1>4 DEF TypeOK
  <2> DEFINE exited == [res EXCEPT !.exit = @ \/ res.hs]
  <2>2. exited \in Results
    BY <2>1, ZenonT(60) DEF Results
  <2>3. [exited EXCEPT !.obs = TRUE] \in Results
    BY <2>2, ZenonT(60) DEF Results
  <2>4. QED
    BY <1>4, <2>2, <2>3, Zenon DEF HolderExit
<1>5. ASSUME HostFinally(h), res # NoResult PROVE res' \in Results
  <2>1. res \in Results
    BY <1>5 DEF TypeOK
  <2>2. \A b \in BOOLEAN : [res EXCEPT !.hexit = TRUE, !.conf = b] \in Results
    BY <2>1, ZenonT(60) DEF Results
  <2>3. (res.conf \/ OwnerProof) \in BOOLEAN
    BY Zenon
  <2>4. QED
    BY <1>5, <2>1, <2>2, <2>3, Zenon DEF HostFinally
<1>6. QED
  BY <1>1, <1>2, <1>3, <1>4, <1>5

\* hold_task's variables keep the request, the base and the mode, but for those of a new Hold
LEMMA ObserveFields ==
    ASSUME TypeOK, NEW h \in Hosts, PollGivesUp(h) \/ PollInterrupt(h) \/ Observe(h)
    PROVE  /\ my'[h].rid = my[h].rid /\ my'[h].turn = my[h].turn
           /\ my'[h].mode = my[h].mode /\ my'[h].count = my[h].count
           /\ my'[h].notSent = my[h].notSent /\ my'[h].thread = my[h].thread
           /\ pc'[h] # "decided" => my'[h].conf = my[h].conf
           /\ pc'[h] = "decided" => my'[h].conf
<1> DEFINE Keeps(v) == /\ v.rid = my[h].rid /\ v.turn = my[h].turn
                       /\ v.mode = my[h].mode /\ v.count = my[h].count
                       /\ v.notSent = my[h].notSent /\ v.thread = my[h].thread
           KeepsConf(v) == v.conf = my[h].conf
<1>1. /\ my \in [Hosts -> Locals] /\ pc \in [Hosts -> PCs]
  BY DEF TypeOK
<1>2. /\ \A x, y : Keeps([my[h] EXCEPT !.sel = x, !.fail = y])
      /\ \A x, y : KeepsConf([my[h] EXCEPT !.sel = x, !.fail = y])
      /\ \A x, y : Keeps([my[h] EXCEPT !.sel = x, !.latched = y])
      /\ \A x, y : KeepsConf([my[h] EXCEPT !.sel = x, !.latched = y])
      /\ \A x : Keeps([my[h] EXCEPT !.dec = x, !.conf = TRUE])
      /\ \A x : [my[h] EXCEPT !.dec = x, !.conf = TRUE].conf
      /\ \A x : Keeps([my[h] EXCEPT !.fail = x])
      /\ \A x : KeepsConf([my[h] EXCEPT !.fail = x])
  BY <1>1, Zenon DEF Locals
<1> HIDE DEF Keeps, KeepsConf
<1>3. CASE PollGivesUp(h) \/ PollInterrupt(h)
  <2>1. \E v : Keeps(v) /\ KeepsConf(v) /\ my' = [my EXCEPT ![h] = v]
    BY <1>2, <1>3, Zenon DEF PollGivesUp, PollInterrupt
  <2>2. pc'[h] # "decided"
    BY <1>1, <1>3 DEF PollGivesUp, PollInterrupt, Running, Goto
  <2>3. QED
    BY <1>1, <2>1, <2>2 DEF Keeps, KeepsConf
<1>4. CASE Observe(h)
  <2>1. \/ /\ \E v : Keeps(v) /\ KeepsConf(v) /\ my' = [my EXCEPT ![h] = v]
           /\ Goto(h, "failing")
        \/ /\ \E v : Keeps(v) /\ v.conf /\ my' = [my EXCEPT ![h] = v]
           /\ Goto(h, "decided")
    BY <1>2, <1>4, Zenon DEF Observe, Fail
  <2>2. QED
    BY <1>1, <2>1 DEF Keeps, KeepsConf, Goto
<1>5. QED
  BY <1>3, <1>4

\* On CONTINUE the turn id is forgotten
LEMMA ContinueFields ==
    ASSUME TypeOK, NEW h \in Hosts, DecisionAck(h)
    PROVE  \/ /\ pc'[h] = "dispatch" /\ Continues(h)
              /\ my'[h].rid = my[h].rid /\ my'[h].mode = my[h].mode
              /\ my'[h].dec = my[h].dec /\ my'[h].count = my[h].count
              /\ my'[h].turn = 0 /\ ~my'[h].conf /\ my'[h].notSent
           \/ pc'[h] = "result" /\ ~Continues(h) /\ my' = my
<1> DEFINE v == [my[h] EXCEPT !.conf = FALSE, !.turn = 0, !.notSent = TRUE]
<1>1. my \in [Hosts -> Locals] /\ pc \in [Hosts -> PCs]
  BY DEF TypeOK
<1>2. /\ v.rid = my[h].rid /\ v.mode = my[h].mode /\ v.dec = my[h].dec /\ v.count = my[h].count
      /\ v.turn = 0 /\ v.conf = FALSE /\ v.notSent = TRUE
  BY <1>1, Zenon DEF Locals
<1> HIDE DEF v
<1>3. \/ Goto(h, "dispatch") /\ Continues(h) /\ my' = [my EXCEPT ![h] = v]
      \/ Goto(h, "result") /\ ~Continues(h) /\ my' = my
  BY Zenon DEF DecisionAck, v
<1>4. QED
  BY <1>1, <1>2, <1>3 DEF Goto

-----------------------------------------------------------------------------
(* The protocol, part by part                                              *)

\* A Host's own step
LEMMA HostStepKnown ==
    ASSUME TypeOK, TypeOK', LockDiscipline, ClaimInv, FilesKnown,
           NEW h \in Hosts, HostKnown(h), HostNext(h) \/ HostFault(h)
    PROVE  HostKnown(h)' /\ FilesKnown'
<1> DEFINE Known == HostKnown(h) /\ FilesKnown
<1>0. /\ req \in Requests /\ ack \in Acks /\ (res # NoResult => res \in Results) /\ claim \in Claims
      /\ pc \in [Hosts -> PCs] /\ scan \in [Hosts -> Scans] /\ my \in [Hosts -> Locals]
      /\ alive \in [Hosts -> BOOLEAN] /\ closer \in Closers /\ resumer \in Resumers
      /\ scan[h] \in Scans /\ my[h] \in Locals /\ closer.req \in Requests
      /\ my' \in [Hosts -> Locals] /\ scan' \in [Hosts -> Scans] /\ my'[h] \in Locals
  BY DEF TypeOK, Closers
<1>1. /\ pc[h] \in OwningPCs => Owns(h)
      /\ pc[h] \in LockedPCs \/ (pc[h] = "started" /\ my[h].dec = "CONTINUE") => rlock = h
      /\ Copying => rlock = Closer
      /\ pc[h] # "idle" => alive[h]
  BY DEF LockDiscipline, LockOK, Copying, ClaimInv
<1>2. closer' = closer /\ resumer' = resumer /\ Copying' = Copying
  BY HostsKeepCallers DEF Copying
<1>3. req' = req /\ res' = res => Unresumed' = Unresumed
  BY <1>2 DEF Unresumed, Unresumable, Latched
<1>4. res = NoResult => Unresumed
  BY DEF Unresumed
(* the scan *)
<1>5. CASE StartHost(h) \/ ReadRequest(h)
  BY <1>0, <1>1, <1>2, <1>3, <1>5 DEF StartHost, ReadRequest, Running, Goto, files, procs, HostKnown,
     FilesKnown, Waits, Queued, Copying, ScanPCs, HolderPCs, OpenPCs, RunPCs, DispatchPCs, TurnPCs
<1>6. CASE ReadAck(h)
  <2>1. /\ req' = req /\ res' = res /\ ack' = ack /\ claim' = claim
        /\ alive' = alive /\ crashed' = crashed
        /\ \/ pc'[h] = "idle"
           \/ pc'[h] = "scanned" /\ scan'[h].ack = ack /\ res = NoResult
    BY <1>0, <1>6 DEF ReadAck, ScanEnds, Goto, Scans, files, procs
  <2>2. HostKnown(h)'
    BY <1>2, <1>3, <1>4, <2>1 DEF HostKnown, FilesKnown, Waits, Queued, ScanPCs, HolderPCs, OpenPCs,
       RunPCs, DispatchPCs, TurnPCs
  <2>3. FilesKnown'
    BY <1>2, <1>3, <2>1 DEF FilesKnown, Queued, Copying
  <2>4. QED
    BY <2>2, <2>3
<1>7. CASE ClaimMkdir(h)
  <2>1. /\ req' = req /\ res' = res /\ ack' = ack /\ scan' = scan
        /\ alive' = alive /\ crashed' = crashed /\ pc[h] = "scanned"
        /\ \/ pc'[h] = "requeue" /\ claim' = claim
           \/ /\ pc'[h] = "claiming" /\ Waits(h)
              /\ ~claim.dir /\ claim'.dir /\ claim'.owner = claim.owner
    BY <1>0, <1>7 DEF ClaimMkdir, Running, MayClaim, Goto, Claims, Waits, files, procs
  <2>2. HostKnown(h)'
    BY <1>2, <1>3, <2>1 DEF HostKnown, Waits, ScanPCs, HolderPCs, OpenPCs, RunPCs, DispatchPCs, TurnPCs
  <2>3. FilesKnown'
    BY <1>2, <1>3, <2>1, HoldConstants DEF FilesKnown, Queued, Copying, HostKnown
  <2>4. QED
    BY <2>2, <2>3
<1>8. CASE ClaimOwner(h)
  <2>1. /\ req' = req /\ res' = res /\ ack' = ack /\ scan' = scan
        /\ alive' = alive /\ crashed' = crashed /\ alive[h] /\ pc[h] = "claiming"
        /\ pc'[h] = "recheck" /\ claim'.dir /\ claim'.owner = h
    BY <1>0, <1>8 DEF ClaimOwner, Running, Goto, files, procs
  <2>2. HostKnown(h)'
    BY <1>2, <1>3, <2>1 DEF HostKnown, Waits, ScanPCs, HolderPCs, OpenPCs, RunPCs, DispatchPCs, TurnPCs
  <2>3. FilesKnown'
    BY <1>2, <1>3, <2>1 DEF FilesKnown, Queued, Copying, HostKnown, Waits
  <2>4. QED
    BY <2>2, <2>3
<1>9. CASE ClaimRecheck(h)
  <2>1. /\ req' = req /\ res' = res /\ ack' = ack /\ claim' = claim
        /\ alive' = alive /\ crashed' = crashed
        /\ \/ pc'[h] = "unlink"
           \/ pc'[h] = "claimAck" /\ scan'[h].ack = ack /\ res = NoResult /\ Queued
    BY <1>0, <1>9 DEF ClaimRecheck, StillQueued, Queued, Goto, Scans, files, procs
  <2>2. HostKnown(h)'
    BY <1>2, <1>3, <2>1 DEF HostKnown, FilesKnown, Waits, ScanPCs, HolderPCs, OpenPCs, RunPCs,
       DispatchPCs, TurnPCs
  <2>3. FilesKnown'
    BY <1>2, <1>3, <2>1 DEF FilesKnown, Queued, Copying
  <2>4. QED
    BY <2>2, <2>3
<1>10. CASE ClaimAck(h)
  <2>1. /\ req' = req /\ res' = res /\ claim' = claim /\ scan' = scan
        /\ alive' = alive /\ crashed' = crashed /\ pc[h] = "claimAck"
        /\ pc'[h] = "claimed" /\ ack'.phase = "claimed" /\ ack'.turn = scan[h].ack.turn
    BY <1>0, <1>10 DEF ClaimAck, Running, Goto, Scans, Acks, files, procs
  <2>2. claim.dir
    BY <1>1, <2>1 DEF OwningPCs, Owns
  <2>3. HostKnown(h)'
    BY <1>2, <1>3, <2>1 DEF HostKnown, Queued, Waits, ScanPCs, HolderPCs, OpenPCs, RunPCs, DispatchPCs,
       TurnPCs
  <2>4. FilesKnown'
    BY <1>2, <1>3, <2>1, <2>2 DEF FilesKnown, Queued, Copying, HostKnown
  <2>5. QED
    BY <2>3, <2>4
(* the requeue of a dead owner's claim *)
<1>11. CASE RequeueDeadClaim(h)
  <2>1. /\ req' = req /\ res' = res /\ ack' = ack /\ claim' = claim
        /\ alive' = alive /\ crashed' = crashed /\ pc[h] = "requeue"
        /\ \/ pc'[h] = "idle" \/ pc'[h] = "recoveryFailed"
           \/ /\ pc'[h] = "requeueLock" /\ scan'[h].ack = scan[h].ack /\ scan'[h].req = scan[h].req
              /\ RecoveredTurn(h) # 0 /\ scan'[h].dead \in Hosts
    BY <1>0, <1>11 DEF RequeueDeadClaim, Running, ScanEnds, Goto, Scans, files, procs
  <2>2. HostKnown(h)'
    BY <1>2, <1>3, <2>1 DEF HostKnown, RecoveredTurn, Waits, ScanPCs, HolderPCs, OpenPCs, RunPCs,
       DispatchPCs, TurnPCs
  <2>3. FilesKnown'
    BY <1>2, <1>3, <2>1 DEF FilesKnown, Queued, Copying
  <2>4. QED
    BY <2>2, <2>3
<1>12. CASE RecoveryFailed(h)
  <2>1. /\ req' = req /\ res' = res /\ claim' = claim /\ scan' = scan
        /\ alive' = alive /\ crashed' = crashed
        /\ pc'[h] = "unlink" /\ ack'.phase = "recovery_failed" /\ ack'.turn = 0
    BY <1>0, <1>12 DEF RecoveryFailed, Goto, files, procs
  <2>2. HostKnown(h)'
    BY <1>2, <2>1 DEF HostKnown, Waits, ScanPCs, HolderPCs, OpenPCs, RunPCs, DispatchPCs, TurnPCs
  <2>3. FilesKnown'
    BY <1>2, <1>3, <2>1 DEF FilesKnown, Queued, Copying
  <2>4. QED
    BY <2>2, <2>3
<1>13. CASE RequeueLock(h)
  <2>1. /\ req' = req /\ res' = res /\ ack' = ack /\ claim' = claim
        /\ alive' = alive /\ crashed' = crashed /\ pc[h] = "requeueLock"
        /\ \/ pc'[h] = "idle"
           \/ pc'[h] = "requeueing" /\ scan' = scan
    BY <1>0, <1>13 DEF RequeueLock, Running, ScanEnds, Goto, files, procs
  <2>2. HostKnown(h)'
    BY <1>2, <1>3, <2>1 DEF HostKnown, RecoveredTurn, Waits, ScanPCs, HolderPCs, OpenPCs, RunPCs,
       DispatchPCs, TurnPCs
  <2>3. FilesKnown'
    BY <1>2, <1>3, <2>1 DEF FilesKnown, Queued, Copying
  <2>4. QED
    BY <2>2, <2>3
<1>14. CASE RequeueRequest(h)
  <2>1. /\ res' = res /\ ack' = ack /\ claim' = claim /\ alive' = alive /\ crashed' = crashed
        /\ pc[h] = "requeueing"
    BY <1>14 DEF RequeueRequest, Running, files, procs
  <2>2. ~Copying
    BY <1>1, <2>1, HoldConstants DEF LockedPCs
  <2>3. \/ pc'[h] = "idle" /\ req' = req
        \/ /\ pc'[h] = "requeueAck" /\ claim.owner = scan[h].dead
           /\ req'.rid = req.rid /\ req'.mode = "recover" /\ req'.turn = RecoveredTurn(h)
           /\ req.stop => req'.stop
    <3>1. CASE ~(claim.owner = scan[h].dead /\ req.rid = scan[h].req.rid)
      BY <1>0, <1>14, <3>1 DEF RequeueRequest, ScanEnds, Goto
    <3>2. CASE claim.owner = scan[h].dead /\ req.rid = scan[h].req.rid
      <4> DEFINE base == IF scan[h].ack.count = 0 THEN 1 ELSE scan[h].ack.count
                 q == [scan[h].req EXCEPT !.mode = RecoveryMode(h), !.turn = RecoveredTurn(h),
                                          !.base = base, !.stop = scan[h].req.stop \/ req.stop]
      <4>1. scan[h].req \in Requests
        BY <1>0 DEF Scans
      <4>2. q.rid = scan[h].req.rid /\ q.mode = "recover" /\ q.turn = RecoveredTurn(h)
        BY <4>1 DEF Requests, RecoveryMode
      <4>3. q.stop = (scan[h].req.stop \/ req.stop)
        BY <4>1, Zenon DEF Requests
      <4>4. req' = q /\ pc'[h] = "requeueAck"
        BY <1>0, <1>14, <3>2 DEF RequeueRequest, Goto
      <4> HIDE DEF q
      <4>5. QED
        BY <3>2, <4>2, <4>3, <4>4
    <3>3. QED
      BY <3>1, <3>2
  <2>4. RecoveredTurn(h) # 0 /\ scan[h].dead \in Hosts /\ Unresumed
    BY <2>1 DEF HostKnown, ScanPCs
  <2>5. Unresumed'
    BY <1>2, <2>1, <2>2, <2>3, <2>4 DEF Unresumed, Unresumable, Copying
  <2>6. HostKnown(h)'
    BY <1>2, <2>1, <2>3, <2>4, <2>5 DEF HostKnown, Waits, ScanPCs, HolderPCs, OpenPCs, RunPCs,
       DispatchPCs, TurnPCs
  <2>7. FilesKnown'
    BY <1>2, <2>1, <2>2, <2>3, <2>4, <2>5 DEF FilesKnown, Queued, Copying
  <2>8. QED
    BY <2>6, <2>7
<1>15. CASE RequeueAck(h)
  <2>1. /\ req' = req /\ res' = res /\ claim' = claim /\ scan' = scan
        /\ alive' = alive /\ crashed' = crashed /\ pc[h] = "requeueAck"
        /\ pc'[h] = "unlink" /\ ack'.turn = 0
    BY <1>0, <1>15 DEF RequeueAck, Running, Goto, files, procs
  <2>2. claim.owner \in Hosts /\ Unresumed
    BY <2>1 DEF HostKnown, ScanPCs
  <2>3. HostKnown(h)'
    BY <1>2, <2>1 DEF HostKnown, Waits, ScanPCs, HolderPCs, OpenPCs, RunPCs, DispatchPCs, TurnPCs
  <2>4. FilesKnown'
    BY <1>2, <1>3, <2>1, <2>2, HoldConstants DEF FilesKnown, Queued, Copying
  <2>5. QED
    BY <2>3, <2>4
<1>16. CASE ReleaseOwner(h) \/ ReleaseDir(h)
  <2>1. /\ req' = req /\ res' = res /\ ack' = ack /\ alive' = alive /\ crashed' = crashed
        /\ pc'[h] \in {"rmdir", "report", "idle"}
    BY <1>0, <1>16 DEF ReleaseOwner, ReleaseDir, ScanEnds, Goto, files, procs
  <2>2. \/ claim'.owner = Nobody /\ claim'.dir = claim.dir
        \/ claim'.owner = claim.owner /\ claim'.dir = (claim.owner # Nobody)
    <3>1. ASSUME NEW x PROVE [claim EXCEPT !.dir = x].owner = claim.owner /\ [claim EXCEPT !.dir = x].dir = x
      BY <1>0, Zenon DEF Claims
    <3>2. ASSUME ReleaseDir(h)
          PROVE  claim' = [claim EXCEPT !.dir = (claim.owner # Nobody)]
      BY <3>2, Zenon DEF ReleaseDir
    <3>3. QED
      BY <1>0, <1>16, <3>1, <3>2 DEF ReleaseOwner, Claims
  <2>3. HostKnown(h)'
    BY <2>1 DEF HostKnown, Waits, ScanPCs, HolderPCs, OpenPCs, RunPCs, DispatchPCs, TurnPCs
  <2>4. FilesKnown'
    BY <1>2, <1>3, <2>1, <2>2, HoldConstants DEF FilesKnown, Queued, Copying
  <2>5. QED
    BY <2>3, <2>4
(* the holder, to its first dispatch *)
<1>17. CASE HoldStarted(h)
  <2>1. /\ req' = req /\ res' = res /\ claim' = claim /\ alive' = alive /\ crashed' = crashed
        /\ pc[h] = "claimed" /\ pc'[h] = "entered"
        /\ ack'.phase = "hold_started" /\ ack'.rid = req.rid
        /\ my'[h].mode = req.mode /\ my'[h].turn = (IF req.mode = "recover" THEN req.turn ELSE 0)
    BY <1>0, <1>17 DEF HoldStarted, Running, Goto, files, procs
  <2>2. ack'.turn = my'[h].turn
    BY <1>0, <1>17 DEF HoldStarted
  <2>3. HostKnown(h)'
    BY <1>2, <2>1 DEF HostKnown, FilesKnown, Queued, Waits, ScanPCs, HolderPCs, OpenPCs, RunPCs,
       DispatchPCs, TurnPCs
  <2>4. FilesKnown'
    BY <1>1, <1>2, <1>3, <2>1, <2>2 DEF FilesKnown, Queued, Copying, OwningPCs, HolderPCs, Owns
  <2>5. QED
    BY <2>3, <2>4
<1>18. CASE LockStart(h) \/ CancelAck(h)
  BY <1>0, <1>1, <1>2, <1>3, <1>18 DEF LockStart, CancelAck, EndedAck, Running, Goto, Fail, files,
     procs, HostKnown, FilesKnown, Waits, Queued, Copying, Owns, OwningPCs, ScanPCs, HolderPCs,
     OpenPCs, RunPCs, DispatchPCs, TurnPCs
<1>19. CASE AttachRecovered(h)
  <2>1. /\ req' = req /\ res' = res /\ claim' = claim /\ my' = my
        /\ alive' = alive /\ crashed' = crashed
        /\ pc[h] = "starting" /\ pc'[h] = "attached" /\ req.rid = my[h].rid /\ my[h].mode = "recover"
        /\ ack'.phase # "queued" /\ ack'.rid = my[h].rid
    BY <1>0, <1>19 DEF AttachRecovered, Running, Goto, Acks, files, procs
  <2>2. claim.dir /\ ~Copying
    BY <1>1, <2>1, HoldConstants DEF OwningPCs, HolderPCs, Owns, LockedPCs
  <2>3. HostKnown(h)'
    BY <1>2, <2>1, <2>2 DEF HostKnown, Queued, Waits, ScanPCs, HolderPCs, OpenPCs, RunPCs,
       DispatchPCs, TurnPCs
  <2>4. FilesKnown'
    BY <1>2, <1>3, <2>1, <2>2 DEF FilesKnown, Queued, Copying
  <2>5. QED
    BY <2>3, <2>4
<1>20. CASE StartThread(h) \/ ThreadStarted(h)
  <2>1. /\ req' = req /\ res' = res /\ claim' = claim /\ alive' = alive /\ crashed' = crashed
        /\ pc[h] \in {"starting", "threadStarting"} /\ pc'[h] \in {"threadStarting", "dispatch"}
        /\ ack' = ack \/ (ack'.phase # "queued" /\ ack'.rid = my[h].rid /\ ack'.turn = 0)
    BY <1>0, <1>20 DEF StartThread, ThreadStarted, Running, Goto, files, procs
  <2>2. /\ my'[h].rid = my[h].rid /\ my'[h].turn = my[h].turn
        /\ pc[h] = "starting" => req.rid = my[h].rid /\ ~my'[h].conf /\ my[h].mode # "recover"
        /\ pc[h] = "threadStarting" => my'[h].conf = my[h].conf
    BY <1>0, <1>20 DEF StartThread, ThreadStarted, Running, Locals
  <2>3. claim.dir /\ ~Copying
    BY <1>1, <2>1, HoldConstants DEF OwningPCs, HolderPCs, Owns, LockedPCs
  <2>4. HostKnown(h)'
    BY <1>2, <2>1, <2>2, <2>3 DEF HostKnown, Queued, Waits, ScanPCs, HolderPCs, OpenPCs,
       RunPCs, DispatchPCs, TurnPCs
  <2>5. FilesKnown'
    BY <1>2, <1>3, <2>1, <2>2, <2>3 DEF HostKnown, HolderPCs, FilesKnown, Queued, Copying
  <2>6. QED
    BY <2>4, <2>5
<1>21. CASE StopBeforeDispatch(h)
  <2>1. /\ req' = req /\ ack' = ack /\ claim' = claim /\ my' = my
        /\ alive' = alive /\ crashed' = crashed /\ pc[h] = "starting" /\ pc'[h] = "cancelAck"
        /\ res' = Cancelled(my[h].rid, TRUE, 0)
    BY <1>0, <1>21 DEF StopBeforeDispatch, Running, Goto, procs
  <2>2. res' # NoResult
    BY <1>21, HostResultTyped, NoResultIsNone
  <2>3. claim.dir
    BY <1>1, <2>1 DEF OwningPCs, HolderPCs, Owns
  <2>4. HostKnown(h)'
    BY <1>2, <2>1, <2>2 DEF HostKnown, Queued, Waits, ScanPCs, HolderPCs, OpenPCs, RunPCs, DispatchPCs,
       TurnPCs
  <2>5. FilesKnown'
    BY <1>2, <2>1, <2>2, <2>3 DEF HostKnown, HolderPCs, FilesKnown, Queued, Copying
  <2>6. QED
    BY <2>4, <2>5
(* a turn, and the next one *)
<1>22. CASE TurnStarting(h)
  <2>1. /\ req' = req /\ res' = res /\ claim' = claim /\ alive' = alive /\ crashed' = crashed
        /\ pc[h] = "dispatch" /\ pc'[h] = "sending"
        /\ ack'.phase # "queued" /\ ack'.rid = my[h].rid /\ ack'.turn = my[h].turn
        /\ my'[h].rid = my[h].rid /\ my'[h].turn = my[h].turn /\ my'[h].conf = my[h].conf
        /\ ~my'[h].notSent
    BY <1>0, <1>22 DEF TurnStarting, Running, Goto, Locals, files, procs
  <2>2. HostKnown(h)'
    BY <1>2, <2>1 DEF HostKnown, Queued, Waits, ScanPCs, HolderPCs, OpenPCs, RunPCs, DispatchPCs, TurnPCs
  <2>3. FilesKnown'
    BY <1>1, <1>2, <1>3, <2>1 DEF HostKnown, HolderPCs, DispatchPCs, FilesKnown, Queued, Copying
  <2>4. QED
    BY <2>2, <2>3
<1>23. CASE StartTurn(h, TRUE) \/ StartTurn(h, FALSE)
  <2>1. /\ req' = req /\ res' = res /\ ack' = ack /\ claim' = claim
        /\ alive' = alive /\ crashed' = crashed /\ pc[h] = "sending"
        /\ \/ pc'[h] = "sent" /\ my'[h].rid = my[h].rid /\ my'[h].turn = issued + 1
           \/ pc'[h] = "failing"
    BY <1>0, <1>23 DEF StartTurn, Fail, Running, Goto, Locals, procs
  <2>2. issued + 1 # 0
    BY DEF TypeOK
  <2>3. HostKnown(h)'
    BY <1>2, <2>1, <2>2 DEF HostKnown, Queued, Waits, ScanPCs, HolderPCs, OpenPCs, RunPCs, DispatchPCs,
       TurnPCs
  <2>4. FilesKnown'
    BY <1>2, <1>3, <2>1 DEF FilesKnown, Queued, Copying
  <2>5. QED
    BY <2>3, <2>4
<1>24. CASE TurnStarted(h) \/ TurnHolding(h)
  <2>1. /\ req' = req /\ res' = res /\ claim' = claim /\ alive' = alive /\ crashed' = crashed
        /\ pc[h] \in {"sent", "started", "attached"} /\ pc'[h] \in {"started", "advance", "observing"}
        /\ ack'.phase # "queued" /\ ack'.rid = my[h].rid
        /\ my'[h].rid = my[h].rid /\ my'[h].turn = my[h].turn
    BY <1>0, <1>24 DEF TurnStarted, TurnHolding, Running, Goto, Locals, files, procs
  <2>2. my[h].rid = req.rid /\ (Copying => closer.req.rid = req.rid)
    BY <2>1 DEF HostKnown, RunPCs
  <2>3. HostKnown(h)'
    BY <1>2, <2>1 DEF HostKnown, Queued, Waits, ScanPCs, HolderPCs, OpenPCs, RunPCs, DispatchPCs, TurnPCs
  <2>4. FilesKnown'
    BY <1>2, <1>3, <2>1, <2>2 DEF HostKnown, HolderPCs, FilesKnown, Queued, Copying
  <2>5. QED
    BY <2>3, <2>4
<1>25. CASE AdvanceRequest(h)
  <2>1. /\ res' = res /\ ack' = ack /\ claim' = claim /\ alive' = alive /\ crashed' = crashed
        /\ pc[h] = "advance"
        /\ \/ pc'[h] = "failing" /\ req' = req
           \/ /\ pc'[h] = "observing" /\ my' = my
              /\ req'.rid = req.rid /\ req'.mode = req.mode /\ req'.stop = req.stop
              /\ req'.turn = my[h].turn
    BY <1>0, <1>25 DEF AdvanceRequest, Fail, Running, Goto, Requests, procs
  <2>2. /\ claim.dir /\ ~Copying
        /\ my[h].turn # 0
    BY <1>1, <2>1, HoldConstants DEF OwningPCs, HolderPCs, Owns, LockedPCs, HostKnown, TurnPCs, RunPCs,
       DispatchPCs
  <2>3. HostKnown(h)'
    BY <1>2, <2>1, <2>2 DEF HostKnown, Queued, Waits, ScanPCs, HolderPCs, OpenPCs, RunPCs, DispatchPCs,
       TurnPCs
  <2>4. FilesKnown'
    BY <1>2, <1>3, <2>1, <2>2 DEF HostKnown, HolderPCs, FilesKnown, Queued, Copying
  <2>5. QED
    BY <2>3, <2>4
<1>26. CASE PollGivesUp(h) \/ PollInterrupt(h)
  <2>1. /\ req' = req /\ res' = res /\ claim' = claim /\ alive' = alive /\ crashed' = crashed
        /\ pc[h] = "observing" /\ pc'[h] \in {"failing", "observing"}
        /\ ack' = ack \/ (ack'.phase # "queued" /\ ack'.rid = my[h].rid)
    BY <1>0, <1>26 DEF PollGivesUp, PollInterrupt, Running, Goto, files, procs
  <2>2. my'[h].rid = my[h].rid /\ my'[h].turn = my[h].turn
    BY <1>26, ObserveFields
  <2>3. my[h].rid = req.rid /\ (Copying => closer.req.rid = req.rid)
    BY <2>1 DEF HostKnown, RunPCs
  <2>4. HostKnown(h)'
    BY <1>2, <2>1, <2>2 DEF HostKnown, Queued, Waits, ScanPCs, HolderPCs, OpenPCs, RunPCs, DispatchPCs,
       TurnPCs
  <2>5. FilesKnown'
    BY <1>2, <1>3, <2>1, <2>3 DEF HostKnown, HolderPCs, FilesKnown, Queued, Copying
  <2>6. QED
    BY <2>4, <2>5
<1>27. CASE Observe(h) \/ LockRecord(h) \/ Record(h)
  <2>1. /\ req' = req /\ res' = res /\ ack' = ack /\ claim' = claim
        /\ alive' = alive /\ crashed' = crashed
        /\ pc[h] \in {"observing", "decided", "recording"}
        /\ \/ pc'[h] = "failing"
           \/ /\ pc'[h] \in {"decided", "recording", "recorded"}
              /\ pc[h] = "observing" => pc'[h] = "decided"
    BY <1>0, <1>27 DEF Observe, LockRecord, Record, Fail, Running, Goto, procs
  <2>2. /\ my'[h].rid = my[h].rid /\ my'[h].turn = my[h].turn
        /\ pc'[h] = "decided" => my'[h].conf
        /\ pc'[h] \in {"recording", "recorded"} => my'[h].conf = my[h].conf
    <3>1. CASE Observe(h)
      BY <1>0, <3>1, ObserveFields DEF Observe, Fail, Goto
    <3>2. CASE LockRecord(h) \/ Record(h)
      BY <1>0, <3>2 DEF LockRecord, Record, Running, Fail, Goto, Locals
    <3>3. QED
      BY <1>27, <3>1, <3>2
  <2>3. HostKnown(h)'
    BY <1>2, <2>1, <2>2 DEF HostKnown, Queued, Waits, ScanPCs, HolderPCs, OpenPCs, RunPCs, DispatchPCs,
       TurnPCs
  <2>4. FilesKnown'
    BY <1>2, <1>3, <2>1 DEF FilesKnown, Queued, Copying
  <2>5. QED
    BY <2>3, <2>4
<1>28. CASE DecisionAck(h)
  <2>0. /\ req' = req /\ res' = res /\ claim' = claim /\ alive' = alive /\ crashed' = crashed
        /\ pc[h] = "recorded"
        /\ ack'.phase # "queued" /\ ack'.rid = my[h].rid
    BY <1>0, <1>28 DEF DecisionAck, Running, files, procs
  <2>1. \/ pc'[h] = "dispatch" /\ my'[h].rid = my[h].rid /\ my'[h].turn = 0 /\ ~my'[h].conf
        \/ pc'[h] = "result" /\ my' = my
    BY <1>28, ContinueFields
  <2>2. my[h].rid = req.rid /\ (Copying => closer.req.rid = req.rid)
    BY <2>0 DEF HostKnown, RunPCs
  <2>3. HostKnown(h)'
    BY <1>2, <2>0, <2>1 DEF HostKnown, Queued, Waits, ScanPCs, HolderPCs, OpenPCs, RunPCs, DispatchPCs, TurnPCs
  <2>4. FilesKnown'
    BY <1>2, <1>3, <2>0, <2>1, <2>2 DEF HostKnown, HolderPCs, FilesKnown, Queued, Copying
  <2>5. QED
    BY <2>3, <2>4
(* the end *)
<1>29. CASE WriteResult(h) \/ WriteFailure(h)
  <2>1. /\ req' = req /\ ack' = ack /\ claim' = claim
        /\ alive' = alive /\ crashed' = crashed
        /\ pc[h] \in {"result", "failing"} /\ pc'[h] \in {"closing", "failAck"}
    BY <1>0, <1>29 DEF WriteResult, WriteFailure, Running, Goto, procs
  <2>2. res' # NoResult
    BY <1>29, HostResultTyped, NoResultIsNone
  <2>3. claim.dir
    BY <1>1, <2>1 DEF OwningPCs, HolderPCs, Owns
  <2>4. HostKnown(h)'
    BY <1>2, <2>1, <2>2 DEF HostKnown, Queued, Waits, ScanPCs, HolderPCs, OpenPCs, RunPCs, DispatchPCs,
       TurnPCs
  <2>5. FilesKnown'
    BY <1>2, <2>1, <2>2, <2>3 DEF HostKnown, HolderPCs, FilesKnown, Queued, Copying
  <2>6. QED
    BY <2>4, <2>5
<1>30. CASE FailAck(h)
  <2>1. /\ req' = req /\ res' = res /\ claim' = claim /\ alive' = alive /\ crashed' = crashed
        /\ pc[h] = "failAck" /\ pc'[h] = "closing" /\ ack'.phase = "ended"
    BY <1>0, <1>30 DEF FailAck, EndedAck, Running, Goto, files, procs
  <2>2. HostKnown(h)'
    BY <1>2, <2>1 DEF HostKnown, Queued, Waits, ScanPCs, HolderPCs, OpenPCs, RunPCs, DispatchPCs, TurnPCs
  <2>3. FilesKnown'
    BY <1>2, <1>3, <2>1 DEF HostKnown, FilesKnown, Queued, Copying
  <2>4. QED
    BY <2>2, <2>3
<1>31. CASE HolderExit(h) \/ HostFinally(h)
  <2>1. /\ req' = req /\ claim' = claim /\ alive' = alive /\ crashed' = crashed
        /\ pc[h] \in {"closing", "finally"} /\ pc'[h] \in {"finally", "unlink", "report"}
    BY <1>0, <1>31 DEF HolderExit, HostFinally, Running, Goto, procs
  <2>2. ack' = ack \/ (ack'.phase = "ended" /\ res # NoResult)
    BY <1>31 DEF HolderExit, HostFinally, EndedAck
  <2>3. res = NoResult => res' = NoResult
    BY <1>31 DEF HolderExit, HostFinally
  <2>4. res # NoResult => res' # NoResult
    BY <1>31, HostResultTyped, NoResultIsNone
  <2>5. claim.dir
    BY <1>1, <2>1 DEF OwningPCs, HolderPCs, Owns
  <2>6. HostKnown(h)'
    BY <1>2, <2>1, <2>2 DEF HostKnown, Queued, Waits, ScanPCs, HolderPCs, OpenPCs, RunPCs, DispatchPCs,
       TurnPCs
  <2>7. FilesKnown'
    BY <1>2, <2>1, <2>2, <2>3, <2>4, <2>5 DEF HostKnown, HolderPCs, FilesKnown, Queued, Copying
  <2>8. QED
    BY <2>6, <2>7
<1>32. CASE \/ HostReport(h) \/ StartFails(h) \/ StartTurnFails(h) \/ PollTimeout(h) \/ HoldFails(h)
            \/ Crash(h)
  <2>1. /\ req' = req /\ res' = res /\ ack' = ack /\ claim' = claim
        /\ \/ pc'[h] = "idle"
           \/ pc'[h] = "failing" /\ pc[h] \in HolderPCs
        /\ \/ alive' = alive /\ crashed' = crashed
           \/ alive' = [alive EXCEPT ![h] = FALSE] /\ crashed' = crashed \cup {h}
    BY <1>0, <1>32 DEF HostReport, StartFails, StartTurnFails, PollTimeout, HoldFails, Crash, ScanEnds,
       Fail, Running, Goto, files, procs, HolderPCs
  <2>2. HostKnown(h)'
    BY <1>0, <2>1 DEF HostKnown, Queued, Waits, ScanPCs, HolderPCs, OpenPCs, RunPCs, DispatchPCs, TurnPCs
  <2>3. FilesKnown'
    BY <1>0, <1>2, <1>3, <2>1 DEF FilesKnown, Queued, Copying
  <2>4. QED
    BY <2>2, <2>3
<1>33. QED
  BY <1>5, <1>6, <1>7, <1>8, <1>9, <1>10, <1>11, <1>12, <1>13, <1>14, <1>15, <1>16, <1>17, <1>18,
     <1>19, <1>20, <1>21, <1>22, <1>23, <1>24, <1>25, <1>26, <1>27, <1>28, <1>29, <1>30, <1>31, <1>32
     DEF HostNext, HostFault

\* A Host's step starts it, ends it, or leaves every Host alive or dead as it was
LEMMA HostsKeepAlive ==
    ASSUME NEW g \in Hosts, HostNext(g) \/ HostFault(g)
    PROVE  \/ StartHost(g) /\ alive' = [alive EXCEPT ![g] = TRUE] /\ crashed' = crashed
           \/ Crash(g) /\ alive' = [alive EXCEPT ![g] = FALSE] /\ crashed' = crashed \cup {g}
           \/ alive' = alive /\ crashed' = crashed
BY DEF HostNext, HostFault, StartHost, ReadRequest, ReadAck, ClaimMkdir, ClaimOwner,
       ClaimRecheck, ClaimAck, RequeueDeadClaim, RecoveryFailed, RequeueLock, RequeueRequest,
       RequeueAck, ReleaseOwner, ReleaseDir, HoldStarted, LockStart, StopBeforeDispatch, CancelAck,
       AttachRecovered, StartThread, ThreadStarted, TurnStarting, StartTurn, TurnStarted,
       TurnHolding, AdvanceRequest, PollGivesUp, PollInterrupt, Observe, LockRecord, Record,
       DecisionAck, WriteResult, WriteFailure, FailAck, HolderExit, HostFinally, HostReport,
       StartFails, StartTurnFails, PollTimeout, HoldFails, Crash, procs

\* What close_hold writes to result.json is a result, of a cancellation or of a recovery
LEMMA CancelTyped ==
    ASSUME closer.req \in Requests, CloseCancel
    PROVE  LET observing == closer.req.mode = "recover" \/ closer.req.turn # 0
           IN  /\ res' \in Results
               /\ res'.rid = closer.req.rid /\ ~res'.hs /\ ~res'.notSent /\ ~res'.readback
               /\ res'.turn = (IF observing THEN closer.req.turn ELSE 0)
               /\ res'.conf = ~observing
               /\ res'.status = (IF observing THEN "unknown" ELSE "cancelled")
               /\ res'.thread = (res'.turn # 0)
<1> DEFINE observing == closer.req.mode = "recover" \/ closer.req.turn # 0
           turn == IF observing THEN closer.req.turn ELSE 0
           c == Cancelled(closer.req.rid, ~observing, turn)
<1>1. turn \in Nat /\ closer.req.rid \in Rids /\ observing \in BOOLEAN
  BY DEF Requests
<1> HIDE DEF turn
<1>2. c \in Results
  BY <1>1 DEF Cancelled, Results, Statuses
<1>3. /\ c.rid = closer.req.rid /\ ~c.hs /\ ~c.notSent /\ ~c.readback
      /\ c.turn = turn /\ c.conf = ~observing /\ c.thread = (turn # 0)
      /\ c.status = (IF observing THEN "unknown" ELSE "cancelled")
  BY <1>1 DEF Cancelled
<1> HIDE DEF c
<1>4. \A x \in {[c EXCEPT !.obs = TRUE]} :
        /\ x \in Results
        /\ x.rid = c.rid /\ x.hs = c.hs /\ x.notSent = c.notSent /\ x.readback = c.readback
        /\ x.turn = c.turn /\ x.conf = c.conf /\ x.thread = c.thread /\ x.status = c.status
  BY <1>2 DEF Results
<1>5. res' = [c EXCEPT !.obs = TRUE]
  BY DEF CloseCancel, c, turn
<1>6. QED
  BY <1>3, <1>4, <1>5 DEF turn

\* A step of a caller, or of the App Server
LEMMA CallerStepKnown ==
    ASSUME TypeOK, TypeOK', LockDiscipline, ClaimInv, ProtocolInv,
           \/ CallerNext
           \/ \E t \in TurnIds, st \in {"completed", "interrupted"} : TurnEnds(t, st)
           \/ UNCHANGED vars
    PROVE  ProtocolInv'
<1> USE DEF ProtocolInv
<1>0. /\ req \in Requests /\ ack \in Acks /\ (res # NoResult => res \in Results) /\ claim \in Claims
      /\ closer \in Closers /\ resumer \in Resumers /\ closer.req \in Requests
  BY DEF TypeOK, Closers
<1>1. ASSUME NEW h \in Hosts
      PROVE  /\ pc[h] \in OwningPCs => Owns(h)
             /\ pc[h] \in LockedPCs => rlock = h
             /\ pc[h] # "idle" => alive[h]
             /\ pc'[h] = pc[h] /\ my'[h] = my[h]
  BY CallersKeepHosts DEF LockDiscipline, LockOK, ClaimInv
<1>2. Copying => rlock = Closer
  BY DEF LockDiscipline, LockOK, Copying
<1>3. CanLock => rlock \notin {h \in Hosts : alive[h]} \cup {Closer} /\ ~Copying
  BY <1>2, HoldConstants DEF CanLock
<1>4. Latched.rid = closer.req.rid /\ Latched.mode = closer.req.mode /\ Latched.stop
  BY <1>0 DEF Latched, Requests
<1>5. /\ scan' = scan /\ alive' = alive /\ crashed' = crashed
  BY DEF CallerNext, RequestHoldStop, CloseBind, CloseInspect, CloseLatch, CloseCancel, CloseReport,
     RequestHostStop, ReconcileHold, ReconcileUndispatched, ResumeCheck, ResumeArchive,
     ResumeRequest, ResumeAck, TurnEnds, vars, procs
<1>6. \A h \in Hosts : RecoveredTurn(h)' = RecoveredTurn(h) /\ (scan' = scan)
  BY <1>5 DEF RecoveredTurn
<1>7. CASE RequestHoldStop \/ RequestHostStop
  <2>1. /\ res' = res /\ ack' = ack /\ claim' = claim /\ closer' = closer /\ resumer' = resumer
        /\ req'.rid = req.rid /\ req'.mode = req.mode /\ req'.turn = req.turn /\ req'.stop
        /\ ~Copying
    BY <1>0, <1>3, <1>7 DEF RequestHoldStop, RequestHostStop, Requests, callers
  <2>2. Unresumed => Unresumed'
    BY <2>1 DEF Unresumed, Unresumable, Copying
  <2>3. ASSUME NEW h \in Hosts PROVE HostKnown(h)'
    BY <1>1, <1>5, <1>6, <2>1, <2>2 DEF HostKnown, Waits, Queued, Copying
  <2>4. FilesKnown'
    BY <1>5, <2>1, <2>2 DEF FilesKnown, Queued, Copying
  <2>5. QED
    BY <2>3, <2>4
<1>8. CASE CloseBind \/ CloseReport
  <2>1. /\ req' = req /\ res' = res /\ ack' = ack /\ claim' = claim /\ resumer' = resumer
        /\ ~Copying /\ ~Copying'
    BY <1>0, <1>8 DEF CloseBind, CloseReport, Closers, Copying
  <2>2. Unresumed => Unresumed'
    BY <2>1 DEF Unresumed, Unresumable, Copying
  <2>3. ASSUME NEW h \in Hosts PROVE HostKnown(h)'
    BY <1>1, <1>5, <1>6, <2>1, <2>2 DEF HostKnown, Waits, Queued
  <2>4. FilesKnown'
    BY <1>5, <2>1, <2>2 DEF FilesKnown, Queued, Copying
  <2>5. QED
    BY <2>3, <2>4
<1>9. CASE CloseInspect
  <2>1. /\ req' = req /\ res' = res /\ ack' = ack /\ claim' = claim /\ resumer' = resumer
        /\ ~Copying /\ (Copying' => closer'.req = req)
        /\ closer'.pc = "latch" => res = NoResult \/ res.rid = req.rid
        /\ Copying' => ack.rid = req.rid
    BY <1>0, <1>9 DEF CloseInspect, Closers, Copying
  <2>2. Unresumed => Unresumed'
    <3>1. Latched' = [closer'.req EXCEPT !.stop = TRUE]
      BY DEF Latched
    <3>2. closer'.pc = "latch" =>
            Latched'.rid = req.rid /\ Latched'.mode = req.mode /\ Latched'.stop
      BY <1>0, <2>1, <3>1 DEF Copying, Requests
    <3>3. QED
      BY <2>1, <3>2 DEF Unresumed, Unresumable
  <2>3. ASSUME NEW h \in Hosts PROVE HostKnown(h)'
    BY <1>1, <1>5, <1>6, <2>1, <2>2 DEF HostKnown, Waits, Queued
  <2>4. FilesKnown'
    BY <1>5, <2>1, <2>2 DEF FilesKnown, Queued, Copying
  <2>5. QED
    BY <2>3, <2>4
<1>10. CASE CloseLatch
  <2>1. /\ res' = res /\ ack' = ack /\ claim' = claim /\ resumer' = resumer
        /\ Copying /\ ~Copying' /\ closer.pc = "latch"
        /\ \/ req' = req /\ closer.req.stop
           \/ /\ req' = Latched /\ req'.rid = closer.req.rid /\ req'.mode = closer.req.mode
              /\ req'.turn = closer.req.turn /\ req'.stop
    BY <1>0, <1>10 DEF CloseLatch, Latched, Closers, Copying, Requests
  <2>2. Unresumed => Unresumed'
    BY <2>1 DEF Unresumed, Unresumable, Copying
  <2>3. ASSUME NEW h \in Hosts PROVE HostKnown(h)'
    BY <1>1, <1>5, <1>6, <2>1, <2>2 DEF HostKnown, Waits, Queued
  <2>4. FilesKnown'
    BY <1>5, <2>1, <2>2 DEF FilesKnown, Queued, Copying
  <2>5. QED
    BY <2>3, <2>4
<1>11. CASE CloseCancel
  <2> DEFINE observing == closer.req.mode = "recover" \/ closer.req.turn # 0
  <2>1. /\ claim' = claim /\ resumer' = resumer /\ closer.pc = "cancel" /\ Copying /\ ~Copying'
        /\ req' = Latched /\ ack'.phase = "ended"
        /\ res' = [Cancelled(closer.req.rid, ~observing, IF observing THEN closer.req.turn ELSE 0)
                     EXCEPT !.obs = TRUE]
    BY <1>0, <1>11 DEF CloseCancel, EndedAck, Latched, Closers, Copying
  <2>2. req'.rid = closer.req.rid /\ req'.mode = closer.req.mode /\ req'.turn = closer.req.turn /\ req'.stop
    BY <1>0, <2>1 DEF Latched, Requests
  <2>3. observing => closer.req.mode = "recover"
    BY <2>1 DEF ClaimInv, RecoveryKnown, Bound
  <2>4. /\ res' \in Results
        /\ ~res'.hs /\ res'.turn = (IF observing THEN closer.req.turn ELSE 0)
        /\ res'.conf = ~observing /\ res'.status = (IF observing THEN "unknown" ELSE "cancelled")
        /\ res'.thread = (res'.turn # 0)
    BY <1>0, <1>11, CancelTyped
  <2>5. Unresumed'
    BY <2>1, <2>2, <2>3, <2>4 DEF Unresumed, Unresumable, Copying
  <2>6. res' # NoResult
    BY <2>4, NoResultIsNone
  <2>7. ASSUME NEW h \in Hosts PROVE HostKnown(h)'
    BY <1>1, <1>2, <1>5, <1>6, <2>1, <2>2, <2>5, <2>6, HoldConstants
       DEF HostKnown, Waits, Queued, Copying, LockedPCs
  <2>8. FilesKnown'
    BY <1>5, <2>1, <2>2, <2>5, <2>6 DEF FilesKnown, Queued, Copying
  <2>9. QED
    BY <2>7, <2>8
<1>12. CASE ReconcileHold
  <2>1. /\ req' = req /\ closer' = closer /\ resumer' = resumer
        /\ res' \in Results /\ ack'.phase = "ended" /\ ~claim'.dir /\ claim'.owner = Nobody
        /\ ~Copying
    BY <1>0, <1>3, <1>12 DEF ReconcileHold, EndedAck, callers, Results, Statuses
  <2>2. ~Unresumed
    BY <1>12, NotReconciled DEF Unresumed, Unresumable, Refused
  <2>3. res' # NoResult /\ res # NoResult
    BY <1>12, <2>1, NoResultIsNone DEF ReconcileHold
  <2>4. ASSUME NEW h \in Hosts, pc[h] \in HolderPCs PROVE FALSE
    BY <1>1, <1>12, <2>4, NotReconciled DEF OwningPCs, HolderPCs
  <2>5. ASSUME NEW h \in Hosts PROVE HostKnown(h)'
    <3>1. pc[h] \notin ScanPCs \cup HolderPCs
      BY <2>2, <2>4 DEF HostKnown
    <3>2. pc[h] # "claimAck"
      BY <1>1, <1>12, <2>2, NotReconciled DEF OwningPCs, ClaimInv, Claiming
    <3>3. QED
      BY <1>1, <1>5, <2>1, <3>1, <3>2 DEF HostKnown, Waits, ScanPCs, HolderPCs, OpenPCs, RunPCs, DispatchPCs, TurnPCs
  <2>6. FilesKnown'
    BY <1>5, <2>1, <2>2, <2>3, HoldConstants DEF FilesKnown, Queued, Copying
  <2>7. QED
    BY <2>5, <2>6
<1>13. CASE ReconcileUndispatched
  <2>1. /\ req' = req /\ ack' = ack /\ claim' = claim /\ closer' = closer /\ resumer' = resumer
        /\ res' \in Results /\ ~Copying /\ ~claim.dir
    BY <1>0, <1>3, <1>13 DEF ReconcileUndispatched, callers, Results
  <2>2. ~Unresumed
    BY <1>13 DEF ReconcileUndispatched, Unresumed, Unresumable
  <2>3. res' # NoResult /\ res # NoResult
    BY <1>13, <2>1, NoResultIsNone DEF ReconcileUndispatched
  <2>4. ASSUME NEW h \in Hosts PROVE HostKnown(h)'
    <3>1. pc[h] \notin ScanPCs \cup HolderPCs \cup {"claimAck"}
      BY <1>1, <2>1, <2>2 DEF HostKnown, OwningPCs, Owns
    <3>2. QED
      BY <1>1, <1>5, <2>1, <3>1 DEF HostKnown, Waits, ScanPCs, HolderPCs, OpenPCs, RunPCs, DispatchPCs, TurnPCs
  <2>5. FilesKnown'
    BY <1>5, <2>1, <2>2, <2>3 DEF FilesKnown, Queued, Copying
  <2>6. QED
    BY <2>4, <2>5
<1>14. CASE ResumeCheck
  <2>1. /\ req' = req /\ res' = res /\ ack' = ack /\ claim' = claim /\ closer' = closer
        /\ resumer'.pc = "checked" /\ ~claim.dir /\ resumer.pc = "idle"
    BY <1>0, <1>14 DEF ResumeCheck, Released, files, Resumers
  <2>2. ~Unresumed
    BY <1>14 DEF ResumeCheck, Released, Unresumed, Unresumable
  <2>3. ASSUME NEW h \in Hosts PROVE HostKnown(h)'
    <3>1. pc[h] \notin ScanPCs \cup HolderPCs \cup {"claimAck"}
      BY <1>1, <2>1, <2>2 DEF HostKnown, OwningPCs, Owns
    <3>2. QED
      BY <1>1, <1>5, <2>1, <3>1 DEF HostKnown, Waits, ScanPCs, HolderPCs, OpenPCs, RunPCs, DispatchPCs, TurnPCs
  <2>4. FilesKnown'
    BY <1>5, <2>1, <2>2 DEF FilesKnown, Queued, Copying, Unresumed
  <2>5. QED
    BY <2>3, <2>4
<1>15. CASE ResumeArchive
  <2>1. /\ req' = req /\ res' = NoResult /\ ack' = ack /\ claim' = claim /\ closer' = closer
        /\ resumer.pc = "checked" /\ resumer'.pc = "archived" /\ ~claim.dir
    BY <1>0, <1>15 DEF ResumeArchive, Resumers, FilesKnown
  <2>2. Unresumed'
    BY <2>1 DEF Unresumed
  <2>3. ASSUME NEW h \in Hosts PROVE HostKnown(h)'
    <3>1. pc[h] \notin HolderPCs \cup {"claimAck"}
      BY <1>1, <2>1 DEF OwningPCs, Owns
    <3>2. ~Waits(h)
      BY <2>1 DEF HostKnown
    <3>3. QED
      BY <1>1, <1>5, <1>6, <2>1, <2>2, <3>1, <3>2 DEF HostKnown, Waits, Queued, HolderPCs, OpenPCs, RunPCs, DispatchPCs,
         TurnPCs
  <2>4. FilesKnown'
    BY <1>5, <2>1, <2>2 DEF FilesKnown, Queued, Copying
  <2>5. QED
    BY <2>3, <2>4
<1>16. CASE ResumeRequest
  <2>1. /\ res' = res /\ ack' = ack /\ claim' = claim /\ closer' = closer
        /\ resumer.pc = "archived" /\ resumer'.pc = "written" /\ ~claim.dir
        /\ req'.rid = resumer.rid + 1 /\ req'.mode = "resume" /\ req'.turn = 0
    BY <1>0, <1>16 DEF ResumeRequest, Resumers, FilesKnown
  <2>2. res # NoResult => res.rid # req'.rid
    BY <1>0, <2>1 DEF ClaimInv, RidsKnown, Results, Resumers, Rids
  <2>3. Unresumed'
    BY <2>1, <2>2 DEF FilesKnown, Unresumed, Unresumable, Latched
  <2>4. ASSUME NEW h \in Hosts PROVE HostKnown(h)'
    <3>1. pc[h] \notin HolderPCs \cup {"claimAck"}
      BY <1>1, <2>1 DEF OwningPCs, Owns
    <3>2. ~Waits(h)
      BY <2>1 DEF HostKnown
    <3>3. QED
      BY <1>1, <1>5, <1>6, <2>1, <2>3, <3>1, <3>2 DEF HostKnown, Waits, Queued, HolderPCs, OpenPCs, RunPCs, DispatchPCs,
         TurnPCs
  <2>5. FilesKnown'
    BY <1>5, <2>1, <2>3 DEF FilesKnown, Queued, Copying
  <2>6. QED
    BY <2>4, <2>5
<1>17. CASE ResumeAck
  <2>1. /\ req' = req /\ res' = res /\ claim' = claim /\ closer' = closer
        /\ resumer.pc = "written" /\ resumer'.pc = "idle" /\ ~claim.dir /\ ack'.turn = 0
    BY <1>0, <1>17 DEF ResumeAck, Resumers, FilesKnown
  <2>2. Unresumed /\ Unresumed'
    BY <2>1 DEF FilesKnown, Unresumed, Unresumable, Latched
  <2>3. ASSUME NEW h \in Hosts PROVE HostKnown(h)'
    <3>1. pc[h] \notin HolderPCs \cup {"claimAck"}
      BY <1>1, <2>1 DEF OwningPCs, Owns
    <3>2. QED
      BY <1>1, <1>5, <1>6, <2>1, <2>2, <3>1 DEF HostKnown, Waits, Queued, HolderPCs, OpenPCs, RunPCs, DispatchPCs,
         TurnPCs
  <2>4. FilesKnown'
    BY <1>5, <2>1, <2>2 DEF FilesKnown, Queued, Copying
  <2>5. QED
    BY <2>3, <2>4
<1>18. CASE \/ \E t \in TurnIds, st \in {"completed", "interrupted"} : TurnEnds(t, st)
            \/ UNCHANGED vars
  <2>1. /\ req' = req /\ res' = res /\ ack' = ack /\ claim' = claim /\ closer' = closer
        /\ resumer' = resumer
    BY <1>18 DEF TurnEnds, files, callers, vars
  <2>2. Unresumed' = Unresumed /\ Queued' = Queued /\ Copying' = Copying
    BY <2>1 DEF Unresumed, Unresumable, Latched, Queued, Copying
  <2>3. ASSUME NEW h \in Hosts PROVE HostKnown(h)'
    BY <1>1, <1>5, <1>6, <2>1, <2>2 DEF HostKnown, Waits
  <2>4. FilesKnown'
    BY <1>5, <2>1, <2>2 DEF FilesKnown
  <2>5. QED
    BY <2>3, <2>4
<1>19. QED
  BY <1>7, <1>8, <1>9, <1>10, <1>11, <1>12, <1>13, <1>14, <1>15, <1>16, <1>17, <1>18 DEF CallerNext

\* A Host that is not the one to act is idle
LEMMA OthersIdle ==
    ASSUME TypeOK, TypeOK', LockDiscipline, ~Overlap, OneAlive,
           NEW g \in Hosts, HostNext(g) \/ HostFault(g), NEW h \in Hosts, h # g
    PROVE  pc[h] = "idle" /\ pc'[h] = "idle" /\ ~alive[h]
<1>1. pc'[h] = "idle"
  BY SoleActor
<1>2. ~alive[h]
  <2>1. CASE StartHost(g)
    BY <2>1 DEF StartHost
  <2>2. CASE ~StartHost(g)
    BY <2>2, OnlyAliveAct DEF OneAlive
  <2>3. QED
    BY <2>1, <2>2
<1>3. QED
  BY <1>1, <1>2, OthersKeep

LEMMA ProtocolStep ==
    ASSUME TypeOK, TypeOK', LockDiscipline, ClaimInv, ~Overlap, ProtocolInv, [Next]_vars
    PROVE  ProtocolInv'
<1>1. ASSUME NEW g \in Hosts, HostNext(g) \/ HostFault(g)
      PROVE  ProtocolInv'
  <2>1. FilesKnown' /\ HostKnown(g)'
    BY <1>1, HostStepKnown DEF ProtocolInv
  <2>2. ASSUME NEW h \in Hosts, h # g
        PROVE  HostKnown(h)'
    <3>1. pc[h] = "idle" /\ pc'[h] = "idle" /\ ~alive[h]
      BY <1>1, <2>2, OthersIdle DEF ClaimInv
    <3>2. ~alive'[h]
      <4>1. alive' = alive \/ alive' = [alive EXCEPT ![g] = TRUE] \/ alive' = [alive EXCEPT ![g] = FALSE]
        BY <1>1, HostsKeepAlive
      <4>2. QED
        BY <2>2, <3>1, <4>1 DEF TypeOK
    <3>3. QED
      BY <3>1, <3>2 DEF HostKnown, Waits, ScanPCs, HolderPCs, OpenPCs, RunPCs, DispatchPCs, TurnPCs
  <2>3. QED
    BY <2>1, <2>2 DEF ProtocolInv
<1>2. QED
  BY <1>1, CallerStepKnown DEF Next

LEMMA ProtocolInit == Init => ProtocolInv
<1> SUFFICES ASSUME Init PROVE ProtocolInv
  OBVIOUS
<1>1. FilesKnown
  BY HoldConstants DEF Init, FilesKnown, Queued, Copying, Unresumed, FirstRequest, FirstAck
<1>2. ASSUME NEW h \in Hosts PROVE HostKnown(h)
  BY <1>2 DEF Init, HostKnown, Waits, ScanPCs, HolderPCs, OpenPCs, RunPCs, DispatchPCs, TurnPCs
<1>3. QED
  BY <1>1, <1>2 DEF ProtocolInv

-----------------------------------------------------------------------------
(* The recovery of a dead owner's claim, when one Host dies at most         *)

\* The claim was left by a Host that died
Lost == claim.owner \in crashed

\* run_once has read the acknowledgement, and is not yet past the requeue
DeadPCs == {"scanned", "requeue", "requeueLock", "requeueing"}

\* Neither the request nor close_hold's copy of it names a turn
NoTurnNamed == req.turn = 0 /\ (Copying => closer.req.turn = 0)

RecoveryFiles ==
    /\ IsFiniteSet(crashed)
    /\ crashed = {} => NoTurnNamed
    /\ Lost /\ (\A h \in Hosts : pc[h] \notin {"requeueAck", "unlink"}) => NoTurnNamed

RecoveryHost(h) ==
    /\ crashed = {} => my[h].mode # "recover"
    /\ Lost /\ pc[h] \in {"readAck"} \cup DeadPCs => scan[h].req.turn = 0
    /\ Lost /\ pc[h] = "readAck" /\ ack.turn # 0 /\ res = NoResult => scan[h].req.rid = ack.rid
    /\ Lost /\ pc[h] \in DeadPCs /\ scan[h].ack.turn # 0 => scan[h].req.rid = scan[h].ack.rid
    /\ pc[h] \in {"requeueLock", "requeueing"} => scan[h].ack.turn # 0 /\ scan[h].dead \in crashed
    /\ pc[h] = "requeueAck" => Lost /\ req.rid = scan[h].req.rid /\ req.mode = "recover"

RecoveryInv == RecoveryFiles /\ \A h \in Hosts : RecoveryHost(h)

\* What a Host does from the recheck of its claim until it gives it up
LEMMA OwnerFrame ==
    ASSUME TypeOK, NEW h \in Hosts, pc[h] \in OwningPCs, alive[h],
           HostNext(h) \/ HostFault(h), ~Crash(h)
    PROVE  /\ claim' = claim /\ crashed' = crashed /\ alive' = alive
           /\ req' = req \/ AdvanceRequest(h)
           /\ pc'[h] \in OwningPCs \cup {"unlink", "report"}
<1>0. pc \in [Hosts -> PCs]
  BY DEF TypeOK
<1>1. ~StartHost(h)
  BY DEF StartHost
<1>2. ASSUME ClaimRecheck(h) \/ ClaimAck(h) \/ HoldStarted(h) \/ LockStart(h)
             \/ StopBeforeDispatch(h) \/ CancelAck(h) \/ AttachRecovered(h) \/ StartThread(h)
             \/ ThreadStarted(h) \/ TurnStarting(h) \/ StartTurn(h, TRUE) \/ StartTurn(h, FALSE)
             \/ TurnStarted(h) \/ TurnHolding(h) \/ AdvanceRequest(h)
      PROVE  /\ claim' = claim /\ crashed' = crashed /\ alive' = alive
             /\ req' = req \/ AdvanceRequest(h)
             /\ pc'[h] \in OwningPCs \cup {"unlink", "report"}
  BY <1>0, <1>2 DEF ClaimRecheck, ClaimAck, HoldStarted, LockStart, StopBeforeDispatch, CancelAck,
     AttachRecovered, StartThread, ThreadStarted, TurnStarting, StartTurn, TurnStarted, TurnHolding,
     AdvanceRequest, Running, Goto, Fail, files, procs, OwningPCs, HolderPCs
<1>3. ASSUME \/ PollGivesUp(h) \/ PollInterrupt(h) \/ Observe(h) \/ LockRecord(h) \/ Record(h)
             \/ DecisionAck(h) \/ WriteResult(h) \/ WriteFailure(h) \/ FailAck(h) \/ HolderExit(h)
             \/ HostFinally(h) \/ StartFails(h) \/ StartTurnFails(h) \/ PollTimeout(h) \/ HoldFails(h)
      PROVE  /\ claim' = claim /\ crashed' = crashed /\ alive' = alive
             /\ req' = req
             /\ pc'[h] \in OwningPCs \cup {"unlink", "report"}
  BY <1>0, <1>3 DEF PollGivesUp, PollInterrupt, Observe, LockRecord, Record, DecisionAck, WriteResult,
     WriteFailure, FailAck, HolderExit, HostFinally, StartFails, StartTurnFails, PollTimeout,
     HoldFails, Running, Goto, Fail, files, procs, OwningPCs, HolderPCs
<1>4. ~(ReadRequest(h) \/ ReadAck(h) \/ ClaimMkdir(h) \/ ClaimOwner(h) \/ RequeueDeadClaim(h)
        \/ RecoveryFailed(h) \/ RequeueLock(h) \/ RequeueRequest(h) \/ RequeueAck(h)
        \/ ReleaseOwner(h) \/ ReleaseDir(h) \/ HostReport(h))
  BY <1>0 DEF ReadRequest, ReadAck, ClaimMkdir, ClaimOwner, RequeueDeadClaim, RecoveryFailed,
     RequeueLock, RequeueRequest, RequeueAck, ReleaseOwner, ReleaseDir, HostReport, Running,
     OwningPCs, HolderPCs
<1>5. QED
  BY <1>1, <1>2, <1>3, <1>4 DEF HostNext, HostFault

\* A Host's own step
LEMMA HostStepRecovers ==
    ASSUME TypeOK, TypeOK', LockDiscipline, ClaimInv, ProtocolInv, MaxCrashes <= 1,
           RecoveryFiles, NEW h \in Hosts, RecoveryHost(h), HostNext(h) \/ HostFault(h),
           \A g \in Hosts : g # h => pc[g] = "idle" /\ pc'[g] = "idle"
    PROVE  RecoveryHost(h)' /\ RecoveryFiles'
<1>0. /\ req \in Requests /\ ack \in Acks /\ claim \in Claims
      /\ pc \in [Hosts -> PCs] /\ scan \in [Hosts -> Scans] /\ my \in [Hosts -> Locals]
      /\ alive \in [Hosts -> BOOLEAN] /\ closer.req \in Requests
      /\ scan[h] \in Scans /\ my[h] \in Locals /\ scan[h].req \in Requests
      /\ crashed \subseteq Hosts /\ Nobody \notin crashed
  BY HoldConstants DEF TypeOK, Closers, Scans
<1>1. /\ pc[h] \in OwningPCs => Owns(h)
      /\ pc[h] \in LockedPCs => rlock = h
      /\ Copying => rlock = Closer
      /\ pc[h] # "idle" => alive[h]
      /\ alive[h] => h \notin crashed
      /\ FilesKnown /\ HostKnown(h)
  BY DEF LockDiscipline, LockOK, Copying, ClaimInv, ProtocolInv, HostKnown
<1>2. closer' = closer /\ resumer' = resumer /\ Copying' = Copying
  BY HostsKeepCallers DEF Copying
<1>3. crashed = {} => my'[h].mode # "recover"
  <2>1. crashed = {} => req.mode # "recover"
    BY <1>1 DEF RecoveryFiles, NoTurnNamed, FilesKnown
  <2>2. \/ my'[h].mode = my[h].mode \/ my'[h].mode = "create" \/ my'[h].mode = req.mode
    BY LocalSteps DEF Next
  <2>3. QED
    BY <2>1, <2>2 DEF RecoveryHost
<1>4. req' = req => NoTurnNamed' = NoTurnNamed
  BY <1>2 DEF NoTurnNamed
<1>5. Lost => resumer.pc = "idle" /\ claim.dir
  BY <1>0, <1>1 DEF Lost, FilesKnown
<1>6. CASE Crash(h)
  <2>1. /\ pc'[h] = "idle" /\ crashed' = crashed \cup {h} /\ req' = req /\ Cardinality(crashed) < MaxCrashes
    BY <1>0, <1>6 DEF Crash, ScanEnds, Goto, files
  <2>2. crashed = {} /\ IsFiniteSet(crashed')
    <3>1. IsFiniteSet(crashed) /\ Cardinality(crashed) \in Nat
      BY FS_CardinalityType DEF RecoveryFiles
    <3>2. Cardinality(crashed) = 0
      BY <2>1, <3>1, HoldConstants
    <3>3. QED
      BY <2>1, <3>1, <3>2, FS_EmptySet, FS_AddElement
  <2>3. RecoveryFiles'
    BY <1>4, <2>1, <2>2 DEF RecoveryFiles
  <2>4. RecoveryHost(h)'
    BY <2>1 DEF RecoveryHost, DeadPCs
  <2>5. QED
    BY <2>3, <2>4
<1>7. CASE pc[h] \in OwningPCs /\ ~Crash(h)
  <2>1. /\ claim' = claim /\ crashed' = crashed
        /\ req' = req \/ AdvanceRequest(h)
        /\ pc'[h] \in OwningPCs \cup {"unlink", "report"}
    BY <1>1, <1>7, OwnerFrame DEF OwningPCs, HolderPCs
  <2>2. ~Lost'
    BY <1>1, <1>7, <2>1 DEF Owns, Lost, OwningPCs, HolderPCs
  <2>3. AdvanceRequest(h) => crashed # {}
    BY DEF AdvanceRequest, Running, ClaimInv, RecoveryKnown, RecoveryHost
  <2>4. RecoveryFiles'
    BY <1>4, <2>1, <2>2, <2>3 DEF RecoveryFiles
  <2>5. RecoveryHost(h)'
    BY <1>3, <2>1, <2>2 DEF RecoveryHost, OwningPCs, HolderPCs
  <2>6. QED
    BY <2>4, <2>5
<1>8. CASE StartHost(h) \/ HostReport(h)
  <2>1. /\ req' = req /\ claim' = claim /\ crashed' = crashed
        /\ pc'[h] = "idle" \/ pc'[h] = pc[h]
        /\ pc'[h] # "idle" => scan' = scan /\ ack' = ack /\ res' = res /\ req' = req
        /\ pc[h] \notin {"requeueAck", "unlink"} \/ pc'[h] = pc[h]
    BY <1>0, <1>8 DEF StartHost, HostReport, Running, ScanEnds, Goto, files, procs
  <2>2. RecoveryFiles'
    BY <1>4, <2>1 DEF RecoveryFiles, Lost
  <2>3. RecoveryHost(h)'
    BY <1>3, <2>1 DEF RecoveryHost, Lost, DeadPCs
  <2>4. QED
    BY <2>2, <2>3
<1>9. CASE ReadRequest(h)
  <2>1. /\ req' = req /\ claim' = claim /\ crashed' = crashed /\ ack' = ack /\ res' = res
        /\ pc[h] = "idle" /\ pc'[h] = "readAck" /\ scan'[h].req = req
    BY <1>0, <1>9 DEF ReadRequest, Running, Goto, files, procs, Scans
  <2>2. Lost => NoTurnNamed
    BY <2>1 DEF RecoveryFiles
  <2>3. Lost /\ ack.turn # 0 /\ res = NoResult => ack.rid = req.rid
    BY <1>1, <1>5 DEF FilesKnown
  <2>4. RecoveryFiles'
    BY <1>4, <2>1 DEF RecoveryFiles, Lost
  <2>5. RecoveryHost(h)'
    BY <1>3, <2>1, <2>2, <2>3 DEF RecoveryHost, Lost, DeadPCs, NoTurnNamed
  <2>6. QED
    BY <2>4, <2>5
<1>10. CASE ReadAck(h)
  <2>1. /\ req' = req /\ claim' = claim /\ crashed' = crashed /\ pc[h] = "readAck"
        /\ \/ pc'[h] = "idle"
           \/ /\ pc'[h] = "scanned" /\ scan'[h].ack = ack /\ scan'[h].req = scan[h].req
              /\ res = NoResult
    BY <1>0, <1>10 DEF ReadAck, Running, ScanEnds, Goto, files, procs, Scans
  <2>2. RecoveryFiles'
    BY <1>4, <2>1 DEF RecoveryFiles, Lost
  <2>3. RecoveryHost(h)'
    BY <1>3, <2>1 DEF RecoveryHost, Lost, DeadPCs
  <2>4. QED
    BY <2>2, <2>3
<1>11. CASE ClaimMkdir(h)
  <2>1. /\ req' = req /\ claim'.owner = claim.owner /\ crashed' = crashed /\ pc[h] = "scanned"
        /\ pc'[h] \in {"claiming", "requeue"} /\ scan' = scan
    BY <1>0, <1>11 DEF ClaimMkdir, Running, Goto, files, procs, Claims
  <2>2. RecoveryFiles'
    BY <1>4, <2>1 DEF RecoveryFiles, Lost
  <2>3. RecoveryHost(h)'
    BY <1>3, <2>1 DEF RecoveryHost, Lost, DeadPCs
  <2>4. QED
    BY <2>2, <2>3
<1>12. CASE ClaimOwner(h) \/ ReleaseOwner(h)
  <2>1. /\ req' = req /\ claim'.owner \in {h, Nobody} /\ crashed' = crashed /\ alive[h]
        /\ pc'[h] \in {"recheck", "rmdir"}
    BY <1>0, <1>12 DEF ClaimOwner, ReleaseOwner, Running, Goto, files, procs, Claims
  <2>2. ~Lost'
    BY <1>0, <1>1, <2>1 DEF Lost
  <2>3. RecoveryFiles'
    BY <1>4, <2>1, <2>2 DEF RecoveryFiles
  <2>4. RecoveryHost(h)'
    BY <1>3, <2>1, <2>2 DEF RecoveryHost
  <2>5. QED
    BY <2>3, <2>4
<1>13. CASE ReleaseDir(h)
  <2>1. /\ req' = req /\ claim'.owner = claim.owner /\ crashed' = crashed /\ pc[h] = "rmdir"
        /\ pc'[h] \in {"idle", "report"}
    <3>1. \A x : [claim EXCEPT !.dir = x].owner = claim.owner
      BY <1>0, Zenon DEF Claims
    <3>2. claim' = [claim EXCEPT !.dir = (claim.owner # Nobody)]
      BY <1>13, Zenon DEF ReleaseDir
    <3>3. QED
      BY <1>0, <1>13, <3>1, <3>2 DEF ReleaseDir, Running, ScanEnds, Goto, procs
  <2>2. RecoveryFiles'
    BY <1>4, <2>1 DEF RecoveryFiles, Lost
  <2>3. RecoveryHost(h)'
    BY <1>3, <2>1 DEF RecoveryHost, DeadPCs
  <2>4. QED
    BY <2>2, <2>3
<1>14. CASE RequeueDeadClaim(h)
  <2>1. /\ req' = req /\ claim' = claim /\ crashed' = crashed /\ pc[h] = "requeue"
        /\ \/ pc'[h] \in {"idle", "recoveryFailed"}
           \/ /\ pc'[h] = "requeueLock" /\ scan'[h].ack = scan[h].ack /\ scan'[h].req = scan[h].req
              /\ RecoveredTurn(h) # 0 /\ scan'[h].dead = claim.owner
              /\ claim.owner \in Hosts /\ ~alive[claim.owner]
    BY <1>0, <1>14 DEF RequeueDeadClaim, Running, ScanEnds, Goto, files, procs, Scans
  <2>2. pc'[h] = "requeueLock" => Lost
    BY <1>1, <2>1 DEF Lost, FilesKnown
  <2>3. pc'[h] = "requeueLock" => scan[h].ack.turn # 0
    BY <2>1, <2>2 DEF RecoveryHost, DeadPCs, RecoveredTurn
  <2>4. RecoveryFiles'
    BY <1>4, <2>1 DEF RecoveryFiles, Lost
  <2>5. RecoveryHost(h)'
    BY <1>3, <2>1, <2>2, <2>3 DEF RecoveryHost, Lost, DeadPCs
  <2>6. QED
    BY <2>4, <2>5
<1>15. CASE RecoveryFailed(h) \/ RequeueAck(h)
  <2>1. /\ req' = req /\ claim' = claim /\ crashed' = crashed /\ pc'[h] = "unlink"
    BY <1>0, <1>15 DEF RecoveryFailed, RequeueAck, Goto, files, procs
  <2>2. RecoveryFiles'
    BY <1>4, <2>1 DEF RecoveryFiles, Lost
  <2>3. RecoveryHost(h)'
    BY <1>3, <2>1 DEF RecoveryHost, DeadPCs
  <2>4. QED
    BY <2>2, <2>3
<1>16. CASE RequeueLock(h)
  <2>1. /\ req' = req /\ claim' = claim /\ crashed' = crashed /\ pc[h] = "requeueLock"
        /\ \/ pc'[h] = "idle"
           \/ pc'[h] = "requeueing" /\ scan' = scan
    BY <1>0, <1>16 DEF RequeueLock, Running, ScanEnds, Goto, files, procs
  <2>2. RecoveryFiles'
    BY <1>4, <2>1 DEF RecoveryFiles, Lost
  <2>3. RecoveryHost(h)'
    BY <1>3, <2>1 DEF RecoveryHost, Lost, DeadPCs
  <2>4. QED
    BY <2>2, <2>3
<1>17. CASE RequeueRequest(h)
  <2>1. /\ claim' = claim /\ crashed' = crashed /\ pc[h] = "requeueing"
        /\ \/ pc'[h] = "idle" /\ req' = req
           \/ /\ pc'[h] = "requeueAck" /\ scan' = scan
              /\ claim.owner = scan[h].dead /\ req.rid = scan[h].req.rid
              /\ req' = [scan[h].req EXCEPT
                           !.mode = RecoveryMode(h), !.turn = RecoveredTurn(h),
                           !.base = IF scan[h].ack.count = 0 THEN 1 ELSE scan[h].ack.count,
                           !.stop = scan[h].req.stop \/ req.stop]
    BY <1>0, <1>17 DEF RequeueRequest, Running, ScanEnds, Goto, files, procs
  <2>2. pc'[h] = "requeueAck" => req'.rid = scan[h].req.rid /\ req'.mode = "recover"
    BY <1>0, <2>1, Zenon DEF Requests, RecoveryMode
  <2>3. scan[h].dead \in crashed
    BY <2>1 DEF RecoveryHost
  <2>4. RecoveryFiles'
    BY <1>4, <2>1, <2>3 DEF RecoveryFiles, Lost
  <2>5. RecoveryHost(h)'
    BY <1>3, <2>1, <2>2, <2>3 DEF RecoveryHost, Lost, DeadPCs
  <2>6. QED
    BY <2>4, <2>5
<1>18. QED
  <2>1. ASSUME pc[h] \notin OwningPCs, ~Crash(h), ~StartHost(h), ~HostReport(h), ~ReadRequest(h),
               ~ReadAck(h), ~ClaimMkdir(h), ~ClaimOwner(h), ~ReleaseOwner(h), ~ReleaseDir(h),
               ~RequeueDeadClaim(h), ~RecoveryFailed(h), ~RequeueAck(h), ~RequeueLock(h),
               ~RequeueRequest(h)
        PROVE  FALSE
    BY <2>1 DEF HostNext, HostFault, ClaimRecheck, ClaimAck, HoldStarted, LockStart, StopBeforeDispatch,
       CancelAck, AttachRecovered, StartThread, ThreadStarted, TurnStarting, StartTurn, TurnStarted, TurnHolding,
       AdvanceRequest, PollGivesUp, PollInterrupt, Observe, LockRecord, Record, DecisionAck,
       WriteResult, WriteFailure, FailAck, HolderExit, HostFinally, StartFails, StartTurnFails,
       PollTimeout, HoldFails, Running, OwningPCs, HolderPCs
  <2>2. QED
    BY <2>1, <1>6, <1>7, <1>8, <1>9, <1>10, <1>11, <1>12, <1>13, <1>14, <1>15, <1>16, <1>17

\* A step of a caller, or of the App Server
LEMMA CallerStepRecovers ==
    ASSUME TypeOK, TypeOK', LockDiscipline, ProtocolInv, RecoveryInv,
           \/ CallerNext
           \/ \E t \in TurnIds, st \in {"completed", "interrupted"} : TurnEnds(t, st)
           \/ UNCHANGED vars
    PROVE  RecoveryInv'
<1>0. /\ req \in Requests /\ closer \in Closers /\ closer.req \in Requests /\ resumer \in Resumers
      /\ crashed \subseteq Hosts /\ Nobody \notin crashed
  BY HoldConstants DEF TypeOK, Closers
<1>1. /\ \A h \in Hosts : pc'[h] = pc[h] /\ my'[h] = my[h]
      /\ scan' = scan /\ crashed' = crashed /\ pc' = pc
  BY CallersKeepHosts DEF CallerNext, RequestHoldStop, CloseBind, CloseInspect, CloseLatch, CloseCancel,
     CloseReport, RequestHostStop, ReconcileHold, ReconcileUndispatched, ResumeCheck, ResumeArchive,
     ResumeRequest, ResumeAck, TurnEnds, vars, procs
<1>2. NoTurnNamed => NoTurnNamed'
  <2>1. CASE RequestHoldStop \/ RequestHostStop
    BY <1>0, <2>1 DEF RequestHoldStop, RequestHostStop, Requests, callers, NoTurnNamed, Copying
  <2>2. CASE CloseLatch \/ CloseCancel
    <3>1. /\ closer.pc \in {"latch", "cancel"} /\ closer'.pc = "report"
          /\ req' = req \/ req' = [closer.req EXCEPT !.stop = TRUE]
      BY <1>0, <2>2 DEF CloseLatch, CloseCancel, Closers
    <3>2. QED
      BY <1>0, <3>1 DEF Requests, NoTurnNamed, Copying
  <2>3. CASE CloseBind \/ CloseInspect \/ CloseReport
    BY <1>0, <2>3 DEF CloseBind, CloseInspect, CloseReport, Closers, NoTurnNamed, Copying
  <2>4. CASE ResumeRequest
    BY <1>0, <2>4 DEF ResumeRequest, NoTurnNamed, Copying
  <2>5. CASE \/ ReconcileHold \/ ReconcileUndispatched \/ ResumeCheck \/ ResumeArchive \/ ResumeAck
             \/ \E t \in TurnIds, st \in {"completed", "interrupted"} : TurnEnds(t, st)
             \/ UNCHANGED vars
    BY <2>5 DEF ReconcileHold, ReconcileUndispatched, ResumeCheck, ResumeArchive, ResumeAck, TurnEnds,
       files, vars, callers, NoTurnNamed, Copying
  <2>6. QED
    BY <2>1, <2>2, <2>3, <2>4, <2>5 DEF CallerNext
<1>3. Lost => resumer.pc = "idle"
  BY <1>0 DEF Lost, ProtocolInv, FilesKnown
<1>4. ASSUME Lost'
      PROVE  /\ Lost /\ claim' = claim
             /\ ack'.turn # 0 /\ res' = NoResult => ack' = ack /\ res = NoResult
  <2>1. claim'.owner # Nobody
    BY <1>0, <1>1, <1>4 DEF Lost
  <2>2. ~ReconcileHold
    BY <2>1 DEF ReconcileHold
  <2>3. claim' = claim
    BY <2>2, CallersKeepClaim
  <2>4. Lost
    BY <1>1, <1>4, <2>3 DEF Lost
  <2>5. CASE CloseCancel
    <3>1. res' \in Results
      BY <1>0, <2>5, CancelTyped
    <3>2. QED
      BY <2>3, <2>4, <3>1, NoResultIsNone
  <2>6. CASE ReconcileUndispatched
    <3>1. res \in Results
      BY <2>6 DEF ReconcileUndispatched, TypeOK
    <3>2. res' \in Results
      BY <2>6, <3>1 DEF ReconcileUndispatched, Results
    <3>3. QED
      BY <2>3, <2>4, <3>2, NoResultIsNone
  <2>7. CASE ~CloseCancel /\ ~ReconcileUndispatched
    <3>1. ack' = ack /\ res' = res
      BY <1>3, <2>2, <2>4, <2>7 DEF CallerNext, RequestHoldStop, CloseBind, CloseInspect, CloseLatch,
         CloseReport, RequestHostStop, ResumeCheck, ResumeArchive, ResumeRequest, ResumeAck, TurnEnds,
         vars, files
    <3>2. QED
      BY <2>3, <2>4, <3>1
  <2>8. QED
    BY <2>5, <2>6, <2>7
<1>5. ASSUME NEW h \in Hosts, pc[h] = "requeueAck", Lost
      PROVE  req' = req /\ claim' = claim
  <2>1. rlock = h /\ alive[h]
    BY <1>5 DEF LockDiscipline, LockOK, LockedPCs
  <2>2. ~CanLock /\ ~Copying
    BY <2>1, HoldConstants DEF CanLock, LockDiscipline, LockOK, Copying
  <2>3. claim' = claim
    BY <2>2, CallersKeepClaim DEF ReconcileHold
  <2>4. req' = req
    BY <1>3, <1>5, <2>2 DEF CallerNext, RequestHoldStop, CloseBind, CloseInspect, CloseLatch, CloseCancel,
       CloseReport, RequestHostStop, ReconcileHold, ReconcileUndispatched, ResumeCheck, ResumeArchive,
       ResumeRequest, ResumeAck, TurnEnds, vars, files, Copying
  <2>5. QED
    BY <2>3, <2>4
<1>6. RecoveryFiles'
  BY <1>1, <1>2, <1>4 DEF RecoveryInv, RecoveryFiles
<1>7. ASSUME NEW h \in Hosts
      PROVE  RecoveryHost(h)'
  <2>1. RecoveryHost(h)
    BY DEF RecoveryInv
  <2>2. pc[h] = "requeueAck" => Lost' /\ req' = req
    BY <1>1, <1>5, <2>1 DEF RecoveryHost, Lost
  <2>3. QED
    BY <1>1, <1>4, <2>1, <2>2 DEF RecoveryHost
<1>8. QED
  BY <1>6, <1>7 DEF RecoveryInv

LEMMA RecoveryStep ==
    ASSUME TypeOK, TypeOK', LockDiscipline, ClaimInv, ProtocolInv, ~Overlap, MaxCrashes <= 1,
           RecoveryInv, [Next]_vars
    PROVE  RecoveryInv'
<1>1. ASSUME NEW g \in Hosts, HostNext(g) \/ HostFault(g)
      PROVE  RecoveryInv'
  <2>1. \A h \in Hosts : h # g => pc[h] = "idle" /\ pc'[h] = "idle"
    BY <1>1, OthersIdle DEF ClaimInv
  <2>2. RecoveryFiles' /\ RecoveryHost(g)'
    BY <1>1, <2>1, HostStepRecovers DEF RecoveryInv
  <2>3. ASSUME NEW h \in Hosts, h # g
        PROVE  RecoveryHost(h)'
    <3>1. pc'[h] = "idle" /\ my'[h] = my[h]
      BY <1>1, <2>1, <2>3, OthersKeep
    <3>2. crashed \subseteq crashed'
      BY <1>1, HostsKeepAlive
    <3>3. QED
      BY <3>1, <3>2 DEF RecoveryInv, RecoveryHost, DeadPCs
  <2>4. QED
    BY <2>2, <2>3 DEF RecoveryInv
<1>2. QED
  BY <1>1, CallerStepRecovers DEF Next

LEMMA RecoveryInit == Init => RecoveryInv
<1> SUFFICES ASSUME Init PROVE RecoveryInv
  OBVIOUS
<1>1. RecoveryFiles
  BY FS_EmptySet DEF Init, RecoveryFiles, NoTurnNamed, Copying, Lost, FirstRequest
<1>2. ASSUME NEW h \in Hosts PROVE RecoveryHost(h)
  BY <1>2 DEF Init, RecoveryHost, NoLocals, DeadPCs, Lost
<1>3. QED
  BY <1>1, <1>2 DEF RecoveryInv

-----------------------------------------------------------------------------
(* What the files and the Hosts know of the turns                           *)

Quiet == InProgress = {}

\* No turn but t, of request r, is in progress
Only(r, t) == \A u \in InProgress : u = t /\ turns[u].rid = r

\* The turns in progress are of request r; none is
OfRid(r)  == \A u \in InProgress : turns[u].rid = r
NoneOf(r) == \A u \in InProgress : turns[u].rid # r

\* The history has the turns of request r, but for t; no turn is of request r
Past(r, t) == \A u \in TurnIds : turns[u].rid = r => u \in history \cup {t}
Fresh(r)   == \A u \in TurnIds : turns[u].rid # r

\* A durable turn id is that of the turn in progress, and the turns before it are in the
\* history, or no other turn will be started
Names(r, t) == t # 0 => Only(r, t) /\ (Past(r, t) \/ req.stop)

\* What the fields of a result, or of hold_task's variables, say of the turns
Shows(e) ==
    /\ e.conf \/ (e.notSent /\ e.turn = 0) => Quiet
    /\ e.turn # 0 => Only(e.rid, e.turn)
    /\ OfRid(e.rid)

\* What the request says to the Host that claims it
ReqStart == IF req.mode = "recover" THEN Names(req.rid, req.turn)
            ELSE Quiet /\ (Fresh(req.rid) \/ req.stop)

HeldPCs == HolderPCs \ {"claimed"}

\* A turn is about to be started
Starting(h) == pc[h] \in DispatchPCs \/ (pc[h] = "recorded" /\ my[h].dec = "CONTINUE")

ServerKnown ==
    /\ \A t \in TurnIds : IF t <= issued
                          THEN turns[t].st # "none" /\ turns[t].rid \in 1..resumer.rid
                          ELSE turns[t].st = "none" /\ turns[t].rid = 0
    /\ \A h \in Hosts : \A t \in told[h] : turns[t].st \notin {"none", "inProgress"}
    /\ \A t, u \in InProgress : t = u

QueueTurns ==
    Queued => \/ Quiet /\ Fresh(ack.rid)
              \/ req.mode = "recover" /\ req.rid = ack.rid /\ Names(req.rid, req.turn)

AckTurns == res = NoResult /\ resumer.pc = "idle" => Names(ack.rid, ack.turn)

ResultTurns == res # NoResult => Shows(res) /\ (res.readback => Quiet)

CallerTurns ==
    /\ closer.pc = "cancel" => IF closer.req.mode = "recover"
                               THEN Only(closer.req.rid, closer.req.turn) ELSE Quiet
    /\ resumer.pc # "idle" => Quiet
    /\ resumer.pc = "written" => Fresh(resumer.rid)

CloseTurns == close.nd \/ close.done => NoneOf(close.rid)

FileTurns == QueueTurns /\ AckTurns /\ ResultTurns /\ CallerTurns /\ CloseTurns

HostTurns(h) ==
    /\ pc[h] \in {"claimAck", "claimed"} => ReqStart
    /\ pc[h] \in {"entered", "starting"} =>
         IF my[h].mode = "recover" THEN Names(my[h].rid, my[h].turn)
         ELSE Quiet /\ (Fresh(my[h].rid) \/ req.stop)
    /\ pc[h] \in HeldPCs => Shows(my[h])
    /\ pc[h] \in DispatchPCs => Quiet /\ Past(my[h].rid, 0)
    /\ pc[h] \in TurnPCs => Past(my[h].rid, my[h].turn) \/ req.stop
    /\ pc[h] = "recorded" => Past(my[h].rid, 0) \/ req.stop
    /\ Starting(h) /\ my[h].rid = close.rid => ~close.nd /\ ~close.done
    /\ pc[h] = "failing" /\ my[h].fail = "readback" => Quiet
    /\ Lost /\ pc[h] \in DeadPCs => Names(scan[h].ack.rid, scan[h].ack.turn)
    /\ pc[h] = "requeueAck" => Names(req.rid, req.turn)

TurnsInv == ServerKnown /\ FileTurns /\ \A h \in Hosts : HostTurns(h)

\* How these facts follow from one another
LEMMA TurnsMean ==
    /\ Quiet => \A r, t : Only(r, t) /\ OfRid(r) /\ NoneOf(r)
    /\ \A r, t : Only(r, t) => OfRid(r)
    /\ \A r : OfRid(r) /\ NoneOf(r) => Quiet
    /\ \A r, t : Only(r, t) /\ turns[t].st # "inProgress" => Quiet
    /\ \A r, t : Fresh(r) => Past(r, t)
BY DEF Quiet, Only, OfRid, NoneOf, Fresh, Past, InProgress

\* A turn starts, or one ends, or the App Server does nothing that the Hold sees
LEMMA ServerSteps ==
    ASSUME [Next]_vars
    PROVE  \/ \E h \in Hosts : StartTurn(h, TRUE) \/ StartTurn(h, FALSE)
           \/ \E t \in TurnIds, st \in {"completed", "interrupted"} : TurnEnds(t, st)
           \/ issued' = issued /\ turns' = turns
<1>1. ASSUME NEW h \in Hosts,
             \/ StartHost(h) \/ ReadRequest(h) \/ ReadAck(h) \/ ClaimMkdir(h) \/ ClaimOwner(h)
             \/ ClaimRecheck(h) \/ ClaimAck(h) \/ RequeueDeadClaim(h) \/ RecoveryFailed(h)
             \/ RequeueLock(h) \/ RequeueRequest(h) \/ RequeueAck(h) \/ ReleaseOwner(h) \/ ReleaseDir(h)
             \/ HoldStarted(h) \/ LockStart(h) \/ StopBeforeDispatch(h) \/ CancelAck(h)
             \/ AttachRecovered(h) \/ StartThread(h) \/ ThreadStarted(h) \/ TurnStarting(h)
             \/ TurnStarted(h) \/ TurnHolding(h) \/ AdvanceRequest(h)
      PROVE  issued' = issued /\ turns' = turns
  BY <1>1 DEF server, StartHost, ReadRequest, ReadAck, ClaimMkdir, ClaimOwner, ClaimRecheck, ClaimAck,
     RequeueDeadClaim, RecoveryFailed, RequeueLock, RequeueRequest, RequeueAck, ReleaseOwner, ReleaseDir,
     HoldStarted, LockStart, StopBeforeDispatch, CancelAck, AttachRecovered, StartThread,
     ThreadStarted, TurnStarting, TurnStarted, TurnHolding, AdvanceRequest
<1>2. ASSUME NEW h \in Hosts,
             \/ PollGivesUp(h) \/ PollInterrupt(h) \/ Observe(h) \/ LockRecord(h) \/ Record(h)
             \/ DecisionAck(h) \/ WriteResult(h) \/ WriteFailure(h) \/ FailAck(h) \/ HolderExit(h)
             \/ HostFinally(h) \/ HostReport(h) \/ StartFails(h) \/ StartTurnFails(h)
             \/ PollTimeout(h) \/ HoldFails(h) \/ Crash(h)
      PROVE  issued' = issued /\ turns' = turns
  BY <1>2 DEF server, PollGivesUp, PollInterrupt, Observe, LockRecord, Record, DecisionAck, WriteResult,
     WriteFailure, FailAck, HolderExit, HostFinally, HostReport, StartFails, StartTurnFails,
     PollTimeout, HoldFails, Crash
<1>3. ASSUME CallerNext \/ UNCHANGED vars
      PROVE  issued' = issued /\ turns' = turns
  BY <1>3 DEF CallerNext, RequestHoldStop, CloseBind, CloseInspect, CloseLatch, CloseCancel, CloseReport,
     RequestHostStop, ReconcileHold, ReconcileUndispatched, ResumeCheck, ResumeArchive, ResumeRequest,
     ResumeAck, vars, server
<1>4. QED
  BY <1>1, <1>2, <1>3 DEF Next, HostNext, HostFault

\* The history only grows
LEMMA HistoryGrows ==
    ASSUME [Next]_vars
    PROVE  history \subseteq history'
<1>1. ASSUME NEW h \in Hosts,
             \/ StartHost(h) \/ ReadRequest(h) \/ ReadAck(h) \/ ClaimMkdir(h) \/ ClaimOwner(h)
             \/ ClaimRecheck(h) \/ ClaimAck(h) \/ RequeueDeadClaim(h) \/ RecoveryFailed(h)
             \/ RequeueLock(h) \/ RequeueRequest(h) \/ RequeueAck(h) \/ ReleaseOwner(h) \/ ReleaseDir(h)
             \/ HoldStarted(h) \/ LockStart(h) \/ StopBeforeDispatch(h) \/ CancelAck(h)
             \/ AttachRecovered(h) \/ StartThread(h) \/ ThreadStarted(h) \/ TurnStarting(h)
             \/ StartTurn(h, TRUE) \/ StartTurn(h, FALSE) \/ TurnStarted(h) \/ TurnHolding(h)
             \/ AdvanceRequest(h)
      PROVE  history' = history
  BY <1>1 DEF files, StartHost, ReadRequest, ReadAck, ClaimMkdir, ClaimOwner, ClaimRecheck, ClaimAck,
     RequeueDeadClaim, RecoveryFailed, RequeueLock, RequeueRequest, RequeueAck, ReleaseOwner, ReleaseDir,
     HoldStarted, LockStart, StopBeforeDispatch, CancelAck, AttachRecovered, StartThread,
     ThreadStarted, TurnStarting, StartTurn, TurnStarted, TurnHolding, AdvanceRequest
<1>2. ASSUME NEW h \in Hosts,
             \/ PollGivesUp(h) \/ PollInterrupt(h) \/ Observe(h) \/ LockRecord(h)
             \/ DecisionAck(h) \/ WriteResult(h) \/ WriteFailure(h) \/ FailAck(h) \/ HolderExit(h)
             \/ HostFinally(h) \/ HostReport(h) \/ StartFails(h) \/ StartTurnFails(h)
             \/ PollTimeout(h) \/ HoldFails(h) \/ Crash(h)
      PROVE  history' = history
  BY <1>2 DEF files, PollGivesUp, PollInterrupt, Observe, LockRecord, DecisionAck, WriteResult,
     WriteFailure, FailAck, HolderExit, HostFinally, HostReport, StartFails, StartTurnFails,
     PollTimeout, HoldFails, Crash
<1>3. ASSUME \/ CallerNext \/ UNCHANGED vars
             \/ \E t \in TurnIds, st \in {"completed", "interrupted"} : TurnEnds(t, st)
      PROVE  history' = history
  BY <1>3 DEF CallerNext, RequestHoldStop, CloseBind, CloseInspect, CloseLatch, CloseCancel, CloseReport,
     RequestHostStop, ReconcileHold, ReconcileUndispatched, ResumeCheck, ResumeArchive, ResumeRequest,
     ResumeAck, TurnEnds, vars, files
<1>4. ASSUME NEW h \in Hosts, Record(h)
      PROVE  history \subseteq history'
  BY <1>4 DEF Record, HistoryWith
<1>5. QED
  BY <1>1, <1>2, <1>3, <1>4 DEF Next, HostNext, HostFault

\* As long as no turn starts, what is known of the turns stays true
LEMMA TurnsStay ==
    ASSUME TypeOK, [Next]_vars,
           ~\E h \in Hosts : StartTurn(h, TRUE) \/ StartTurn(h, FALSE)
    PROVE  /\ Quiet => Quiet'
           /\ \A r, t : Only(r, t) => Only(r, t)'
           /\ \A r, t : Past(r, t) => Past(r, t)'
           /\ \A r : /\ OfRid(r) => OfRid(r)'
                     /\ NoneOf(r) => NoneOf(r)'
                     /\ Fresh(r) => Fresh(r)'
           /\ (req.stop => req'.stop) => \A r, t : Names(r, t) => Names(r, t)'
<1>1. InProgress' \subseteq InProgress /\ \A u \in TurnIds : turns'[u].rid = turns[u].rid
  <2>1. CASE \E t \in TurnIds, st \in {"completed", "interrupted"} : TurnEnds(t, st)
    BY <2>1 DEF TypeOK, TurnEnds, InProgress, Turns
  <2>2. CASE turns' = turns
    BY <2>2 DEF InProgress
  <2>3. QED
    BY <2>1, <2>2, ServerSteps
<1>2. InProgress \subseteq TurnIds
  BY DEF InProgress
<1>3. history \subseteq history'
  BY HistoryGrows
<1>4. /\ Quiet => Quiet'
      /\ \A r, t : Only(r, t) => Only(r, t)'
      /\ \A r : OfRid(r) => OfRid(r)'
      /\ \A r : NoneOf(r) => NoneOf(r)'
  BY <1>1, <1>2 DEF Quiet, Only, OfRid, NoneOf
<1>5. /\ \A r : Fresh(r) => Fresh(r)'
      /\ \A r, t : Past(r, t) => Past(r, t)'
  BY <1>1, <1>3 DEF Fresh, Past
<1>6. QED
  BY <1>4, <1>5 DEF Names

\* An exception changes nothing but the reason
LEMMA FailFields ==
    ASSUME TypeOK, NEW h \in Hosts, NEW k, Fail(h, k)
    PROVE  /\ pc'[h] = "failing" /\ my'[h].fail = k
           /\ my'[h].rid = my[h].rid /\ my'[h].turn = my[h].turn
           /\ my'[h].conf = my[h].conf /\ my'[h].notSent = my[h].notSent
<1> DEFINE v == [my[h] EXCEPT !.fail = k]
<1>1. my \in [Hosts -> Locals] /\ pc \in [Hosts -> PCs]
  BY DEF TypeOK
<1>2. /\ v.fail = k /\ v.rid = my[h].rid /\ v.turn = my[h].turn
      /\ v.conf = my[h].conf /\ v.notSent = my[h].notSent
  BY <1>1, Zenon DEF Locals
<1> HIDE DEF v
<1>3. my' = [my EXCEPT ![h] = v]
  BY Zenon DEF Fail, v
<1>4. QED
  BY <1>1, <1>2, <1>3 DEF Fail, Goto

\* What refresh_close_report concludes from a result holds of the turns
LEMMA RefreshShows ==
    ASSUME TypeOK, NEW r, NEW b, Shows(r), CloseTurns
    PROVE  LET c == RefreshedClose(r, b)
           IN  c.rid = close.rid /\ (c.nd \/ c.done => NoneOf(c.rid))
<1> DEFINE nd == NotDispatched(r) \/ close.nd
           done == IF nd THEN ~claim.dir ELSE r.conf /\ b
           c == [close EXCEPT !.nd = nd, !.done = done]
<1>1. CASE close.rid # req.rid \/ r.rid # req.rid \/ close.done
  BY <1>1 DEF RefreshedClose, CloseTurns
<1>2. CASE ~(close.rid # req.rid \/ r.rid # req.rid \/ close.done)
  <2>1. c.rid = close.rid /\ c.nd = nd /\ c.done = done
    BY Zenon DEF TypeOK, Closes
  <2>2. nd \/ done => NoneOf(close.rid)
    BY TurnsMean DEF CloseTurns, NotDispatched, Shows
  <2>3. RefreshedClose(r, b) = c
    BY <1>2, Zenon DEF RefreshedClose
  <2> HIDE DEF c, nd, done
  <2>4. QED
    BY <2>1, <2>2, <2>3
<1>3. QED
  BY <1>1, <1>2

\* A Host's own step, but for the start of a turn
LEMMA HostStepTurns ==
    ASSUME TypeOK, TypeOK', LockDiscipline, ClaimInv, ProtocolInv, RecoveryInv, ServerKnown, FileTurns,
           NEW h \in Hosts, HostTurns(h), HostNext(h) \/ HostFault(h),
           ~StartTurn(h, TRUE), ~StartTurn(h, FALSE),
           \A g \in Hosts : g # h => pc[g] = "idle"
    PROVE  HostTurns(h)' /\ FileTurns'
<1>0. /\ req \in Requests /\ ack \in Acks /\ (res # NoResult => res \in Results) /\ claim \in Claims
      /\ pc \in [Hosts -> PCs] /\ scan \in [Hosts -> Scans] /\ my \in [Hosts -> Locals]
      /\ alive \in [Hosts -> BOOLEAN] /\ scan[h] \in Scans /\ my[h] \in Locals
      /\ my' \in [Hosts -> Locals] /\ my'[h] \in Locals
  BY DEF TypeOK
<1>1. /\ pc[h] \in OwningPCs => Owns(h) /\ alive[h]
      /\ pc[h] \in LockedPCs => rlock = h
      /\ FilesKnown /\ HostKnown(h) /\ RecoveryHost(h)
      /\ pc[h] \in DispatchPCs \/ (pc[h] = "recorded" /\ my[h].dec = "CONTINUE") => ~req.stop
  BY DEF LockDiscipline, LockOK, StopOK, ClaimInv, ProtocolInv, RecoveryInv, DispatchPCs, OwningPCs, HolderPCs
<1>2. closer' = closer /\ resumer' = resumer
  BY HostsKeepCallers
<1>s. /\ Quiet => \A r, t : Only(r, t) /\ OfRid(r) /\ NoneOf(r)
      /\ \A r, t : Only(r, t) => OfRid(r)
      /\ \A r : OfRid(r) /\ NoneOf(r) => Quiet
      /\ \A r, t : Fresh(r) => Past(r, t)
  BY TurnsMean
<1>m. /\ Quiet => Quiet'
      /\ \A r, t : Only(r, t) => Only(r, t)'
      /\ \A r, t : Past(r, t) => Past(r, t)'
      /\ \A r : /\ OfRid(r) => OfRid(r)'
                /\ NoneOf(r) => NoneOf(r)'
                /\ Fresh(r) => Fresh(r)'
      /\ (req.stop => req'.stop) => \A r, t : Names(r, t) => Names(r, t)'
  <2>1. ~\E g \in Hosts : StartTurn(g, TRUE) \/ StartTurn(g, FALSE)
    BY DEF StartTurn, Running
  <2>2. [Next]_vars
    BY DEF Next
  <2>3. QED
    BY <2>1, <2>2, TurnsStay
<1>3. CallerTurns'
  BY <1>2, <1>m DEF FileTurns, CallerTurns
<1>4. res' = res => ResultTurns'
  BY <1>m DEF FileTurns, ResultTurns, Shows
<1>5. close' = close => CloseTurns'
  BY <1>m DEF FileTurns, CloseTurns
<1>6. req' = req /\ ack' = ack => QueueTurns'
  BY <1>m DEF FileTurns, QueueTurns, Queued
<1>7. req' = req /\ ack' = ack /\ res' = res => AckTurns'
  BY <1>2, <1>m DEF FileTurns, AckTurns
<1>8. req' = req /\ ack' = ack /\ res' = res /\ close' = close => FileTurns'
  BY <1>3, <1>4, <1>5, <1>6, <1>7 DEF FileTurns
<1>9. req' = req /\ res' = res /\ close' = close /\ QueueTurns' /\ AckTurns' => FileTurns'
  BY <1>3, <1>4, <1>5 DEF FileTurns
<1> DEFINE OutPCs == {"idle", "readAck", "claiming", "recheck", "recoveryFailed", "unlink", "rmdir", "report"}
<1>10. pc'[h] \in OutPCs => HostTurns(h)'
  BY DEF HostTurns, Starting, DeadPCs, HeldPCs, HolderPCs, DispatchPCs, TurnPCs, RunPCs
<1>11. ack'.phase # "queued" => QueueTurns'
  BY DEF QueueTurns, Queued
<1>12. ack'.turn = 0 => AckTurns'
  BY DEF AckTurns, Names
<1> USE DEF Queued
(* the scan *)
<1>13. CASE StartHost(h) \/ Crash(h) \/ ReadRequest(h) \/ ClaimOwner(h) \/ ReleaseOwner(h) \/ ReleaseDir(h)
  <2>1. /\ req' = req /\ ack' = ack /\ res' = res /\ close' = close
        /\ pc'[h] \in OutPCs
    BY <1>0, <1>13 DEF StartHost, Crash, ReadRequest, ClaimOwner, ReleaseOwner, ReleaseDir, ScanEnds, Goto,
       files, LockDiscipline, LockOK
  <2>2. QED
    BY <1>8, <1>10, <2>1
<1>14. CASE ReadAck(h) \/ ClaimMkdir(h) \/ RequeueDeadClaim(h) \/ RequeueLock(h)
  <2>1. /\ req' = req /\ ack' = ack /\ res' = res /\ close' = close
        /\ claim'.owner = claim.owner /\ crashed' = crashed
        /\ \/ pc'[h] \in OutPCs
           \/ /\ pc[h] = "readAck" /\ pc'[h] = "scanned" /\ scan'[h].ack = ack /\ res = NoResult
           \/ /\ pc[h] \in DeadPCs /\ pc'[h] \in DeadPCs /\ scan'[h].ack = scan[h].ack
    BY <1>0, <1>14 DEF ReadAck, ClaimMkdir, RequeueDeadClaim, RequeueLock, Running, ScanEnds, Goto,
       files, procs, Scans, Claims, DeadPCs
  <2>2. Lost' = Lost
    BY <2>1 DEF Lost
  <2>3. Lost => resumer.pc = "idle"
    BY <1>1, HoldConstants DEF Lost, FilesKnown, TypeOK
  <2>4. pc'[h] = "scanned" /\ Lost => Names(ack.rid, ack.turn) \/ pc[h] \in DeadPCs
    BY <2>1, <2>3 DEF FileTurns, AckTurns
  <2>5. pc'[h] \in DeadPCs => HostTurns(h)'
    BY <1>m, <2>1, <2>2, <2>4 DEF HostTurns, Starting, DeadPCs, HeldPCs, HolderPCs, DispatchPCs, TurnPCs,
       RunPCs
  <2>6. QED
    BY <1>8, <1>10, <2>1, <2>5 DEF DeadPCs
<1>15. CASE ClaimRecheck(h) \/ ClaimAck(h)
  <2>1. /\ req' = req /\ res' = res /\ close' = close
        /\ \/ pc'[h] \in OutPCs /\ ack' = ack
           \/ /\ pc'[h] = "claimAck" /\ ack' = ack /\ Queued /\ ack.rid = req.rid
           \/ /\ pc[h] = "claimAck" /\ pc'[h] = "claimed"
              /\ ack'.phase = "claimed" /\ ack'.turn = 0
    BY <1>0, <1>1, <1>15 DEF ClaimRecheck, ClaimAck, StillQueued, Running, Goto, files, Acks, Scans,
       HostKnown
  <2>2. pc'[h] \in {"claimAck", "claimed"} => ReqStart
    <3>1. Queued /\ ack.rid = req.rid => ReqStart
      BY <1>s DEF FileTurns, QueueTurns, ReqStart, Names
    <3>2. QED
      BY <2>1, <3>1 DEF HostTurns
  <2>3. ReqStart => ReqStart'
    BY <1>m, <2>1 DEF ReqStart
  <2>4. pc'[h] \in {"claimAck", "claimed"} => HostTurns(h)'
    BY <2>2, <2>3 DEF HostTurns, Starting, DeadPCs, HeldPCs, HolderPCs, DispatchPCs, TurnPCs, RunPCs
  <2>5. FileTurns'
    BY <1>8, <1>9, <1>11, <1>12, <2>1
  <2>6. QED
    BY <1>10, <2>1, <2>4, <2>5
<1>16. CASE RecoveryFailed(h)
  <2>1. /\ req' = req /\ res' = res /\ close' = close /\ pc'[h] \in OutPCs
        /\ ack'.phase # "queued" /\ ack'.turn = 0
    BY <1>0, <1>16 DEF RecoveryFailed, Goto
  <2>2. QED
    BY <1>9, <1>10, <1>11, <1>12, <2>1
<1>17. CASE RequeueRequest(h)
  <2>1. /\ ack' = ack /\ res' = res /\ close' = close /\ pc[h] = "requeueing"
        /\ claim' = claim /\ crashed' = crashed
        /\ \/ pc'[h] = "idle" /\ req' = req
           \/ /\ pc'[h] = "requeueAck" /\ scan' = scan
              /\ claim.owner = scan[h].dead /\ req.rid = scan[h].req.rid
              /\ req' = [scan[h].req EXCEPT
                           !.mode = RecoveryMode(h), !.turn = RecoveredTurn(h),
                           !.base = IF scan[h].ack.count = 0 THEN 1 ELSE scan[h].ack.count,
                           !.stop = scan[h].req.stop \/ req.stop]
    BY <1>0, <1>17 DEF RequeueRequest, Running, ScanEnds, Goto, files, procs
  <2>2. pc'[h] = "requeueAck" =>
          /\ req'.rid = req.rid /\ req'.mode = "recover" /\ req'.turn = RecoveredTurn(h)
          /\ req.stop => req'.stop
    BY <1>0, <2>1, Zenon DEF Requests, Scans, RecoveryMode
  <2>3. /\ scan[h].dead \in crashed /\ scan[h].ack.turn # 0
        /\ RecoveredTurn(h) = scan[h].ack.turn
    BY <1>1, <2>1 DEF RecoveryHost, RecoveredTurn
  <2>4. pc'[h] = "requeueAck" => Lost /\ req.rid = scan[h].ack.rid
    BY <1>1, <2>1, <2>3 DEF RecoveryHost, Lost, DeadPCs
  <2>5. pc'[h] = "requeueAck" => Names(req.rid, req'.turn)
    BY <2>1, <2>2, <2>3, <2>4 DEF HostTurns, DeadPCs
  <2>6. pc'[h] = "requeueAck" => Names(req.rid, req.turn)'
    BY <1>m, <2>2, <2>5
  <2>7. HostTurns(h)'
    BY <1>10, <2>1, <2>6 DEF HostTurns, Starting, DeadPCs, HeldPCs, HolderPCs, DispatchPCs, TurnPCs, RunPCs
  <2>8. QueueTurns' /\ AckTurns'
    BY <1>2, <1>m, <1>6, <1>7, <2>1, <2>2, <2>6 DEF FileTurns, QueueTurns, AckTurns
  <2>9. QED
    BY <1>3, <1>4, <1>5, <2>1, <2>7, <2>8 DEF FileTurns
<1>18. CASE RequeueAck(h)
  <2>1. /\ req' = req /\ res' = res /\ close' = close /\ pc[h] = "requeueAck" /\ pc'[h] \in OutPCs
        /\ ack'.rid = scan[h].req.rid /\ ack'.turn = 0
    BY <1>0, <1>18 DEF RequeueAck, Running, Goto
  <2>2. req.mode = "recover" /\ req.rid = ack'.rid /\ Names(req.rid, req.turn)
    BY <1>1, <2>1 DEF RecoveryHost, HostTurns
  <2>3. QueueTurns'
    BY <1>m, <2>1, <2>2 DEF QueueTurns
  <2>4. QED
    BY <1>9, <1>10, <1>12, <2>1, <2>3
(* the holder, to its first dispatch *)
<1>h. req' = req /\ res' = res /\ close' = close /\ ack'.phase # "queued" /\ AckTurns' => FileTurns'
  BY <1>9, <1>11
<1>19. CASE HoldStarted(h)
  <2>1. /\ req' = req /\ res' = res /\ close' = close /\ pc[h] = "claimed" /\ pc'[h] = "entered"
        /\ ack'.phase # "queued" /\ ack'.rid = req.rid
        /\ my'[h].mode = req.mode /\ my'[h].rid = req.rid
        /\ my'[h].turn = (IF req.mode = "recover" THEN req.turn ELSE 0)
        /\ my'[h].conf = (req.mode # "recover") /\ my'[h].notSent = (req.mode # "recover")
    BY <1>0, <1>19 DEF HoldStarted, Running, Goto, files, procs
  <2>2. ack'.turn = my'[h].turn
    BY <1>0, <1>19 DEF HoldStarted
  <2>3. ReqStart
    BY <2>1 DEF HostTurns
  <2>4. IF req.mode = "recover" THEN req.turn # 0 /\ Names(req.rid, req.turn)
        ELSE Quiet /\ (Fresh(req.rid) \/ req.stop)
    BY <1>1, <2>3 DEF ReqStart, FilesKnown
  <2>5. AckTurns'
    BY <1>m, <2>1, <2>2, <2>4 DEF AckTurns, Names
  <2>6. Shows(my[h])'
    BY <1>m, <1>s, <2>1, <2>4 DEF Shows, Names
  <2>7. HostTurns(h)'
    BY <1>m, <2>1, <2>4, <2>6 DEF HostTurns, Starting, DeadPCs, HeldPCs, HolderPCs, DispatchPCs, TurnPCs, RunPCs
  <2>8. QED
    BY <1>h, <2>1, <2>5, <2>7
<1>f. ASSUME NEW k \in {"error", "unknown"}, Fail(h, k), pc[h] \in HeldPCs,
             req' = req, ack' = ack, res' = res, close' = close
      PROVE  HostTurns(h)' /\ FileTurns'
  <2>1. /\ pc'[h] = "failing" /\ my'[h].fail # "readback"
        /\ my'[h].rid = my[h].rid /\ my'[h].turn = my[h].turn
        /\ my'[h].conf = my[h].conf /\ my'[h].notSent = my[h].notSent
    BY <1>f, FailFields
  <2>2. Shows(my[h])'
    BY <1>f, <1>m, <2>1 DEF HostTurns, Shows
  <2>3. HostTurns(h)'
    BY <2>1, <2>2 DEF HostTurns, Starting, DeadPCs, HeldPCs, HolderPCs, DispatchPCs, TurnPCs, RunPCs
  <2>4. QED
    BY <1>f, <1>8, <2>3
<1>20. CASE LockStart(h)
  <2>1. /\ req' = req /\ ack' = ack /\ res' = res /\ close' = close /\ pc[h] = "entered"
        /\ Fail(h, "error") \/ (pc'[h] = "starting" /\ my' = my)
    BY <1>0, <1>20 DEF LockStart, Running, Goto
  <2>2. my' = my => (Shows(my[h]) => Shows(my[h])')
    BY <1>m DEF Shows
  <2>3. pc'[h] = "starting" /\ my' = my => HostTurns(h)'
    BY <1>m, <2>1, <2>2 DEF HostTurns, Starting, DeadPCs, HeldPCs, HolderPCs, DispatchPCs, TurnPCs, RunPCs
  <2>4. QED
    BY <1>8, <1>f, <2>1, <2>3 DEF HeldPCs, HolderPCs
<1>21. CASE StopBeforeDispatch(h)
  <2>1. /\ req' = req /\ ack' = ack /\ close' = close /\ pc[h] = "starting" /\ pc'[h] = "cancelAck"
        /\ my' = my /\ my[h].mode # "recover"
        /\ res' = Cancelled(my[h].rid, TRUE, 0)
    BY <1>0, <1>21 DEF StopBeforeDispatch, Running, Goto
  <2>2. Quiet
    BY <2>1 DEF HostTurns
  <2>3. Shows(my[h])' /\ Shows(res)'
    BY <1>m, <1>s, <2>1, <2>2 DEF HostTurns, HeldPCs, HolderPCs, Shows, Cancelled
  <2>4. res' # NoResult
    BY <1>21, HostResultTyped, NoResultIsNone
  <2>5. HostTurns(h)'
    BY <2>1, <2>3 DEF HostTurns, Starting, DeadPCs, HeldPCs, HolderPCs, DispatchPCs, TurnPCs, RunPCs
  <2>6. ResultTurns' /\ AckTurns'
    BY <1>m, <2>2, <2>3, <2>4 DEF ResultTurns, AckTurns
  <2>7. QED
    BY <1>3, <1>5, <1>6, <2>1, <2>5, <2>6 DEF FileTurns
<1>22. CASE CancelAck(h) \/ FailAck(h)
  <2>1. /\ req' = req /\ res' = res /\ close' = close /\ pc[h] \in {"cancelAck", "failAck"}
        /\ pc'[h] = "closing" /\ my' = my /\ ack'.phase # "queued"
    BY <1>0, <1>22 DEF CancelAck, FailAck, EndedAck, Running, Goto
  <2>2. AckTurns'
    BY <1>1, <2>1 DEF HostKnown, AckTurns
  <2>3. Shows(my[h])'
    BY <1>m, <2>1 DEF HostTurns, HeldPCs, HolderPCs, Shows
  <2>4. HostTurns(h)'
    BY <2>1, <2>3 DEF HostTurns, Starting, DeadPCs, HeldPCs, HolderPCs, DispatchPCs, TurnPCs, RunPCs
  <2>5. QED
    BY <1>h, <2>1, <2>2, <2>4
<1>23. CASE AttachRecovered(h)
  <2>1. /\ req' = req /\ res' = res /\ close' = close /\ pc[h] = "starting" /\ pc'[h] = "attached"
        /\ my' = my /\ my[h].mode = "recover"
        /\ ack'.phase # "queued" /\ ack'.rid = my[h].rid /\ ack'.turn = my[h].turn
    BY <1>0, <1>23 DEF AttachRecovered, Running, Goto, Acks
  <2>2. Names(my[h].rid, my[h].turn) /\ my[h].turn # 0 /\ my[h].dec # "CONTINUE"
    BY <1>1, <2>1 DEF HostTurns, HostKnown, LockDiscipline, DecisionOK
  <2>3. AckTurns'
    BY <1>m, <2>1, <2>2 DEF AckTurns
  <2>4. Shows(my[h])'
    BY <1>m, <2>1 DEF HostTurns, HeldPCs, HolderPCs, Shows
  <2>5. HostTurns(h)'
    BY <1>m, <2>1, <2>2, <2>4 DEF HostTurns, Names, Starting, DeadPCs, HeldPCs, HolderPCs, DispatchPCs,
       TurnPCs, RunPCs
  <2>6. QED
    BY <1>h, <2>1, <2>3, <2>5
<1>24. CASE StartThread(h)
  <2>1. /\ req' = req /\ res' = res /\ close' = close /\ pc[h] = "starting"
        /\ pc'[h] \in {"threadStarting", "dispatch"}
        /\ my[h].mode # "recover" /\ ~StopRequested(my[h].rid)
        /\ my'[h].rid = my[h].rid /\ my'[h].turn = my[h].turn /\ ~my'[h].conf
        /\ my'[h].notSent = my[h].notSent
        /\ ack' = ack \/ (ack'.phase # "queued" /\ ack'.turn = 0)
    BY <1>0, <1>24 DEF StartThread, Running, Goto, Locals
  <2>2. Quiet /\ Fresh(my[h].rid) /\ close.rid # my[h].rid
    BY <2>1 DEF HostTurns, StopRequested
  <2>3. Shows(my[h])'
    BY <1>m, <1>s, <2>1, <2>2 DEF Shows
  <2>4. HostTurns(h)'
    BY <1>m, <1>s, <2>1, <2>2, <2>3 DEF HostTurns, Starting, DeadPCs, HeldPCs, HolderPCs, DispatchPCs,
       TurnPCs, RunPCs
  <2>5. QED
    BY <1>8, <1>h, <1>12, <2>1, <2>4
<1>25. CASE ThreadStarted(h) \/ TurnStarting(h)
  <2>1. /\ req' = req /\ res' = res /\ close' = close /\ pc[h] \in DispatchPCs /\ pc'[h] \in DispatchPCs
        /\ my'[h].rid = my[h].rid /\ my'[h].turn = my[h].turn /\ my'[h].conf = my[h].conf
        /\ ack'.phase # "queued" /\ (ack'.turn = 0 \/ ack'.turn = my[h].turn)
    BY <1>0, <1>25 DEF ThreadStarted, TurnStarting, Running, Goto, Locals, DispatchPCs
  <2>2. Quiet /\ my[h].turn = 0
    BY <1>1, <2>1 DEF HostTurns, HostKnown
  <2>3. Shows(my[h])'
    BY <1>m, <1>s, <2>1, <2>2 DEF Shows
  <2>4. HostTurns(h)'
    BY <1>m, <2>1, <2>2, <2>3 DEF HostTurns, Starting, DeadPCs, HeldPCs, HolderPCs, DispatchPCs,
       TurnPCs, RunPCs
  <2>5. QED
    BY <1>h, <1>12, <2>1, <2>2, <2>4
<1>26. CASE StartFails(h) \/ StartTurnFails(h) \/ PollTimeout(h) \/ HoldFails(h)
  <2>1. /\ req' = req /\ ack' = ack /\ res' = res /\ close' = close /\ pc[h] \in HeldPCs
        /\ Fail(h, "error") \/ Fail(h, "unknown")
    BY <1>26 DEF StartFails, StartTurnFails, PollTimeout, HoldFails, Running, HeldPCs, HolderPCs
  <2>2. QED
    BY <1>f, <2>1
(* a turn, and the next one *)
<1>27. CASE TurnStarted(h) \/ TurnHolding(h) \/ PollInterrupt(h)
  <2>1. /\ req' = req /\ res' = res /\ close' = close
        /\ pc[h] \in TurnPCs /\ pc'[h] \in {"started", "advance", "observing"}
        /\ ack'.phase # "queued" /\ ack'.rid = my[h].rid /\ ack'.turn = my[h].turn
    BY <1>0, <1>27 DEF TurnStarted, TurnHolding, PollInterrupt, Running, Goto, TurnPCs, RunPCs, DispatchPCs
  <2>2. /\ my'[h].rid = my[h].rid /\ my'[h].turn = my[h].turn
        /\ my'[h].conf = my[h].conf /\ my'[h].notSent = my[h].notSent
    <3>1. CASE PollInterrupt(h)
      BY <1>0, <3>1, ObserveFields DEF PollInterrupt, Running
    <3>2. CASE TurnStarted(h) \/ TurnHolding(h)
      BY <1>0, <3>2 DEF TurnStarted, TurnHolding, Locals
    <3>3. QED
      BY <1>27, <3>1, <3>2
  <2>3. Shows(my[h]) /\ (Past(my[h].rid, my[h].turn) \/ req.stop)
    BY <2>1 DEF HostTurns, HeldPCs, HolderPCs, TurnPCs, RunPCs, DispatchPCs
  <2>4. AckTurns'
    BY <1>m, <2>1, <2>3 DEF AckTurns, Names, Shows
  <2>5. Shows(my[h])'
    BY <1>m, <2>2, <2>3 DEF Shows
  <2>6. HostTurns(h)'
    BY <1>m, <2>1, <2>2, <2>3, <2>5 DEF HostTurns, Starting, DeadPCs, HeldPCs, HolderPCs, DispatchPCs,
       TurnPCs, RunPCs
  <2>7. QED
    BY <1>h, <2>1, <2>4, <2>6
<1>28. CASE AdvanceRequest(h)
  <2>1. /\ ack' = ack /\ res' = res /\ close' = close /\ pc[h] = "advance"
        /\ \/ req' = req /\ Fail(h, "error")
           \/ /\ pc'[h] = "observing" /\ my' = my /\ req'.stop = req.stop
    BY <1>0, <1>28 DEF AdvanceRequest, Running, Goto, Requests
  <2>2. my' = my => (Shows(my[h]) => Shows(my[h])')
    BY <1>m DEF Shows
  <2>3. pc'[h] = "observing" /\ my' = my /\ req'.stop = req.stop => HostTurns(h)'
    BY <1>m, <2>1, <2>2 DEF HostTurns, Starting, DeadPCs, HeldPCs, HolderPCs, DispatchPCs, TurnPCs, RunPCs
  <2>4. req'.stop = req.stop => FileTurns'
    <3>1. ~Queued'
      BY <1>1, <2>1 DEF HostKnown, HolderPCs
    <3>2. req'.stop = req.stop => AckTurns'
      BY <1>2, <1>m, <2>1 DEF FileTurns, AckTurns
    <3>3. QED
      BY <1>3, <1>4, <1>5, <2>1, <3>1, <3>2 DEF FileTurns, QueueTurns
  <2>5. QED
    BY <1>f, <2>1, <2>3, <2>4 DEF HeldPCs, HolderPCs
<1>29. CASE PollGivesUp(h)
  <2>1. /\ req' = req /\ ack' = ack /\ res' = res /\ close' = close
        /\ pc[h] = "observing" /\ pc'[h] = "failing"
    BY <1>0, <1>29 DEF PollGivesUp, Running, Goto, files
  <2>2. /\ my'[h].rid = my[h].rid /\ my'[h].turn = my[h].turn
        /\ my'[h].conf = my[h].conf /\ my'[h].notSent = my[h].notSent
    BY <1>29, <2>1, ObserveFields
  <2>3. my'[h].fail \in {"unknown", ReadBack(h)}
    <3> DEFINE sel == my[h].sel \/ ControlMatches(h)
               fail == IF ControlMatches(h) THEN ReadBack(h) ELSE "unknown"
               v == [my[h] EXCEPT !.sel = sel, !.fail = fail]
    <3>1. v.fail = fail
      BY <1>0, Zenon DEF Locals
    <3> HIDE DEF v
    <3>2. my' = [my EXCEPT ![h] = v]
      BY <1>29, Zenon DEF PollGivesUp, v
    <3>3. QED
      BY <1>0, <3>1, <3>2
  <2>4. my'[h].fail = "readback" => Quiet
    BY <2>3 DEF ReadBack, Quiet
  <2>5. Shows(my[h])'
    BY <1>m, <2>1, <2>2 DEF HostTurns, HeldPCs, HolderPCs, Shows
  <2>6. HostTurns(h)'
    BY <1>m, <2>1, <2>4, <2>5 DEF HostTurns, Starting, DeadPCs, HeldPCs, HolderPCs, DispatchPCs, TurnPCs,
       RunPCs
  <2>7. QED
    BY <1>8, <2>1, <2>6
<1>30. CASE Observe(h)
  <2>1. /\ req' = req /\ ack' = ack /\ res' = res /\ close' = close
        /\ pc[h] = "observing" /\ (Fail(h, "error") \/ pc'[h] = "decided")
        /\ my[h].turn \in told[h]
    BY <1>0, <1>30 DEF Observe, Running, Goto
  <2>2. /\ my'[h].rid = my[h].rid /\ my'[h].turn = my[h].turn /\ my'[h].notSent = my[h].notSent
    BY <1>30, ObserveFields
  <2>3. Only(my[h].rid, my[h].turn) /\ my[h].turn # 0 /\ (Past(my[h].rid, my[h].turn) \/ req.stop)
    BY <1>1, <2>1 DEF HostTurns, HostKnown, HeldPCs, HolderPCs, Shows, TurnPCs, RunPCs, DispatchPCs
  <2>4. Quiet
    BY <2>1, <2>3, TurnsMean DEF ServerKnown
  <2>5. Shows(my[h])'
    BY <1>m, <1>s, <2>2, <2>3, <2>4 DEF Shows
  <2>6. pc'[h] = "decided" => HostTurns(h)'
    BY <1>m, <2>1, <2>2, <2>3, <2>5 DEF HostTurns, Starting, DeadPCs, HeldPCs, HolderPCs, DispatchPCs,
       TurnPCs, RunPCs
  <2>7. QED
    BY <1>8, <1>f, <2>1, <2>6 DEF HeldPCs, HolderPCs
<1>31. CASE LockRecord(h)
  <2>1. /\ req' = req /\ ack' = ack /\ res' = res /\ close' = close /\ pc[h] = "decided"
        /\ Fail(h, "error") \/ (pc'[h] = "recording" /\ my' = my)
    BY <1>0, <1>31 DEF LockRecord, Running, Goto
  <2>2. my' = my => (Shows(my[h]) => Shows(my[h])')
    BY <1>m DEF Shows
  <2>3. pc'[h] = "recording" /\ my' = my => HostTurns(h)'
    BY <1>m, <2>1, <2>2 DEF HostTurns, Starting, DeadPCs, HeldPCs, HolderPCs, DispatchPCs, TurnPCs, RunPCs
  <2>4. QED
    BY <1>8, <1>f, <2>1, <2>3 DEF HeldPCs, HolderPCs
<1>32. CASE Record(h)
  <2>1. /\ req' = req /\ ack' = ack /\ res' = res /\ close' = close /\ pc[h] = "recording"
        /\ \/ Fail(h, "error")
           \/ /\ pc'[h] = "recorded" /\ history' = history \cup {my[h].turn} /\ turns' = turns
              /\ my' = [my EXCEPT ![h].dec = FinalDecision(h)]
    BY <1>0, <1>32 DEF Record, HistoryWith, Running, Goto, server
  <2>2. ASSUME my' = [my EXCEPT ![h].dec = FinalDecision(h)]
        PROVE  /\ my'[h].rid = my[h].rid /\ my'[h].turn = my[h].turn
               /\ my'[h].conf = my[h].conf /\ my'[h].notSent = my[h].notSent
               /\ my'[h].dec = FinalDecision(h)
    <3> DEFINE v == [my[h] EXCEPT !.dec = FinalDecision(h)]
    <3>1. /\ v.rid = my[h].rid /\ v.turn = my[h].turn /\ v.conf = my[h].conf
          /\ v.notSent = my[h].notSent /\ v.dec = FinalDecision(h)
      BY <1>0, Zenon DEF Locals
    <3> HIDE DEF v
    <3>2. my' = [my EXCEPT ![h] = v]
      BY <2>2, Zenon DEF v
    <3>3. QED
      BY <1>0, <3>1, <3>2
  <2>3. FinalDecision(h) = "CONTINUE" => close.rid # my[h].rid
    BY DEF FinalDecision, StopRequested
  <2>4. history' = history \cup {my[h].turn} /\ turns' = turns
          => \A r : Past(r, my[h].turn) => Past(r, 0)'
    BY DEF Past
  <2>5. Shows(my[h]) /\ (Past(my[h].rid, my[h].turn) \/ req.stop)
    BY <2>1 DEF HostTurns, HeldPCs, HolderPCs, TurnPCs, RunPCs, DispatchPCs
  <2>6. CASE ~Fail(h, "error")
    <3>1. /\ pc'[h] = "recorded" /\ history' = history \cup {my[h].turn} /\ turns' = turns
          /\ my'[h].rid = my[h].rid /\ my'[h].turn = my[h].turn
          /\ my'[h].conf = my[h].conf /\ my'[h].notSent = my[h].notSent
          /\ my'[h].dec = "CONTINUE" => close.rid # my[h].rid
      BY <2>1, <2>2, <2>3, <2>6
    <3>2. Shows(my[h])'
      BY <1>m, <2>5, <3>1 DEF Shows
    <3>3. (Past(my[h].rid, 0)' /\ Past(my[h].rid, my[h].turn)') \/ req'.stop
      BY <1>m, <2>1, <2>4, <2>5, <3>1
    <3>4. HostTurns(h)'
      BY <2>1, <3>1, <3>2, <3>3 DEF HostTurns, Starting, DeadPCs, HeldPCs, HolderPCs, DispatchPCs,
         TurnPCs, RunPCs
    <3>5. QED
      BY <1>8, <2>1, <3>4
  <2>7. QED
    BY <1>f, <2>1, <2>6 DEF HeldPCs, HolderPCs
<1>33. CASE DecisionAck(h)
  <2>1. /\ req' = req /\ res' = res /\ close' = close /\ pc[h] = "recorded"
        /\ ack'.phase # "queued" /\ ack'.rid = my[h].rid /\ ack'.turn = my[h].turn
    BY <1>0, <1>33 DEF DecisionAck, Running
  <2>2. \/ /\ pc'[h] = "dispatch" /\ my[h].dec = "CONTINUE"
           /\ my'[h].rid = my[h].rid /\ my'[h].turn = 0 /\ ~my'[h].conf
        \/ pc'[h] = "result" /\ my' = my
    BY <1>33, ContinueFields DEF Continues
  <2>3. /\ Shows(my[h]) /\ my[h].conf
        /\ Past(my[h].rid, my[h].turn) \/ req.stop
        /\ Past(my[h].rid, 0) \/ req.stop
        /\ my[h].dec = "CONTINUE" => ~req.stop
        /\ my[h].dec = "CONTINUE" /\ my[h].rid = close.rid => ~close.nd /\ ~close.done
    BY <1>1, <2>1 DEF HostTurns, HostKnown, Starting, HeldPCs, HolderPCs, TurnPCs, RunPCs, DispatchPCs
  <2>4. AckTurns'
    BY <1>m, <2>1, <2>3 DEF AckTurns, Names, Shows
  <2>5. Quiet
    BY <2>3 DEF Shows
  <2>6. Shows(my[h])'
    BY <1>m, <1>s, <2>2, <2>3, <2>5 DEF Shows
  <2>7. HostTurns(h)'
    BY <1>m, <2>1, <2>2, <2>3, <2>5, <2>6 DEF HostTurns, Starting, DeadPCs, HeldPCs, HolderPCs, DispatchPCs,
       TurnPCs, RunPCs
  <2>8. QED
    BY <1>h, <2>1, <2>4, <2>7
(* the end *)
<1>34. CASE WriteResult(h) \/ WriteFailure(h)
  <2>1. /\ req' = req /\ ack' = ack /\ close' = close /\ my' = my
        /\ pc[h] \in {"result", "failing"} /\ pc'[h] \in {"closing", "failAck"}
    BY <1>0, <1>34 DEF WriteResult, WriteFailure, Running, Goto
  <2>2. res' # NoResult
    BY <1>34, HostResultTyped, NoResultIsNone
  <2>3. /\ Shows(my[h])
        /\ pc[h] = "failing" /\ my[h].fail = "readback" => Quiet
    BY <2>1 DEF HostTurns, HeldPCs, HolderPCs
  <2>4. /\ res'.rid = my[h].rid /\ res'.turn = my[h].turn
        /\ res'.conf => my[h].conf
        /\ res'.notSent => my[h].notSent
        /\ res'.readback => pc[h] = "failing" /\ my[h].fail = "readback"
    <3>1. CASE WriteResult(h)
      BY <3>1 DEF WriteResult
    <3>2. CASE WriteFailure(h)
      BY <3>2 DEF WriteFailure, Running
    <3>3. QED
      BY <1>34, <3>1, <3>2
  <2>5. ResultTurns'
    BY <1>m, <2>3, <2>4 DEF ResultTurns, Shows
  <2>6. AckTurns'
    BY <2>2 DEF AckTurns
  <2>7. Shows(my[h])'
    BY <1>m, <2>1, <2>3 DEF Shows
  <2>8. HostTurns(h)'
    BY <2>1, <2>7 DEF HostTurns, Starting, DeadPCs, HeldPCs, HolderPCs, DispatchPCs, TurnPCs, RunPCs
  <2>9. QED
    BY <1>3, <1>5, <1>6, <2>1, <2>5, <2>6, <2>8 DEF FileTurns
<1>35. CASE HolderExit(h)
  <2>1. /\ req' = req /\ ack' = ack /\ my' = my /\ pc[h] = "closing" /\ pc'[h] = "finally"
        /\ res = NoResult => res' = res /\ close' = close
    BY <1>0, <1>35 DEF HolderExit, Running, Goto
  <2>2. ASSUME res # NoResult
        PROVE  /\ res' \in Results /\ close' \in {close, RefreshedClose(res', res.conf /\ ~claim.dir)}
               /\ res'.rid = res.rid /\ res'.turn = res.turn /\ res'.conf = res.conf
               /\ res'.notSent = res.notSent /\ res'.readback = res.readback
    <3> DEFINE exited == [res EXCEPT !.exit = @ \/ res.hs]
    <3>1. res \in Results
      BY <1>0, <2>2
    <3>2. \A e \in {exited, [exited EXCEPT !.obs = TRUE]} :
            /\ e.rid = res.rid /\ e.turn = res.turn /\ e.conf = res.conf
            /\ e.notSent = res.notSent /\ e.readback = res.readback
      BY <3>1 DEF Results
    <3>3. res' \in {exited, [exited EXCEPT !.obs = TRUE]}
      BY <1>35, <2>2, Zenon DEF HolderExit
    <3>4. close' \in {close, RefreshedClose(res', res.conf /\ ~claim.dir)}
      BY <1>35, <2>2, Zenon DEF HolderExit
    <3>5. QED
      BY <1>35, <2>2, <3>2, <3>3, <3>4, HostResultTyped
  <2>3. res # NoResult => Shows(res) /\ (res.readback => Quiet)
    BY DEF FileTurns, ResultTurns
  <2>4. res # NoResult => Shows(res')
    BY <2>2, <2>3 DEF Shows
  <2>5. ResultTurns'
    BY <1>4, <1>m, <2>1, <2>2, <2>3 DEF ResultTurns, Shows
  <2>6. CloseTurns'
    <3>1. CASE close' = close
      BY <1>5, <3>1
    <3>2. CASE close' # close
      <4>1. res # NoResult /\ close' = RefreshedClose(res', res.conf /\ ~claim.dir)
        BY <2>1, <2>2, <3>2
      <4>2. close'.rid = close.rid /\ (close'.nd \/ close'.done => NoneOf(close.rid))
        BY <2>4, <4>1, RefreshShows DEF FileTurns
      <4>3. QED
        BY <1>m, <4>2 DEF CloseTurns
    <3>3. QED
      BY <3>1, <3>2
  <2>7. AckTurns'
    BY <1>7, <2>1, <2>2, NoResultIsNone DEF AckTurns
  <2>8. Shows(my[h])'
    BY <1>m, <2>1 DEF HostTurns, HeldPCs, HolderPCs, Shows
  <2>9. HostTurns(h)'
    BY <2>1, <2>8 DEF HostTurns, Starting, DeadPCs, HeldPCs, HolderPCs, DispatchPCs, TurnPCs, RunPCs
  <2>10. QED
    BY <1>3, <1>6, <2>1, <2>5, <2>6, <2>7, <2>9 DEF FileTurns
<1>36. CASE HostFinally(h)
  <2>1. /\ req' = req /\ close' = close /\ pc[h] = "finally" /\ pc'[h] \in OutPCs
        /\ \/ res' = res /\ ack' = ack
           \/ res # NoResult /\ ack'.phase # "queued"
    BY <1>0, <1>36 DEF HostFinally, EndedAck, Running, Goto
  <2>2. ASSUME res # NoResult
        PROVE  /\ res' \in Results
               /\ res'.rid = res.rid /\ res'.turn = res.turn
               /\ res'.conf => res.conf \/ res.readback
               /\ res'.notSent = res.notSent /\ res'.readback = res.readback
    <3>1. res \in Results
      BY <1>0, <2>2
    <3>2. \A b : /\ [res EXCEPT !.hexit = TRUE, !.conf = b].rid = res.rid
                 /\ [res EXCEPT !.hexit = TRUE, !.conf = b].turn = res.turn
                 /\ [res EXCEPT !.hexit = TRUE, !.conf = b].conf = b
                 /\ [res EXCEPT !.hexit = TRUE, !.conf = b].notSent = res.notSent
                 /\ [res EXCEPT !.hexit = TRUE, !.conf = b].readback = res.readback
      BY <3>1, Zenon DEF Results
    <3>3. \/ res' = res
          \/ res' = [res EXCEPT !.hexit = TRUE, !.conf = (res.conf \/ OwnerProof)]
      BY <1>36, Zenon DEF HostFinally
    <3>4. OwnerProof => res.readback
      BY DEF OwnerProof
    <3> DEFINE b == res.conf \/ OwnerProof
               e == [res EXCEPT !.hexit = TRUE, !.conf = b]
    <3>5. /\ e.rid = res.rid /\ e.turn = res.turn /\ e.conf = b
          /\ e.notSent = res.notSent /\ e.readback = res.readback
      BY <3>2, Zenon
    <3>6. b => res.conf \/ res.readback
      BY <3>4
    <3>7. res' \in {res, e}
      BY <3>3, Zenon
    <3> HIDE DEF b, e
    <3>8. res' \in Results
      BY <1>36, <2>2, HostResultTyped
    <3>9. QED
      BY <3>5, <3>6, <3>7, <3>8
  <2>3. ResultTurns'
    BY <1>4, <1>m, <2>1, <2>2 DEF FileTurns, ResultTurns, Shows
  <2>4. QueueTurns' /\ AckTurns'
    BY <1>6, <1>7, <1>11, <2>1, <2>2, NoResultIsNone DEF AckTurns
  <2>5. QED
    BY <1>3, <1>5, <1>10, <2>1, <2>3, <2>4 DEF FileTurns
<1>37. CASE HostReport(h)
  <2>1. /\ req' = req /\ ack' = ack /\ res' = res /\ pc'[h] = "idle"
        /\ close' = close \/ (res # NoResult /\ close' = RefreshedClose(res, res.conf /\ ~claim.dir))
    BY <1>0, <1>37 DEF HostReport, ScanEnds, Goto
  <2>2. CloseTurns'
    <3>1. CASE close' = close
      BY <1>5, <3>1
    <3>2. CASE close' # close
      <4>1. close'.rid = close.rid /\ (close'.nd \/ close'.done => NoneOf(close.rid))
        BY <2>1, <3>2, RefreshShows DEF FileTurns, ResultTurns
      <4>2. QED
        BY <1>m, <4>1 DEF CloseTurns
    <3>3. QED
      BY <3>1, <3>2
  <2>3. QED
    BY <1>3, <1>4, <1>6, <1>7, <1>10, <2>1, <2>2 DEF FileTurns
<1>38. QED
  <2>1. ASSUME HostNext(h)
        PROVE  HostTurns(h)' /\ FileTurns'
    BY <2>1, <1>13, <1>14, <1>15, <1>16, <1>17, <1>18, <1>19, <1>20, <1>21, <1>22, <1>23, <1>24, <1>25,
       <1>27, <1>28, <1>29, <1>30, <1>31, <1>32, <1>33, <1>34, <1>35, <1>36, <1>37 DEF HostNext
  <2>2. ASSUME HostFault(h)
        PROVE  HostTurns(h)' /\ FileTurns'
    BY <2>2, <1>13, <1>26 DEF HostFault
  <2>3. QED
    BY <2>1, <2>2

\* A turn starts only when no other is in progress, and is then the only one
LEMMA StartTurnTurns ==
    ASSUME TypeOK, TypeOK', LockDiscipline, ClaimInv, ProtocolInv, ServerKnown, FileTurns,
           NEW h \in Hosts, HostTurns(h), StartTurn(h, TRUE) \/ StartTurn(h, FALSE)
    PROVE  HostTurns(h)' /\ FileTurns' /\ ServerKnown'
<1>0. /\ pc \in [Hosts -> PCs] /\ my \in [Hosts -> Locals] /\ my[h] \in Locals /\ pc[h] = "sending"
      /\ issued \in 0..MaxIssued /\ turns \in [TurnIds -> Turns] /\ resumer.rid \in Rids
      /\ MaxIssued \in Nat
  BY HoldConstants DEF TypeOK, StartTurn, Running, Resumers
<1>1. /\ ~req.stop /\ res = NoResult /\ ack.turn = 0 /\ ~Queued
      /\ ~my[h].conf /\ ~my[h].notSent /\ my[h].turn = 0
  BY <1>0 DEF LockDiscipline, StopOK, ProtocolInv, HostKnown, RunPCs, DispatchPCs, HolderPCs
<1>2. resumer.pc = "idle" /\ closer.pc # "cancel"
  <2>1. Owns(h) /\ rlock = h
    BY <1>0 DEF ClaimInv, OwningPCs, HolderPCs, LockDiscipline, LockOK, LockedPCs
  <2>2. QED
    BY <2>1, HoldConstants DEF Owns, ProtocolInv, FilesKnown, LockDiscipline, LockOK
<1>3. /\ Quiet /\ Past(my[h].rid, 0)
      /\ my[h].rid = close.rid => ~close.nd /\ ~close.done
  BY <1>0 DEF HostTurns, Starting, DispatchPCs
<1>4. /\ req' = req /\ ack' = ack /\ res' = res /\ close' = close /\ history' = history
      /\ closer' = closer /\ resumer' = resumer /\ told' = told
      /\ issued < MaxIssued /\ issued' = issued + 1
      /\ turns' = [turns EXCEPT ![issued + 1] =
                     [st |-> "inProgress", rid |-> my[h].rid, no |-> NextCount(h)]]
  BY DEF StartTurn, callers
<1>5. /\ issued + 1 \in TurnIds /\ 0 \notin TurnIds
      /\ turns'[issued + 1].st = "inProgress" /\ turns'[issued + 1].rid = my[h].rid
      /\ \A t \in TurnIds \ {issued + 1} : turns'[t] = turns[t]
  BY <1>0, <1>4 DEF TurnIds
<1>6. InProgress' = {issued + 1}
  BY <1>3, <1>5 DEF Quiet, InProgress
<1>7. ASSUME NEW r, r = my[h].rid, NEW n, n = issued + 1
      PROVE  Only(r, n)' /\ OfRid(r)' /\ Past(r, n)'
  <2>1. \A u \in InProgress' : u = n /\ turns'[u].rid = r
    BY <1>5, <1>6, <1>7
  <2>2. \A u \in TurnIds : turns'[u].rid = r => u \in history' \cup {n}
    BY <1>3, <1>4, <1>5, <1>7 DEF Past
  <2>3. QED
    BY <2>1, <2>2 DEF Only, OfRid, Past
<1>8. CloseTurns'
  <2>1. my[h].rid # close.rid => NoneOf(close.rid)'
    BY <1>4, <1>5, <1>6 DEF NoneOf
  <2>2. QED
    BY <1>3, <1>4, <2>1 DEF CloseTurns
<1>9. FileTurns'
  BY <1>1, <1>2, <1>4, <1>8 DEF FileTurns, QueueTurns, Queued, AckTurns, Names, ResultTurns, CallerTurns
<1>10. HostTurns(h)'
  <2>1. CASE StartTurn(h, TRUE)
    <3>1. pc'[h] = "sent" /\ my' = [my EXCEPT ![h].turn = issued + 1]
      BY <1>0, <2>1 DEF StartTurn, Goto
    <3>2. /\ my'[h].turn = issued + 1 /\ my'[h].rid = my[h].rid
          /\ ~my'[h].conf /\ ~my'[h].notSent
      BY <1>0, <1>1, <3>1 DEF Locals
    <3>3. Shows(my[h])' /\ Past(my[h].rid, my[h].turn)'
      BY <1>7, <3>2 DEF Shows
    <3>4. QED
      BY <3>1, <3>3 DEF HostTurns, Starting, DeadPCs, HeldPCs, HolderPCs, DispatchPCs, TurnPCs, RunPCs
  <2>2. CASE StartTurn(h, FALSE)
    <3>1. Fail(h, "error")
      BY <2>2 DEF StartTurn
    <3>2. /\ pc'[h] = "failing" /\ my'[h].fail = "error" /\ my'[h].turn = 0 /\ my'[h].rid = my[h].rid
          /\ ~my'[h].conf /\ ~my'[h].notSent
      BY <1>1, <3>1, FailFields
    <3>3. Shows(my[h])'
      BY <1>7, <3>2 DEF Shows
    <3>4. QED
      BY <3>2, <3>3 DEF HostTurns, Starting, DeadPCs, HeldPCs, HolderPCs, DispatchPCs, TurnPCs, RunPCs
  <2>3. QED
    BY <2>1, <2>2
<1>11. ServerKnown'
  <2>1. my[h].rid \in 1..resumer.rid
    BY <1>0 DEF ClaimInv, RidsKnown, Locals, Rids
  <2>2. turns[issued + 1].st = "none"
    BY <1>0, <1>5 DEF ServerKnown
  <2>3. \A t \in TurnIds : IF t <= issued'
                           THEN turns'[t].st # "none" /\ turns'[t].rid \in 1..resumer'.rid
                           ELSE turns'[t].st = "none" /\ turns'[t].rid = 0
    <3>1. ASSUME NEW t \in TurnIds, t # issued + 1
          PROVE  turns'[t] = turns[t] /\ (t <= issued' <=> t <= issued)
      BY <1>0, <1>4, <1>5, <3>1 DEF TurnIds
    <3>2. issued + 1 <= issued'
      BY <1>0, <1>4
    <3>3. QED
      BY <1>4, <1>5, <2>1, <3>1, <3>2 DEF ServerKnown
  <2>4. \A g \in Hosts : \A t \in told'[g] : turns'[t].st \notin {"none", "inProgress"}
    <3>1. ASSUME NEW g \in Hosts, NEW t \in told[g]
          PROVE  t \in TurnIds /\ t # issued + 1 /\ turns[t].st \notin {"none", "inProgress"}
      BY <2>2 DEF ServerKnown, TypeOK
    <3>2. QED
      BY <1>4, <1>5, <3>1
  <2>5. QED
    BY <1>6, <2>3, <2>4 DEF ServerKnown
<1>12. QED
  BY <1>9, <1>10, <1>11

\* What the App Server's clients were told, and the request ids given, as long as no turn starts
LEMMA ServerStays ==
    ASSUME TypeOK, ServerKnown, [Next]_vars,
           ~\E h \in Hosts : StartTurn(h, TRUE) \/ StartTurn(h, FALSE)
    PROVE  ServerKnown'
<1>0. /\ told \in [Hosts -> SUBSET TurnIds] /\ turns \in [TurnIds -> Turns]
      /\ resumer \in Resumers /\ resumer.rid \in Nat
  BY DEF TypeOK, Resumers, Rids
<1>1. resumer'.rid \in Nat /\ resumer.rid <= resumer'.rid
  <2>1. CASE ResumeRequest
    BY <1>0, <2>1 DEF ResumeRequest
  <2>2. ASSUME NEW h \in Hosts, HostNext(h) \/ HostFault(h)
        PROVE  resumer' = resumer
    BY <2>2, HostsKeepCallers
  <2>3. CASE \/ RequestHoldStop \/ CloseBind \/ CloseInspect \/ CloseLatch \/ CloseCancel \/ CloseReport
             \/ RequestHostStop \/ ReconcileHold \/ ReconcileUndispatched
             \/ ResumeCheck \/ ResumeArchive \/ ResumeAck \/ UNCHANGED vars
             \/ \E t \in TurnIds, st \in {"completed", "interrupted"} : TurnEnds(t, st)
    <3>1. \/ resumer' = resumer \/ \E x : resumer' = [resumer EXCEPT !.pc = x]
      BY <2>3, Zenon DEF RequestHoldStop, CloseBind, CloseInspect, CloseLatch, CloseCancel, CloseReport,
         RequestHostStop, ReconcileHold, ReconcileUndispatched, ResumeCheck, ResumeArchive, ResumeAck,
         TurnEnds, vars, callers
    <3>2. QED
      BY <1>0, <3>1 DEF Resumers
  <2>4. QED
    BY <1>0, <2>1, <2>2, <2>3 DEF Next, CallerNext
<1>2. CASE \E t \in TurnIds, st \in {"completed", "interrupted"} : TurnEnds(t, st)
  <2>1. PICK t \in TurnIds, st \in {"completed", "interrupted"} : TurnEnds(t, st)
    BY <1>2
  <2>2. /\ issued' = issued /\ turns' = [turns EXCEPT ![t].st = st]
        /\ \A h \in Hosts : told'[h] \subseteq told[h] \cup {t}
    BY <1>0, <2>1 DEF TurnEnds
  <2>3. /\ turns'[t].st = st /\ turns'[t].rid = turns[t].rid /\ turns[t].st = "inProgress"
        /\ \A u \in TurnIds \ {t} : turns'[u] = turns[u]
    BY <1>0, <2>1, <2>2 DEF Turns, TurnEnds
  <2>4. \A u \in TurnIds : IF u <= issued' THEN turns'[u].st # "none" /\ turns'[u].rid \in 1..resumer'.rid
                           ELSE turns'[u].st = "none" /\ turns'[u].rid = 0
    BY <1>0, <1>1, <2>2, <2>3 DEF ServerKnown
  <2>5. \A h \in Hosts : \A u \in told'[h] : turns'[u].st \notin {"none", "inProgress"}
    BY <1>0, <2>2, <2>3 DEF ServerKnown
  <2>6. InProgress' \subseteq InProgress
    BY <2>3 DEF InProgress
  <2>7. QED
    BY <2>4, <2>5, <2>6 DEF ServerKnown
<1>3. CASE /\ issued' = issued /\ turns' = turns
           /\ ~\E t \in TurnIds, st \in {"completed", "interrupted"} : TurnEnds(t, st)
  <2>1. \A h \in Hosts : told'[h] \subseteq told[h]
    <3>1. ASSUME NEW h \in Hosts, HostReport(h) \/ Crash(h)
          PROVE  \A g \in Hosts : told'[g] \subseteq told[g]
      BY <1>0, <3>1 DEF HostReport, Crash
    <3>2. ASSUME NEW h \in Hosts, HostNext(h) \/ HostFault(h), ~HostReport(h), ~Crash(h)
          PROVE  told' = told
      BY <3>2 DEF HostNext, HostFault, server, StartHost, ReadRequest, ReadAck, ClaimMkdir, ClaimOwner,
         ClaimRecheck, ClaimAck, RequeueDeadClaim, RecoveryFailed, RequeueLock, RequeueRequest, RequeueAck,
         ReleaseOwner, ReleaseDir, HoldStarted, LockStart, StopBeforeDispatch, CancelAck, AttachRecovered,
         StartThread, ThreadStarted, TurnStarting, StartTurn, TurnStarted, TurnHolding, AdvanceRequest,
         PollGivesUp, PollInterrupt, Observe, LockRecord, Record, DecisionAck, WriteResult, WriteFailure,
         FailAck, HolderExit, HostFinally, StartFails, StartTurnFails, PollTimeout, HoldFails
    <3>3. ASSUME CallerNext \/ UNCHANGED vars
          PROVE  told' = told
      BY <3>3 DEF CallerNext, RequestHoldStop, CloseBind, CloseInspect, CloseLatch, CloseCancel, CloseReport,
         RequestHostStop, ReconcileHold, ReconcileUndispatched, ResumeCheck, ResumeArchive, ResumeRequest,
         ResumeAck, vars, server
    <3>4. QED
      BY <1>3, <3>1, <3>2, <3>3 DEF Next
  <2>2. \A u \in TurnIds : IF u <= issued' THEN turns'[u].st # "none" /\ turns'[u].rid \in 1..resumer'.rid
                           ELSE turns'[u].st = "none" /\ turns'[u].rid = 0
    BY <1>0, <1>1, <1>3 DEF ServerKnown
  <2>3. InProgress' = InProgress
    BY <1>3 DEF InProgress
  <2>4. QED
    BY <1>3, <2>1, <2>2, <2>3 DEF ServerKnown
<1>4. QED
  BY <1>2, <1>3, ServerSteps

\* A Hold reported as released has no turn in progress
LEMMA ReleasedIsQuiet ==
    ASSUME ResultTurns, CloseTurns, Released
    PROVE  Quiet
<1>1. Shows(res) /\ res.rid = req.rid /\ (res.conf \/ (close.rid = req.rid /\ close.nd))
  BY DEF ResultTurns, Released
<1>2. QED
  BY <1>1, TurnsMean DEF Shows, CloseTurns

\* A step of a caller, or of the App Server
LEMMA CallerStepTurns ==
    ASSUME TypeOK, TypeOK', LockDiscipline, ClaimInv, ProtocolInv, RecoveryInv, TurnsInv,
           \/ CallerNext
           \/ \E t \in TurnIds, st \in {"completed", "interrupted"} : TurnEnds(t, st)
           \/ UNCHANGED vars
    PROVE  TurnsInv'
<1>0. /\ req \in Requests /\ ack \in Acks /\ (res # NoResult => res \in Results) /\ claim \in Claims
      /\ close \in Closes /\ closer \in Closers /\ resumer \in Resumers /\ closer.req \in Requests
      /\ crashed \subseteq Hosts /\ Nobody \notin crashed
  BY HoldConstants DEF TypeOK, Closers
<1>1. /\ pc' = pc /\ my' = my /\ scan' = scan /\ crashed' = crashed
  BY CallersKeepHosts DEF CallerNext, RequestHoldStop, CloseBind, CloseInspect, CloseLatch, CloseCancel,
     CloseReport, RequestHostStop, ReconcileHold, ReconcileUndispatched, ResumeCheck, ResumeArchive,
     ResumeRequest, ResumeAck, TurnEnds, vars, procs
<1>n. [Next]_vars /\ ~\E h \in Hosts : StartTurn(h, TRUE) \/ StartTurn(h, FALSE)
  <2>1. ASSUME NEW h \in Hosts, StartTurn(h, TRUE) \/ StartTurn(h, FALSE)
        PROVE  pc'[h] # pc[h]
    BY <2>1 DEF TypeOK, StartTurn, Running, Goto, Fail
  <2>2. QED
    BY <1>1, <2>1 DEF Next
<1>m. /\ Quiet => Quiet'
      /\ \A r, t : Only(r, t) => Only(r, t)'
      /\ \A r, t : Past(r, t) => Past(r, t)'
      /\ \A r : /\ OfRid(r) => OfRid(r)'
                /\ NoneOf(r) => NoneOf(r)'
                /\ Fresh(r) => Fresh(r)'
      /\ (req.stop => req'.stop) => \A r, t : Names(r, t) => Names(r, t)'
  BY <1>n, TurnsStay
<1>s. /\ Quiet => \A r, t : Only(r, t) /\ OfRid(r) /\ NoneOf(r)
      /\ \A r, t : Only(r, t) => OfRid(r)
      /\ \A r : OfRid(r) /\ NoneOf(r) => Quiet
      /\ \A r, t : Only(r, t) /\ turns[t].st # "inProgress" => Quiet
  BY TurnsMean
<1>2. ServerKnown'
  BY <1>n, ServerStays DEF TurnsInv
<1>3. FilesKnown /\ FileTurns /\ QueueTurns /\ AckTurns /\ ResultTurns /\ CallerTurns /\ CloseTurns
  BY DEF ProtocolInv, TurnsInv, FileTurns
<1>4. /\ Copying => rlock = Closer
      /\ CanLock => ~Copying
  BY HoldConstants DEF CanLock, LockDiscipline, LockOK, Copying
<1>5. Lost' => Lost
  <2>1. ReconcileHold => ~Lost'
    BY <1>0, <1>1 DEF ReconcileHold, Lost
  <2>2. QED
    BY <1>1, <2>1, CallersKeepClaim DEF Lost
<1>6. ASSUME NEW h \in Hosts
      PROVE  /\ HostTurns(h) /\ HostKnown(h) /\ RecoveryHost(h)
             /\ pc[h] \in OwningPCs => Owns(h)
             /\ pc[h] \in OwningPCs \/ Lost => resumer.pc = "idle"
             /\ Starting(h) => ~req.stop /\ res = NoResult
             /\ pc[h] = "requeueAck" => Lost /\ ~Copying /\ ~CanLock
  <2>1. /\ HostTurns(h) /\ HostKnown(h) /\ RecoveryHost(h) /\ (pc[h] \in OwningPCs => Owns(h))
        /\ Starting(h) => ~req.stop
    BY DEF TurnsInv, ProtocolInv, RecoveryInv, ClaimInv, LockDiscipline, StopOK, Starting, DispatchPCs
  <2>2. Starting(h) => res = NoResult
    BY <2>1 DEF HostKnown, Starting, RunPCs, DispatchPCs
  <2>3. pc[h] \in OwningPCs \/ Lost => resumer.pc = "idle"
    BY <1>0, <1>3, <2>1 DEF Owns, Lost, FilesKnown
  <2>4. pc[h] = "requeueAck" => rlock = h /\ alive[h]
    BY DEF LockDiscipline, LockOK, LockedPCs
  <2>5. pc[h] = "requeueAck" => Lost /\ ~Copying /\ ~CanLock
    BY <1>4, <2>1, <2>4, HoldConstants DEF RecoveryHost, CanLock
  <2>6. QED
    BY <2>1, <2>2, <2>3, <2>5
<1> DEFINE Same == /\ req'.rid = req.rid /\ req'.mode = req.mode /\ req'.turn = req.turn
                   /\ req.stop => req'.stop
<1>7. ASSUME NEW h \in Hosts,
             pc[h] \in OwningPCs \/ Lost => (req.stop => req'.stop),
             pc[h] \in {"claimAck", "claimed"} => (ReqStart => ReqStart'),
             Starting(h) /\ my[h].rid = close'.rid => ~close'.nd /\ ~close'.done,
             pc[h] = "requeueAck" => Same
      PROVE  HostTurns(h)'
  <2>1. pc'[h] = pc[h] /\ my'[h] = my[h] /\ scan'[h] = scan[h] /\ Starting(h)' = Starting(h)
    BY <1>1 DEF Starting
  <2>2. pc[h] \in HeldPCs => Shows(my[h])'
    BY <1>6, <1>m, <2>1 DEF HostTurns, Shows
  <2>3. pc[h] \in {"claimAck", "claimed"} => ReqStart'
    BY <1>6, <1>7 DEF HostTurns
  <2>4. pc[h] \in {"entered", "starting"} =>
          IF my[h].mode = "recover" THEN Names(my[h].rid, my[h].turn)'
          ELSE Quiet' /\ (Fresh(my[h].rid)' \/ req'.stop)
    BY <1>1, <1>6, <1>7, <1>m, <2>1 DEF HostTurns, OwningPCs, HolderPCs
  <2>5. /\ pc[h] \in DispatchPCs => Quiet' /\ Past(my[h].rid, 0)'
        /\ pc[h] \in TurnPCs => Past(my[h].rid, my[h].turn)' \/ req'.stop
        /\ pc[h] = "recorded" => Past(my[h].rid, 0)' \/ req'.stop
        /\ pc[h] = "failing" /\ my[h].fail = "readback" => Quiet'
    BY <1>1, <1>6, <1>7, <1>m, <2>1 DEF HostTurns, OwningPCs, HolderPCs, TurnPCs, RunPCs, DispatchPCs
  <2>6. Lost /\ pc[h] \in DeadPCs => Names(scan[h].ack.rid, scan[h].ack.turn)'
    BY <1>1, <1>6, <1>7, <1>m, <2>1 DEF HostTurns
  <2>7. pc[h] = "requeueAck" => Names(req.rid, req.turn)'
    BY <1>6, <1>7, <1>m DEF HostTurns
  <2>8. QED
    BY <1>5, <1>7, <2>1, <2>2, <2>3, <2>4, <2>5, <2>6, <2>7 DEF HostTurns
<1>8. ASSUME Same
      PROVE  /\ ReqStart => ReqStart'
             /\ ack' = ack => QueueTurns'
  <2>1. /\ \A r, t : Names(r, t) => Names(r, t)'
        /\ Quiet => Quiet'
        /\ \A r : Fresh(r) => Fresh(r)'
    BY <1>8, <1>m
  <2>2. ReqStart => ReqStart'
    BY <1>8, <2>1 DEF ReqStart
  <2>3. ack' = ack => QueueTurns'
    BY <1>3, <1>8, <2>1 DEF QueueTurns, Queued
  <2>4. QED
    BY <2>2, <2>3
<1>9. ASSUME Same,
             \A h \in Hosts : Starting(h) /\ my[h].rid = close'.rid => ~close'.nd /\ ~close'.done
      PROVE  \A h \in Hosts : HostTurns(h)'
  <2>1. ReqStart => ReqStart'
    BY <1>9, <1>8
  <2>2. QED
    BY <1>7, <1>9, <2>1
<1>10. \A h \in Hosts : close' = close /\ Starting(h) /\ my[h].rid = close'.rid => ~close'.nd /\ ~close'.done
  BY <1>6 DEF HostTurns
<1>11. /\ (req.stop => req'.stop) /\ ack' = ack /\ res' = res /\ (resumer'.pc = "idle" => resumer.pc = "idle")
            => AckTurns'
       /\ res' = res => ResultTurns'
       /\ close' = close => CloseTurns'
  <2>1. (req.stop => req'.stop) /\ ack' = ack /\ res' = res /\ (resumer'.pc = "idle" => resumer.pc = "idle")
          => AckTurns'
    BY <1>3, <1>m DEF AckTurns
  <2>2. QED
    BY <1>3, <1>m, <2>1 DEF ResultTurns, Shows, CloseTurns
<1>12. ASSUME resumer' = resumer \/ resumer'.pc = "idle",
              closer' = closer \/ closer'.pc # "cancel"
       PROVE  CallerTurns'
  BY <1>3, <1>12, <1>m DEF CallerTurns
<1>13. CASE RequestHoldStop \/ RequestHostStop
  <2>1. /\ Same /\ ack' = ack /\ res' = res /\ close' = close /\ closer' = closer /\ resumer' = resumer
    BY <1>0, <1>13 DEF RequestHoldStop, RequestHostStop, Requests, callers
  <2>2. QED
    BY <1>2, <1>8, <1>9, <1>10, <1>11, <1>12, <2>1 DEF TurnsInv, FileTurns
<1>14. CASE \/ \E t \in TurnIds, st \in {"completed", "interrupted"} : TurnEnds(t, st)
            \/ UNCHANGED vars
  <2>1. /\ Same /\ ack' = ack /\ res' = res /\ close' = close /\ closer' = closer /\ resumer' = resumer
    BY <1>14 DEF TurnEnds, files, callers, vars
  <2>2. QED
    BY <1>2, <1>8, <1>9, <1>10, <1>11, <1>12, <2>1 DEF TurnsInv, FileTurns
<1>15. CASE CloseBind
  <2>1. /\ Same /\ ack' = ack /\ res' = res /\ resumer' = resumer /\ closer'.pc = "bound"
        /\ close' = close \/ (~close'.nd /\ ~close'.done)
    BY <1>0, <1>15 DEF CloseBind, Closers
  <2>2. CloseTurns'
    BY <1>11, <2>1 DEF CloseTurns
  <2>3. QED
    BY <1>2, <1>8, <1>9, <1>10, <1>11, <1>12, <2>1, <2>2 DEF TurnsInv, FileTurns
<1>16. CASE CloseReport
  <2>1. /\ Same /\ ack' = ack /\ res' = res /\ resumer' = resumer /\ closer'.pc = "idle"
        /\ close' = close \/ (res # NoResult /\ close' = RefreshedClose(res, Released))
    BY <1>0, <1>16 DEF CloseReport, Closers
  <2>2. CloseTurns'
    <3>1. CASE close' = close
      BY <1>11, <3>1
    <3>2. CASE close' # close
      <4>1. close'.rid = close.rid /\ (close'.nd \/ close'.done => NoneOf(close.rid))
        BY <1>3, <2>1, <3>2, RefreshShows DEF ResultTurns
      <4>2. QED
        BY <1>m, <4>1 DEF CloseTurns
    <3>3. QED
      BY <3>1, <3>2
  <2>3. \A h \in Hosts : Starting(h) => close' = close
    BY <1>6, <1>16 DEF CloseReport
  <2>4. \A h \in Hosts : HostTurns(h)'
    BY <1>9, <1>10, <2>1, <2>3
  <2>5. QED
    BY <1>2, <1>8, <1>11, <1>12, <2>1, <2>2, <2>4 DEF TurnsInv, FileTurns
<1>17. CASE CloseInspect
  <2>1. /\ Same /\ ack' = ack /\ res' = res /\ resumer' = resumer /\ close' = close
        /\ closer'.pc = "cancel" => closer'.req = req /\ Queued /\ ack.rid = req.rid
    BY <1>0, <1>17 DEF CloseInspect, Closers, Queued
  <2>2. Queued /\ ack.rid = req.rid => IF req.mode = "recover" THEN Only(req.rid, req.turn) ELSE Quiet
    BY <1>3, <1>s DEF QueueTurns, FilesKnown, Names
  <2>3. CallerTurns'
    BY <1>3, <1>m, <2>1, <2>2 DEF CallerTurns
  <2>4. QED
    BY <1>2, <1>8, <1>9, <1>10, <1>11, <2>1, <2>3 DEF TurnsInv, FileTurns
<1>18. ASSUME Copying, req' = Latched, close' = close
       PROVE  /\ req'.stop /\ (closer.req = req => Same)
              /\ \A h \in Hosts : HostTurns(h)'
  <2>1. /\ req'.rid = closer.req.rid /\ req'.mode = closer.req.mode /\ req'.turn = closer.req.turn /\ req'.stop
    BY <1>0, <1>18 DEF Latched, Requests
  <2>2. closer.req = req => Same
    BY <2>1
  <2>3. closer.req # req => req.mode # "recover"
    BY <1>0, <1>3, <1>18 DEF ClaimInv, CopyKnown, FilesKnown, Requests, Rids
  <2>4. ReqStart => ReqStart'
    <3>1. CASE closer.req = req
      BY <1>8, <2>2, <3>1
    <3>2. CASE closer.req # req
      <4>1. ReqStart => Quiet'
        BY <1>m, <2>3, <3>2 DEF ReqStart
      <4>2. Quiet' => \A r, t : Only(r, t)'
        BY DEF Quiet, Only
      <4>3. Quiet' => Names(req.rid, req.turn)'
        BY <2>1, <4>2 DEF Names
      <4>4. QED
        BY <2>1, <4>1, <4>3 DEF ReqStart
    <3>3. QED
      BY <3>1, <3>2
  <2>5. \A h \in Hosts : HostTurns(h)'
    BY <1>6, <1>7, <1>10, <1>18, <2>1, <2>4
  <2>6. QED
    BY <2>1, <2>2, <2>5
<1>19. CASE CloseLatch
  <2>1. /\ ack' = ack /\ res' = res /\ resumer' = resumer /\ close' = close
        /\ Copying /\ closer'.pc = "report"
        /\ req' = req \/ req' = Latched
    BY <1>0, <1>19 DEF CloseLatch, Closers, Copying, Latched
  <2>2. CASE req' = req
    BY <1>2, <1>8, <1>9, <1>10, <1>11, <1>12, <2>1, <2>2 DEF TurnsInv, FileTurns
  <2>3. CASE req' = Latched
    <3>1. /\ req'.stop /\ (closer.req = req => Same)
          /\ \A h \in Hosts : HostTurns(h)'
      BY <1>18, <2>1, <2>3
    <3>2. QueueTurns'
      <4>1. CASE closer.req = req
        BY <1>8, <2>1, <3>1, <4>1
      <4>2. CASE closer.req # req
        <5>1. req.mode # "recover"
          BY <1>0, <1>3, <2>1, <4>2 DEF ClaimInv, CopyKnown, FilesKnown, Requests, Rids
        <5>2. QED
          BY <1>3, <1>m, <2>1, <5>1 DEF QueueTurns, Queued
      <4>3. QED
        BY <4>1, <4>2
    <3>3. QED
      BY <1>2, <1>11, <1>12, <2>1, <3>1, <3>2 DEF TurnsInv, FileTurns
  <2>4. QED
    BY <2>1, <2>2, <2>3
<1>20. CASE CloseCancel
  <2>1. /\ resumer' = resumer /\ close' = close /\ Copying /\ closer.pc = "cancel" /\ closer'.pc = "report"
        /\ req' = Latched /\ ack'.phase # "queued"
    BY <1>0, <1>20 DEF CloseCancel, Closers, Copying, Latched, EndedAck
  <2>2. closer.req.turn # 0 => closer.req.mode = "recover"
    BY <2>1 DEF ClaimInv, RecoveryKnown, Bound
  <2>3. /\ res' \in Results /\ res'.rid = closer.req.rid /\ ~res'.notSent /\ ~res'.readback
        /\ res'.conf => closer.req.mode # "recover"
        /\ res'.turn # 0 => closer.req.mode = "recover" /\ res'.turn = closer.req.turn
    BY <1>0, <1>20, <2>2, CancelTyped
  <2>4. Shows(res')
    BY <1>3, <1>s, <2>1, <2>3 DEF CallerTurns, Shows
  <2>5. ResultTurns'
    BY <1>m, <2>3, <2>4 DEF ResultTurns, Shows
  <2>6. AckTurns' /\ QueueTurns'
    BY <2>1, <2>3, NoResultIsNone DEF AckTurns, QueueTurns, Queued
  <2>7. QED
    BY <1>2, <1>11, <1>12, <1>18, <2>1, <2>5, <2>6 DEF TurnsInv, FileTurns
<1>21. CASE ReconcileHold
  <2>1. /\ Same /\ close' = close /\ closer' = closer /\ resumer' = resumer /\ ack'.phase # "queued"
        /\ res \in Results /\ res # NoResult /\ turns[res.turn].st # "inProgress" /\ res.turn # 0
    BY <1>0, <1>21 DEF ReconcileHold, EndedAck, callers
  <2>2. /\ res' \in Results /\ res'.rid = res.rid /\ res'.turn = res.turn
    <3> DEFINE st == IF res.status = "unknown" THEN "failed" ELSE res.status
               e == [res EXCEPT !.conf = TRUE, !.status = st]
    <3>1. st \in Statuses
      BY <2>1 DEF Results, Statuses
    <3> HIDE DEF st
    <3>2. e \in Results /\ e.rid = res.rid /\ e.turn = res.turn
      BY <2>1, <3>1 DEF Results
    <3>3. res' = e
      BY <1>21, Zenon DEF ReconcileHold, st
    <3>4. QED
      BY <3>2, <3>3
  <2>3. Quiet
    BY <1>3, <1>s, <2>1 DEF ResultTurns, Shows
  <2>4. Shows(res)' /\ Quiet'
    BY <1>m, <1>s, <2>3 DEF Shows
  <2>5. ResultTurns' /\ AckTurns' /\ QueueTurns'
    BY <2>1, <2>2, <2>4, NoResultIsNone DEF ResultTurns, AckTurns, QueueTurns, Queued
  <2>6. QED
    BY <1>2, <1>9, <1>10, <1>11, <1>12, <2>1, <2>5 DEF TurnsInv, FileTurns
<1>22. CASE ReconcileUndispatched
  <2>1. /\ Same /\ ack' = ack /\ close' = close /\ closer' = closer /\ resumer' = resumer
        /\ res \in Results /\ res # NoResult /\ res.notSent /\ res.turn = 0
        /\ res' = [res EXCEPT !.conf = TRUE]
    BY <1>0, <1>22 DEF ReconcileUndispatched, callers
  <2>2. res' \in Results
    BY <2>1 DEF Results
  <2>3. Quiet
    BY <1>3, <2>1 DEF ResultTurns, Shows
  <2>4. Shows(res)' /\ Quiet'
    BY <1>m, <1>s, <2>3 DEF Shows
  <2>5. ResultTurns' /\ AckTurns'
    BY <2>1, <2>2, <2>4, NoResultIsNone DEF ResultTurns, AckTurns
  <2>6. QED
    BY <1>2, <1>8, <1>9, <1>10, <1>11, <1>12, <2>1, <2>5 DEF TurnsInv, FileTurns
<1>23. CASE ResumeCheck \/ ResumeArchive
  <2>1. /\ Same /\ ack' = ack /\ close' = close /\ closer' = closer
        /\ resumer'.pc \in {"checked", "archived"}
        /\ res' = res \/ res' = NoResult
        /\ resumer.pc # "idle" \/ Released
    BY <1>0, <1>23 DEF ResumeCheck, ResumeArchive, files, Resumers
  <2>2. Quiet
    BY <1>3, <2>1, ReleasedIsQuiet DEF CallerTurns
  <2>3. CallerTurns'
    BY <1>3, <1>m, <2>1, <2>2 DEF CallerTurns
  <2>4. ResultTurns' /\ AckTurns'
    BY <1>11, <2>1 DEF ResultTurns, AckTurns
  <2>5. QED
    BY <1>2, <1>8, <1>9, <1>10, <1>11, <2>1, <2>3, <2>4 DEF TurnsInv, FileTurns
<1>24. CASE ResumeRequest
  <2>1. /\ ack' = ack /\ res' = res /\ close' = close /\ closer' = closer
        /\ resumer.pc = "archived" /\ resumer'.pc = "written" /\ resumer'.rid = resumer.rid + 1
    BY <1>0, <1>24 DEF ResumeRequest
  <2>2. Fresh(resumer.rid + 1)
    BY <1>0 DEF Fresh, TurnsInv, ServerKnown, Resumers, Rids
  <2>3. CallerTurns'
    BY <1>3, <1>m, <2>1, <2>2 DEF CallerTurns
  <2>4. QueueTurns' /\ AckTurns'
    BY <1>3, <2>1 DEF FilesKnown, QueueTurns, Queued, AckTurns
  <2>5. ASSUME NEW h \in Hosts
        PROVE  HostTurns(h)'
    <3>1. pc[h] \notin OwningPCs /\ ~Lost
      BY <1>6, <2>1
    <3>2. QED
      BY <1>6, <1>7, <1>10, <2>1, <3>1 DEF OwningPCs, HolderPCs
  <2>6. QED
    BY <1>2, <1>11, <2>1, <2>3, <2>4, <2>5 DEF TurnsInv, FileTurns
<1>25. CASE ResumeAck
  <2>1. /\ Same /\ res' = res /\ close' = close /\ closer' = closer
        /\ resumer.pc = "written" /\ resumer'.pc = "idle"
        /\ ack'.turn = 0 /\ ack'.rid = resumer.rid
    BY <1>0, <1>25 DEF ResumeAck, Resumers
  <2>2. QueueTurns' /\ AckTurns'
    BY <1>3, <1>m, <2>1 DEF CallerTurns, QueueTurns, AckTurns, Names
  <2>3. QED
    BY <1>2, <1>9, <1>10, <1>11, <1>12, <2>1, <2>2 DEF TurnsInv, FileTurns
<1>26. QED
  BY <1>13, <1>14, <1>15, <1>16, <1>17, <1>19, <1>20, <1>21, <1>22, <1>23, <1>24, <1>25 DEF CallerNext

LEMMA TurnsStep ==
    ASSUME TypeOK, TypeOK', LockDiscipline, ClaimInv, ProtocolInv, RecoveryInv, ~Overlap,
           TurnsInv, [Next]_vars
    PROVE  TurnsInv'
<1>1. ASSUME NEW g \in Hosts, HostNext(g) \/ HostFault(g)
      PROVE  TurnsInv'
  <2>1. \A h \in Hosts : h # g => pc[h] = "idle" /\ pc'[h] = "idle"
    BY <1>1, OthersIdle DEF ClaimInv
  <2>2. ServerKnown /\ FileTurns /\ HostTurns(g)
    BY DEF TurnsInv
  <2>3. ServerKnown' /\ FileTurns' /\ HostTurns(g)'
    <3>1. CASE StartTurn(g, TRUE) \/ StartTurn(g, FALSE)
      BY <2>2, <3>1, StartTurnTurns
    <3>2. CASE ~StartTurn(g, TRUE) /\ ~StartTurn(g, FALSE)
      <4>1. FileTurns' /\ HostTurns(g)'
        BY <1>1, <2>1, <2>2, <3>2, HostStepTurns
      <4>2. ~\E h \in Hosts : StartTurn(h, TRUE) \/ StartTurn(h, FALSE)
        BY <2>1, <3>2 DEF StartTurn, Running
      <4>3. QED
        BY <2>2, <4>1, <4>2, ServerStays
    <3>3. QED
      BY <3>1, <3>2
  <2>4. ASSUME NEW h \in Hosts, h # g
        PROVE  HostTurns(h)'
    BY <2>1, <2>4 DEF HostTurns, Starting, DeadPCs, HeldPCs, HolderPCs, DispatchPCs, TurnPCs, RunPCs
  <2>5. QED
    BY <2>3, <2>4 DEF TurnsInv
<1>2. QED
  BY <1>1, CallerStepTurns DEF Next

LEMMA TurnsInit == Init => TurnsInv
<1> SUFFICES ASSUME Init PROVE TurnsInv
  OBVIOUS
<1>1. /\ req = FirstRequest /\ ack = FirstAck /\ res = NoResult /\ issued = 0
      /\ close.nd = FALSE /\ close.done = FALSE /\ closer.pc = "idle" /\ resumer.pc = "idle"
      /\ \A h \in Hosts : pc[h] = "idle" /\ told[h] = {}
      /\ \A t \in TurnIds : turns[t].st = "none" /\ turns[t].rid = 0
  BY DEF Init
<1>2. Quiet /\ Fresh(1)
  BY <1>1 DEF Quiet, InProgress, Fresh
<1>3. ServerKnown
  BY <1>1, <1>2 DEF ServerKnown, Quiet, TurnIds
<1>4. FileTurns
  BY <1>1, <1>2 DEF FileTurns, QueueTurns, AckTurns, ResultTurns, CallerTurns, CloseTurns, Names, FirstAck
<1>5. ASSUME NEW h \in Hosts PROVE HostTurns(h)
  BY <1>1, <1>5 DEF HostTurns, Starting, DeadPCs, HeldPCs, HolderPCs, DispatchPCs, TurnPCs, RunPCs
<1>6. QED
  BY <1>3, <1>4, <1>5 DEF TurnsInv

-----------------------------------------------------------------------------
(* Hosts run one after another, and one of them may die                    *)

\* What holds of every reachable state: the type, the lock, the claim, the protocol of the
\* files, the recovery of a dead owner's claim, and what all of them say of the turns.
LEMMA TurnsHold ==
    ASSUME ~Overlap, MaxCrashes <= 1
    PROVE  Spec => [](TypeOK /\ LockDiscipline /\ ClaimInv /\ ProtocolInv /\ RecoveryInv /\ TurnsInv)
<1>1. Init => ClaimInv /\ ProtocolInv /\ RecoveryInv /\ TurnsInv
  BY ClaimInit, ProtocolInit, RecoveryInit, TurnsInit
<1> DEFINE Inv == ClaimInv /\ ProtocolInv /\ RecoveryInv /\ TurnsInv
<1>2. TypeOK /\ TypeOK' /\ LockDiscipline /\ Inv /\ [Next]_vars => Inv'
  <2> SUFFICES ASSUME TypeOK, TypeOK', LockDiscipline, Inv, [Next]_vars
               PROVE  Inv'
    OBVIOUS
  <2>1. ClaimInv'
    BY ClaimStep
  <2>2. ProtocolInv'
    BY ProtocolStep
  <2>3. RecoveryInv'
    BY RecoveryStep
  <2>4. TurnsInv'
    BY TurnsStep
  <2>5. QED
    BY <2>1, <2>2, <2>3, <2>4
<1>3. QED
  BY <1>1, <1>2, TypeCorrect, LockDisciplineHolds, PTL DEF Spec

\* The thread of a Hold runs one turn at a time, however its first dispatch, its
\* continuations, a recovery after a dead Host and the resumes follow one another.
THEOREM TurnsOneAtATime ==
    ASSUME ~Overlap, MaxCrashes <= 1 PROVE Spec => []OneTurnAtATime
<1>1. TurnsInv => OneTurnAtATime
  <2> SUFFICES ASSUME TurnsInv PROVE Cardinality(InProgress) <= 1
    BY DEF OneTurnAtATime
  <2>1. CASE InProgress = {}
    BY <2>1, FS_EmptySet
  <2>2. CASE InProgress # {}
    <3>1. PICK t \in InProgress : InProgress = {t}
      BY <2>2 DEF TurnsInv, ServerKnown
    <3>2. QED
      BY <3>1, FS_Singleton
  <2>3. QED
    BY <2>1, <2>2
<1>2. QED
  BY <1>1, TurnsHold, PTL

\* What hold_status reports as released has no turn in progress, and it may be resumed.
THEOREM ReleasedIsTrue ==
    ASSUME ~Overlap, MaxCrashes <= 1 PROVE Spec => []ReleasedMeansQuiet
<1>1. TurnsInv => ReleasedMeansQuiet
  BY ReleasedIsQuiet DEF TurnsInv, FileTurns, ReleasedMeansQuiet, Quiet
<1>2. QED
  BY <1>1, TurnsHold, PTL

\* A close report that says completed is true, whoever wrote it and from which evidence.
THEOREM ClosedIsTrue ==
    ASSUME ~Overlap, MaxCrashes <= 1 PROVE Spec => []ClosedMeansQuiet
<1>1. TurnsInv => ClosedMeansQuiet
  BY DEF TurnsInv, FileTurns, CloseTurns, NoneOf, ClosedMeansQuiet
<1>2. QED
  BY <1>1, TurnsHold, PTL

\* A turn starts only when every earlier turn of its request is in the history: the one
\* before a continuation too, of a recovered Hold as well.
THEOREM HistoryComesFirst ==
    ASSUME ~Overlap, MaxCrashes <= 1 PROVE Spec => HistoryBeforeContinuation
<1>1. ASSUME TypeOK, TurnsInv, [Next]_vars, issued' # issued
      PROVE  \A t \in TurnIds : turns[t].rid = turns'[issued'].rid => t \in history
  <2>1. PICK h \in Hosts : StartTurn(h, TRUE) \/ StartTurn(h, FALSE)
    BY <1>1, ServerSteps DEF TurnEnds
  <2>2. Past(my[h].rid, 0)
    BY <1>1, <2>1 DEF TurnsInv, HostTurns, StartTurn, Running, DispatchPCs
  <2>3. /\ issued' \in TurnIds
        /\ turns' = [turns EXCEPT ![issued'] =
                       [st |-> "inProgress", rid |-> my[h].rid, no |-> NextCount(h)]]
    BY <1>1, <2>1, HoldConstants DEF StartTurn, TypeOK, TurnIds
  <2>4. turns'[issued'].rid = my[h].rid
    BY <1>1, <2>3 DEF TypeOK
  <2>5. QED
    BY <2>2, <2>4 DEF Past, TurnIds
<1>2. TypeOK /\ TurnsInv /\ [Next]_vars
        => [issued' # issued =>
              \A t \in TurnIds : turns[t].rid = turns'[issued'].rid => t \in history]_vars
  BY <1>1
<1>3. QED
  BY <1>2, TurnsHold, PTL DEF Spec, HistoryBeforeContinuation

-----------------------------------------------------------------------------
(* The numbers of the turns, when no Host dies                              *)

\* Every turn of request r has a number below n
Below(r, n) == \A t \in TurnIds : turns[t].rid = r => turns[t].no < n

BasesKnown == req.base = 1 /\ (Copying => closer.req.base = 1)

NumbersKnown == NoRepeatedItem /\ \A t \in 1..issued : turns[t].no \in 1..MaxTurns

HostNumbers(h) ==
    /\ pc[h] \in {"entered", "starting"} => my[h].count = 1
    /\ pc[h] \in DispatchPCs =>
         my[h].count >= 1 /\ NextCount(h) <= MaxTurns /\ Below(my[h].rid, NextCount(h))
    /\ pc[h] = "sent" => my[h].count >= 1 /\ Below(my[h].rid, NextCount(h) + 1)
    /\ pc[h] \in TurnPCs \ {"sent"} => my[h].count >= 1 /\ Below(my[h].rid, my[h].count + 1)
    /\ pc[h] \in {"decided", "recording", "recorded"} /\ my[h].dec = "CONTINUE"
         => my[h].count < MaxTurns

NumbersInv == BasesKnown /\ NumbersKnown /\ \A h \in Hosts : HostNumbers(h)

\* No recovery ever changes the number that a request starts with
LEMMA BasesStay ==
    ASSUME TypeOK, TypeOK', LockDiscipline, ClaimInv, ProtocolInv', RecoveryInv, RecoveryInv',
           crashed' = {}, crashed = {}, BasesKnown, [Next]_vars
    PROVE  BasesKnown'
<1>1. closer.req \in Requests
  BY DEF TypeOK, Closers
<1>2. CASE ReqKept
  BY <1>2 DEF ReqKept, BasesKnown
<1>3. CASE ReqStopped
  BY <1>3 DEF ReqStopped, BasesKnown, Copying
<1>4. CASE ReqRecovers
  <2>1. req'.mode # "recover"
    BY DEF ProtocolInv, FilesKnown, RecoveryInv, RecoveryFiles, NoTurnNamed
  <2>2. ASSUME NEW h \in Hosts
        PROVE  pc[h] # "advance"
    BY DEF ClaimInv, RecoveryKnown, RecoveryInv, RecoveryHost
  <2>3. QED
    BY <1>4, <2>1, <2>2 DEF ReqRecovers
<1>5. CASE ReqCopied
  <2>1. Latched.base = closer.req.base
    BY <1>1 DEF Latched, Requests
  <2>2. QED
    BY <1>5, <2>1 DEF ReqCopied, BasesKnown, Copying
<1>6. CASE ReqResumed
  BY <1>6 DEF ReqResumed, BasesKnown, Copying
<1>7. QED
  BY <1>2, <1>3, <1>4, <1>5, <1>6, RequestSteps

\* As long as no turn starts, the numbers stay
LEMMA NumbersStay ==
    ASSUME TypeOK, NumbersKnown, [Next]_vars,
           ~\E h \in Hosts : StartTurn(h, TRUE) \/ StartTurn(h, FALSE)
    PROVE  NumbersKnown' /\ \A r, n : Below(r, n) => Below(r, n)'
<1>1. /\ issued' = issued
      /\ \A t \in TurnIds : turns'[t].rid = turns[t].rid /\ turns'[t].no = turns[t].no
  <2>1. CASE \E t \in TurnIds, st \in {"completed", "interrupted"} : TurnEnds(t, st)
    BY <2>1 DEF TypeOK, TurnEnds, Turns
  <2>2. CASE issued' = issued /\ turns' = turns
    BY <2>2
  <2>3. QED
    BY <2>1, <2>2, ServerSteps
<1>2. 1..issued \subseteq TurnIds
  BY HoldConstants DEF TypeOK, TurnIds
<1>3. QED
  BY <1>1, <1>2 DEF NumbersKnown, NoRepeatedItem, Below

\* The turn that starts has a number that no turn of its request had
LEMMA StartTurnNumbers ==
    ASSUME TypeOK, TypeOK', NumbersKnown, NEW h \in Hosts, HostNumbers(h),
           StartTurn(h, TRUE) \/ StartTurn(h, FALSE)
    PROVE  NumbersKnown' /\ HostNumbers(h)'
<1>0. /\ pc \in [Hosts -> PCs] /\ my \in [Hosts -> Locals] /\ my[h] \in Locals /\ pc[h] = "sending"
      /\ issued \in 0..MaxIssued /\ turns \in [TurnIds -> Turns] /\ MaxIssued \in Nat
      /\ MaxTurns \in Nat /\ my[h].count \in Nat /\ NextCount(h) \in Nat
  BY HoldConstants DEF TypeOK, StartTurn, Running, Locals, NextCount
<1>1. /\ my[h].count >= 1 /\ NextCount(h) \in 1..MaxTurns /\ Below(my[h].rid, NextCount(h))
  BY <1>0 DEF HostNumbers, DispatchPCs, NextCount
<1>2. /\ issued' = issued + 1
      /\ turns' = [turns EXCEPT ![issued + 1] =
                     [st |-> "inProgress", rid |-> my[h].rid, no |-> NextCount(h)]]
      /\ issued < MaxIssued
  BY DEF StartTurn
<1>3. /\ issued + 1 \in TurnIds /\ 1..issued \subseteq TurnIds
      /\ turns'[issued + 1].no = NextCount(h) /\ turns'[issued + 1].rid = my[h].rid
      /\ \A t \in TurnIds \ {issued + 1} : turns'[t] = turns[t]
  BY <1>0, <1>2 DEF TurnIds
<1>4. \A t \in 1..issued' : t = issued + 1 \/ t \in 1..issued
  BY <1>0, <1>2
<1>5. \A t \in 1..issued : t \in TurnIds \ {issued + 1}
  BY <1>0, <1>3
<1>6. \A t \in 1..issued : turns[t].rid = my[h].rid => turns[t].no # NextCount(h)
  BY <1>0, <1>1, <1>3, <1>5 DEF Below, Turns
<1>7. NumbersKnown'
  <2>1. \A t \in 1..issued' : turns'[t].no \in 1..MaxTurns
    BY <1>1, <1>3, <1>4, <1>5 DEF NumbersKnown
  <2>2. NoRepeatedItem'
    BY <1>3, <1>4, <1>5, <1>6 DEF NumbersKnown, NoRepeatedItem
  <2>3. QED
    BY <2>1, <2>2 DEF NumbersKnown
<1>8. \A r, n : r = my[h].rid /\ n = NextCount(h) + 1 => Below(r, n)'
  BY <1>0, <1>1, <1>3 DEF Below, Turns
<1>9. HostNumbers(h)'
  <2>1. CASE StartTurn(h, TRUE)
    <3>1. pc'[h] = "sent" /\ my' = [my EXCEPT ![h].turn = issued + 1]
      BY <1>0, <2>1 DEF StartTurn, Goto
    <3>2. my'[h].rid = my[h].rid /\ my'[h].count = my[h].count /\ NextCount(h)' = NextCount(h)
      BY <1>0, <3>1 DEF Locals, NextCount
    <3>3. Below(my[h].rid, NextCount(h) + 1)'
      BY <1>8, <3>2
    <3>4. QED
      BY <1>1, <3>1, <3>2, <3>3 DEF HostNumbers, DispatchPCs, TurnPCs, RunPCs
  <2>2. CASE StartTurn(h, FALSE)
    <3>1. pc'[h] = "failing"
      BY <1>0, <2>2 DEF StartTurn, Fail, Goto
    <3>2. QED
      BY <3>1 DEF HostNumbers, DispatchPCs, TurnPCs, RunPCs
  <2>3. QED
    BY <2>1, <2>2
<1>10. QED
  BY <1>7, <1>9

\* A Host's own step, but for the start of a turn
LEMMA HostStepNumbers ==
    ASSUME TypeOK, TypeOK', LockDiscipline, ClaimInv, RecoveryInv, crashed = {}, BasesKnown,
           NEW h \in Hosts, HostTurns(h), HostNumbers(h), HostNext(h) \/ HostFault(h),
           \A r, n : Below(r, n) => Below(r, n)',
           ~StartTurn(h, TRUE), ~StartTurn(h, FALSE)
    PROVE  HostNumbers(h)'
<1>0. /\ pc \in [Hosts -> PCs] /\ my \in [Hosts -> Locals] /\ my[h] \in Locals
      /\ my[h].count \in Nat /\ my'[h] \in Locals /\ MaxTurns \in Nat \ {0}
  BY HoldConstants DEF TypeOK, Locals
<1>1. /\ my[h].mode # "recover"
      /\ pc[h] # "idle" => alive[h]
      /\ pc[h] \in {"entered", "starting", "attached"} => my[h].dec = "none"
  BY DEF RecoveryInv, RecoveryHost, LockDiscipline, LockOK, DecisionOK
<1> DEFINE NumberPCs == {"entered", "starting"} \cup RunPCs
<1>2. pc'[h] \notin NumberPCs => HostNumbers(h)'
  BY DEF HostNumbers, RunPCs, DispatchPCs, TurnPCs
<1>3. ASSUME \/ StartHost(h) \/ ReadRequest(h) \/ ReadAck(h) \/ ClaimMkdir(h) \/ ClaimOwner(h)
             \/ ClaimRecheck(h) \/ ClaimAck(h) \/ RequeueDeadClaim(h) \/ RecoveryFailed(h)
             \/ RequeueLock(h) \/ RequeueRequest(h) \/ RequeueAck(h) \/ ReleaseOwner(h) \/ ReleaseDir(h)
             \/ StopBeforeDispatch(h) \/ CancelAck(h) \/ StartFails(h) \/ StartTurnFails(h)
             \/ PollTimeout(h) \/ HoldFails(h) \/ PollGivesUp(h) \/ WriteResult(h) \/ WriteFailure(h)
             \/ FailAck(h) \/ HolderExit(h) \/ HostFinally(h) \/ HostReport(h) \/ Crash(h)
      PROVE  pc'[h] \notin NumberPCs
  <2>1. CASE \/ StartHost(h) \/ ReadRequest(h) \/ ReadAck(h) \/ ClaimMkdir(h) \/ ClaimOwner(h)
             \/ ClaimRecheck(h) \/ ClaimAck(h) \/ RequeueDeadClaim(h) \/ RecoveryFailed(h)
             \/ RequeueLock(h) \/ RequeueRequest(h) \/ RequeueAck(h) \/ ReleaseOwner(h) \/ ReleaseDir(h)
    BY <1>0, <1>1, <2>1 DEF StartHost, ReadRequest, ReadAck, ClaimMkdir, ClaimOwner, ClaimRecheck, ClaimAck,
       RequeueDeadClaim, RecoveryFailed, RequeueLock, RequeueRequest, RequeueAck, ReleaseOwner,
       ReleaseDir, Running, ScanEnds, Goto, RunPCs
  <2>2. CASE \/ StopBeforeDispatch(h) \/ CancelAck(h) \/ StartFails(h) \/ StartTurnFails(h)
             \/ PollTimeout(h) \/ HoldFails(h) \/ PollGivesUp(h) \/ WriteResult(h) \/ WriteFailure(h)
             \/ FailAck(h) \/ HolderExit(h) \/ HostFinally(h) \/ HostReport(h) \/ Crash(h)
    BY <1>0, <1>1, <2>2 DEF StopBeforeDispatch, CancelAck, StartFails, StartTurnFails, PollTimeout, HoldFails,
       PollGivesUp, WriteResult, WriteFailure, FailAck, HolderExit, HostFinally, HostReport, Crash,
       Running, Fail, ScanEnds, Goto, RunPCs
  <2>3. QED
    BY <1>3, <2>1, <2>2
<1>4. CASE HoldStarted(h)
  <2>1. pc'[h] = "entered" /\ my'[h].count = req.base
    BY <1>0, <1>4 DEF HoldStarted, Goto
  <2>2. QED
    BY <2>1 DEF HostNumbers, BasesKnown, RunPCs, DispatchPCs, TurnPCs
<1>5. CASE LockStart(h) \/ LockRecord(h)
  <2>1. \/ pc'[h] = "failing"
        \/ pc[h] = "entered" /\ pc'[h] = "starting" /\ my' = my
        \/ pc[h] = "decided" /\ pc'[h] = "recording" /\ my' = my
    BY <1>0, <1>5 DEF LockStart, LockRecord, Running, Goto, Fail
  <2>2. QED
    BY <2>1 DEF HostNumbers, RunPCs, DispatchPCs, TurnPCs
<1>6. CASE StartThread(h)
  <2>1. /\ pc[h] = "starting" /\ pc'[h] \in DispatchPCs /\ ~req.stop
        /\ my'[h].rid = my[h].rid /\ my'[h].count = my[h].count /\ my'[h].dec = my[h].dec
    BY <1>0, <1>6 DEF StartThread, StopRequested, Running, Goto, Locals, DispatchPCs
  <2>2. Below(my[h].rid, 1)
    BY <1>1, <2>1 DEF HostTurns, Fresh, Below
  <2>3. my[h].count = 1 /\ my[h].dec = "none"
    BY <1>1, <2>1 DEF HostNumbers
  <2>4. NextCount(h)' = 1
    BY <2>1, <2>3 DEF NextCount
  <2>5. Below(my[h].rid, NextCount(h))'
    BY <2>1, <2>2, <2>4
  <2>6. QED
    BY <1>0, <2>1, <2>3, <2>4, <2>5 DEF HostNumbers, RunPCs, DispatchPCs, TurnPCs
<1>7. CASE ThreadStarted(h) \/ TurnStarting(h)
  <2>1. /\ pc[h] \in DispatchPCs /\ pc'[h] \in DispatchPCs
        /\ my'[h].rid = my[h].rid /\ my'[h].count = my[h].count /\ my'[h].dec = my[h].dec
    BY <1>0, <1>7 DEF ThreadStarted, TurnStarting, Running, Goto, Locals, DispatchPCs
  <2>2. NextCount(h)' = NextCount(h)
    BY <2>1 DEF NextCount
  <2>3. Below(my[h].rid, NextCount(h))'
    BY <2>1, <2>2 DEF HostNumbers
  <2>4. QED
    BY <2>1, <2>2, <2>3 DEF HostNumbers, RunPCs, DispatchPCs, TurnPCs
<1>8. CASE TurnStarted(h)
  <2>1. /\ pc[h] = "sent" /\ pc'[h] = "started"
        /\ my'[h].rid = my[h].rid /\ my'[h].count = NextCount(h)
    BY <1>0, <1>8 DEF TurnStarted, Running, Goto, Locals, NextCount
  <2>2. Below(my[h].rid, my[h].count + 1)'
    BY <2>1 DEF HostNumbers
  <2>3. NextCount(h) >= 1
    BY <1>0, <2>1 DEF HostNumbers, NextCount
  <2>4. QED
    BY <2>1, <2>2, <2>3 DEF HostNumbers, RunPCs, DispatchPCs, TurnPCs
<1>9. ASSUME pc[h] \in TurnPCs \ {"sent"}, pc'[h] \in TurnPCs \ {"sent"},
             my'[h].rid = my[h].rid, my'[h].count = my[h].count,
             pc'[h] \in {"decided", "recording", "recorded"} /\ my'[h].dec = "CONTINUE"
               => my[h].count < MaxTurns
      PROVE  HostNumbers(h)'
  <2>1. Below(my[h].rid, my[h].count + 1)'
    BY <1>9 DEF HostNumbers
  <2>2. QED
    BY <1>9, <2>1 DEF HostNumbers, RunPCs, DispatchPCs, TurnPCs
<1>10. CASE TurnHolding(h) \/ AdvanceRequest(h) \/ PollInterrupt(h)
  <2>1. pc[h] \in TurnPCs \ {"sent"} /\ pc'[h] \in {"advance", "observing", "failing"}
    BY <1>0, <1>10 DEF TurnHolding, AdvanceRequest, PollInterrupt, Running, Goto, Fail, TurnPCs, RunPCs,
       DispatchPCs
  <2>2. pc'[h] = "failing" \/ (my'[h].rid = my[h].rid /\ my'[h].count = my[h].count)
    <3>1. CASE PollInterrupt(h)
      BY <3>1, ObserveFields
    <3>2. CASE TurnHolding(h) \/ AdvanceRequest(h)
      BY <1>0, <3>2 DEF TurnHolding, AdvanceRequest, Fail, Goto
    <3>3. QED
      BY <1>10, <3>1, <3>2
  <2>3. QED
    BY <1>2, <1>9, <2>1, <2>2 DEF TurnPCs, RunPCs, DispatchPCs
<1>11. CASE AttachRecovered(h)
  BY <1>1, <1>11 DEF AttachRecovered
<1>12. CASE Observe(h)
  <2>1. /\ pc[h] = "observing"
        /\ \/ pc'[h] = "failing"
           \/ /\ pc'[h] = "decided"
              /\ \E d \in Decisions(h) : my' = [my EXCEPT ![h] = [@ EXCEPT !.dec = d, !.conf = TRUE]]
    BY <1>0, <1>12 DEF Observe, Running, Goto, Fail
  <2>2. my'[h].rid = my[h].rid /\ my'[h].count = my[h].count
    BY <1>12, ObserveFields
  <2>3. pc'[h] = "decided" => my'[h].dec \in Decisions(h)
    <3>1. \A d : [my[h] EXCEPT !.dec = d, !.conf = TRUE].dec = d
      BY <1>0, Zenon DEF Locals
    <3>2. ASSUME pc'[h] = "decided"
          PROVE  \E v : v.dec \in Decisions(h) /\ my' = [my EXCEPT ![h] = v]
      <4>1. PICK d \in Decisions(h) : my' = [my EXCEPT ![h] = [@ EXCEPT !.dec = d, !.conf = TRUE]]
        BY <2>1, <3>2
      <4>2. my' = [my EXCEPT ![h] = [my[h] EXCEPT !.dec = d, !.conf = TRUE]]
        BY <4>1, Zenon
      <4>3. QED
        BY <3>1, <4>2, Zenon
    <3>3. QED
      BY <1>0, <3>2
  <2>4. "CONTINUE" \in Decisions(h) => my[h].count < MaxTurns
    BY <1>0 DEF Decisions, BudgetUsed
  <2>5. QED
    BY <1>2, <1>9, <2>1, <2>2, <2>3, <2>4 DEF TurnPCs, RunPCs, DispatchPCs
<1>13. CASE Record(h)
  <2>1. /\ pc[h] = "recording"
        /\ \/ pc'[h] = "failing"
           \/ pc'[h] = "recorded" /\ my' = [my EXCEPT ![h].dec = FinalDecision(h)]
    BY <1>0, <1>13 DEF Record, Running, Goto, Fail
  <2>2. my' = [my EXCEPT ![h].dec = FinalDecision(h)]
          => /\ my'[h].rid = my[h].rid /\ my'[h].count = my[h].count
             /\ my'[h].dec = FinalDecision(h)
    <3> DEFINE d == FinalDecision(h)
               v == [my[h] EXCEPT !.dec = d]
    <3>1. v.rid = my[h].rid /\ v.count = my[h].count /\ v.dec = d
      BY <1>0, Zenon DEF Locals
    <3> HIDE DEF v
    <3>2. my' = [my EXCEPT ![h].dec = FinalDecision(h)] => my' = [my EXCEPT ![h] = v]
      BY Zenon DEF v
    <3>3. QED
      BY <1>0, <3>1, <3>2
  <2>3. FinalDecision(h) = "CONTINUE" => my[h].dec = "CONTINUE"
    BY DEF FinalDecision
  <2>4. my[h].dec = "CONTINUE" => my[h].count < MaxTurns
    BY <2>1 DEF HostNumbers
  <2>5. QED
    BY <1>2, <1>9, <2>1, <2>2, <2>3, <2>4 DEF TurnPCs, RunPCs, DispatchPCs
<1>14. CASE DecisionAck(h)
  <2>1. /\ pc[h] = "recorded"
        /\ \/ /\ pc'[h] = "dispatch" /\ my[h].dec = "CONTINUE"
              /\ my'[h].rid = my[h].rid /\ my'[h].dec = my[h].dec /\ my'[h].count = my[h].count
           \/ pc'[h] = "result" /\ my' = my
    BY <1>14, ContinueFields DEF DecisionAck, Running, Continues
  <2>2. CASE pc'[h] = "dispatch"
    <3>1. my[h].count >= 1 /\ my[h].count < MaxTurns /\ NextCount(h)' = my[h].count + 1
      BY <2>1, <2>2 DEF HostNumbers, NextCount, TurnPCs, RunPCs, DispatchPCs
    <3>2. Below(my[h].rid, NextCount(h))'
      BY <2>1, <2>2, <3>1 DEF HostNumbers, TurnPCs, RunPCs, DispatchPCs
    <3>3. QED
      BY <1>0, <2>1, <2>2, <3>1, <3>2 DEF HostNumbers, TurnPCs, RunPCs, DispatchPCs
  <2>3. QED
    BY <1>9, <2>1, <2>2 DEF TurnPCs, RunPCs, DispatchPCs
<1>15. QED
  BY <1>2, <1>3, <1>4, <1>5, <1>6, <1>7, <1>8, <1>10, <1>11, <1>12, <1>13, <1>14 DEF HostNext, HostFault

LEMMA NumbersStep ==
    ASSUME TypeOK, TypeOK', LockDiscipline, ClaimInv, ProtocolInv', RecoveryInv, RecoveryInv',
           ~Overlap, TurnsInv, crashed = {}, crashed' = {}, NumbersInv, [Next]_vars
    PROVE  NumbersInv'
<1>1. BasesKnown'
  BY BasesStay DEF NumbersInv
<1>2. ASSUME NEW g \in Hosts, HostNext(g) \/ HostFault(g)
      PROVE  NumbersKnown' /\ \A h \in Hosts : HostNumbers(h)'
  <2>1. \A h \in Hosts : h # g => pc[h] = "idle" /\ pc'[h] = "idle"
    BY <1>2, OthersIdle DEF ClaimInv
  <2>2. NumbersKnown' /\ HostNumbers(g)'
    <3>1. CASE StartTurn(g, TRUE) \/ StartTurn(g, FALSE)
      BY <3>1, StartTurnNumbers DEF NumbersInv
    <3>2. CASE ~StartTurn(g, TRUE) /\ ~StartTurn(g, FALSE)
      <4>1. ~\E h \in Hosts : StartTurn(h, TRUE) \/ StartTurn(h, FALSE)
        BY <2>1, <3>2 DEF StartTurn, Running
      <4>2. NumbersKnown' /\ \A r, n : Below(r, n) => Below(r, n)'
        BY <4>1, NumbersStay DEF NumbersInv
      <4>3. HostTurns(g) /\ HostNumbers(g) /\ BasesKnown
        BY DEF TurnsInv, NumbersInv
      <4>4. HostNumbers(g)'
        BY <1>2, <3>2, <4>2, <4>3, HostStepNumbers
      <4>5. QED
        BY <4>2, <4>4
    <3>3. QED
      BY <3>1, <3>2
  <2>3. ASSUME NEW h \in Hosts, h # g
        PROVE  HostNumbers(h)'
    BY <2>1, <2>3 DEF HostNumbers, DispatchPCs, TurnPCs, RunPCs
  <2>4. QED
    BY <2>2, <2>3
<1>3. ASSUME \/ CallerNext
             \/ \E t \in TurnIds, st \in {"completed", "interrupted"} : TurnEnds(t, st)
             \/ UNCHANGED vars
      PROVE  NumbersKnown' /\ \A h \in Hosts : HostNumbers(h)'
  <2>1. pc' = pc /\ my' = my
    BY <1>3, CallersKeepHosts
  <2>2. ASSUME NEW h \in Hosts, StartTurn(h, TRUE) \/ StartTurn(h, FALSE)
        PROVE  FALSE
    BY <2>1, <2>2 DEF TypeOK, StartTurn, Running, Goto, Fail
  <2>3. NumbersKnown' /\ \A r, n : Below(r, n) => Below(r, n)'
    BY <2>2, NumbersStay DEF NumbersInv
  <2>4. ASSUME NEW h \in Hosts
        PROVE  HostNumbers(h)'
    <3>1. pc'[h] = pc[h] /\ my'[h] = my[h] /\ NextCount(h)' = NextCount(h)
      BY <2>1 DEF NextCount
    <3>2. /\ Below(my[h].rid, NextCount(h)) => Below(my[h].rid, NextCount(h))'
          /\ Below(my[h].rid, NextCount(h) + 1) => Below(my[h].rid, NextCount(h) + 1)'
          /\ Below(my[h].rid, my[h].count + 1) => Below(my[h].rid, my[h].count + 1)'
      BY <2>3, <3>1
    <3>3. HostNumbers(h)
      BY DEF NumbersInv
    <3>4. QED
      BY <3>1, <3>2, <3>3 DEF HostNumbers
  <2>5. QED
    BY <2>3, <2>4
<1>4. QED
  BY <1>1, <1>2, <1>3 DEF Next, NumbersInv

LEMMA NumbersInit == Init => NumbersInv
<1> SUFFICES ASSUME Init PROVE NumbersInv
  OBVIOUS
<1>1. BasesKnown
  BY DEF Init, BasesKnown, FirstRequest, Copying
<1>2. NumbersKnown
  BY DEF Init, NumbersKnown, NoRepeatedItem
<1>3. ASSUME NEW h \in Hosts PROVE HostNumbers(h)
  BY <1>3 DEF Init, HostNumbers, DispatchPCs, TurnPCs, RunPCs
<1>4. QED
  BY <1>1, <1>2, <1>3 DEF NumbersInv

LEMMA NobodyDies ==
    ASSUME MaxCrashes = 0, crashed = {}, [Next]_vars
    PROVE  crashed' = {}
<1>1. ASSUME NEW h \in Hosts, HostNext(h) \/ HostFault(h)
      PROVE  crashed' = {}
  <2>1. ~Crash(h)
    BY FS_EmptySet DEF Crash
  <2>2. QED
    BY <1>1, <2>1, HostsKeepAlive
<1>2. ASSUME \/ CallerNext
             \/ \E t \in TurnIds, st \in {"completed", "interrupted"} : TurnEnds(t, st)
             \/ UNCHANGED vars
      PROVE  crashed' = {}
  BY <1>2 DEF CallerNext, RequestHoldStop, CloseBind, CloseInspect, CloseLatch, CloseCancel,
     CloseReport, RequestHostStop, ReconcileHold, ReconcileUndispatched, ResumeCheck, ResumeArchive,
     ResumeRequest, ResumeAck, TurnEnds, vars, procs
<1>3. QED
  BY <1>1, <1>2 DEF Next

-----------------------------------------------------------------------------
(* Hosts run one after another, and none of them dies                      *)

LEMMA NumbersHold ==
    ASSUME ~Overlap, MaxCrashes = 0
    PROVE  Spec => [](TypeOK /\ NumbersInv)
<1> DEFINE Known == TypeOK /\ LockDiscipline /\ ClaimInv /\ ProtocolInv /\ RecoveryInv /\ TurnsInv
           Inv == crashed = {} /\ NumbersInv
<1>1. Init => Inv
  BY NumbersInit DEF Init
<1>2. Known /\ Known' /\ Inv /\ [Next]_vars => Inv'
  <2> SUFFICES ASSUME Known, Known', Inv, [Next]_vars
               PROVE  Inv'
    OBVIOUS
  <2>1. crashed' = {}
    BY NobodyDies
  <2>2. NumbersInv'
    BY <2>1, NumbersStep
  <2>3. QED
    BY <2>1, <2>2
<1>3. Spec => []Known
  BY TurnsHold, HoldConstants
<1>4. QED
  BY <1>1, <1>2, <1>3, PTL DEF Spec

\* No turn number, and with it no lane item, is dispatched twice to a request.  After a crash
\* it may be: the recovered Host counts from what the acknowledgement says (hold_repeated).
THEOREM NoItemRepeated ==
    ASSUME ~Overlap, MaxCrashes = 0 PROVE Spec => []NoRepeatedItem
<1>1. NumbersInv => NoRepeatedItem
  BY DEF NumbersInv, NumbersKnown
<1>2. QED
  BY <1>1, NumbersHold, PTL

\* A request never starts more turns than its max_turns, whatever stops, closes and
\* continuations come: its turns have different numbers, from 1 to max_turns.
THEOREM BudgetKept ==
    ASSUME ~Overlap, MaxCrashes = 0 PROVE Spec => []WithinBudget
<1>1. TypeOK /\ NumbersInv => WithinBudget
  <2> SUFFICES ASSUME TypeOK, NumbersInv, NEW r \in Rids
               PROVE  Cardinality({t \in 1..issued : turns[t].rid = r}) <= MaxTurns
    BY DEF WithinBudget
  <2> DEFINE S == {t \in 1..issued : turns[t].rid = r}
             no == [t \in S |-> turns[t].no]
  <2>1. no \in [S -> 1..MaxTurns]
    BY DEF NumbersInv, NumbersKnown
  <2>2. \A t, u \in S : no[t] = no[u] => t = u
    BY DEF NumbersInv, NumbersKnown, NoRepeatedItem
  <2>3. no \in Injection(S, 1..MaxTurns)
    BY <2>1, <2>2 DEF Injection, IsInjective
  <2>4. MaxTurns \in Nat \ {0} /\ IsFiniteSet(1..MaxTurns) /\ Cardinality(1..MaxTurns) = MaxTurns
    BY HoldConstants, FS_Interval
  <2> HIDE DEF S, no
  <2>5. Cardinality(S) <= MaxTurns
    BY <2>3, <2>4, FS_Injection
  <2>6. QED
    BY <2>5 DEF S
<1>2. QED
  BY <1>1, NumbersHold, PTL
====
