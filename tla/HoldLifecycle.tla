---------------------------- MODULE HoldLifecycle ----------------------------
(***************************************************************************)
(* The life of one Hold: the files under its root directory (request.json, *)
(* ack.json, result.json, close.json and the `.user-host-claim` directory),*)
(* the Hold Host processes that claim it and hold its App Server turns, and*)
(* the callers that stop, close, reconcile and resume it.                  *)
(*                                                                         *)
(*   jarvis_hold_host_service.py    run_once, _claim, _requeue_dead_claim, *)
(*                                  request_host_stop, reconcile_hold      *)
(*   jarvis_task_hold_host.py       hold_task                              *)
(*   hold_turn_monitor.py           observe                                *)
(*   task_provisioning_adapter.py   hold_status, close_hold,               *)
(*                                  request_hold_stop, resume_with_monitor,*)
(*                                  refresh_close_report                   *)
(*                                                                         *)
(* The file writes of a claim, a dispatch and a result are steps of their  *)
(* own, so that a Host process can die between any two of them.  The few   *)
(* writes that end a Hold (hold_task's and run_once's finally blocks, the  *)
(* cancellation in close_hold, the confirmation in reconcile_hold) are one *)
(* step per block.  A Host is a process incarnation: its pid is never      *)
(* reused.  The App Server is external: a turn, once started, ends at any  *)
(* time, and tells the clients that are attached.                          *)
(***************************************************************************)
EXTENDS Integers, FiniteSets

CONSTANTS
    Hosts,          \* Hold Host process incarnations
    Nobody,         \* no owner: the claim, or the request lock, is free
    Closer,         \* the process that runs close_hold
    NoResult,       \* result.json is absent
    MaxTurns,       \* the request's max_turns
    AutoContinue,   \* the request's auto_continue
    MaxIssued,      \* bound: turns the App Server starts in a behaviour
    MaxRequests,    \* bound: request ids the Hold is ever given
    MaxCrashes,     \* bound: Hosts that die in a behaviour
    Overlap         \* whether a Host may start while another one still runs

ASSUME HoldConstants ==
    /\ Nobody \notin Hosts /\ Closer \notin Hosts /\ Nobody # Closer
    /\ MaxTurns \in Nat \ {0}
    /\ AutoContinue \in BOOLEAN
    /\ MaxIssued \in Nat /\ MaxRequests \in Nat \ {0} /\ MaxCrashes \in Nat
    /\ Overlap \in BOOLEAN

VARIABLES
    req,        \* request.json
    ack,        \* ack.json
    res,        \* result.json, or NoResult
    claim,      \* the claim directory and the pid in its owner.json
    close,      \* close.json; rid 0 when there is none
    history,    \* turn-history.sqlite: the turns recorded as terminal
    rlock,      \* owner of request.lock
    pc,         \* where each Host is in run_once and hold_task
    scan,       \* what run_once read: the request, the ack, a dead owner
    my,         \* hold_task's local variables
    alive,      \* Hosts whose process runs
    crashed,    \* Hosts whose process ran and died
    closer,     \* close_hold: where it is, what it bound and the request it read
    resumer,    \* resume_with_monitor: where it is and the last request id
    issued,     \* number of turns the App Server has started
    turns,      \* what the App Server knows of each turn
    told        \* turn/completed notifications each Host's client received

files   == <<req, ack, res, claim, close, history, rlock>>
procs   == <<alive, crashed>>
callers == <<closer, resumer>>
server  == <<issued, turns, told>>
vars == <<req, ack, res, claim, close, history, rlock, pc, scan,
          my, alive, crashed, closer, resumer, issued, turns, told>>

-----------------------------------------------------------------------------
(* Types.  Turn ids are 1, 2, ... in the order the App Server starts them; *)
(* 0 stands for the empty turn_id.  Request ids are numbered the same way. *)

TurnIds == 1..MaxIssued
Rids    == 1..MaxRequests
Procs   == Hosts \cup {Closer}
Modes   == {"create", "resume", "recover"}

Phases == {"queued", "claimed", "hold_started", "thread_starting",
           "thread_started", "turn_starting", "turn_started",
           "recovery_attached", "turn_holding", "monitor_decision",
           "host_stop_interrupting", "recovery_failed", "ended"}

Statuses == {"completed", "turn_limit_reached", "blocked", "interrupted",
             "cancelled", "failed", "unknown"}

Requests == [rid: Rids, mode: Modes, turn: Nat, base: Nat,
             stop: BOOLEAN, hstop: Nat]
Acks     == [rid: Rids, phase: Phases, turn: Nat, count: Nat]
Results  == [rid: Rids, status: Statuses, turn: Nat, conf: BOOLEAN,
             notSent: BOOLEAN, hs: BOOLEAN, owe: BOOLEAN, readback: BOOLEAN,
             exit: BOOLEAN, hexit: BOOLEAN, obs: BOOLEAN, thread: BOOLEAN]
Claims   == [dir: BOOLEAN, owner: Hosts \cup {Nobody}]
Closes   == [rid: Rids \cup {0}, nd: BOOLEAN, done: BOOLEAN]
Locals   == [rid: Rids, mode: Modes, base: Nat, turn: Nat, count: Nat,
             notSent: BOOLEAN, conf: BOOLEAN, thread: BOOLEAN,
             dec: Statuses \cup {"none", "CONTINUE"}, sel: BOOLEAN, latched: BOOLEAN,
             fail: {"error", "unknown", "readback"}, held: BOOLEAN]
Scans    == [req: Requests, ack: Acks, dead: Hosts \cup {Nobody}]
Closers  == [pc: {"idle", "bound", "cancel", "latch", "report"},
             rid: Rids, req: Requests]
Resumers == [pc: {"idle", "checked", "archived", "written"}, rid: Rids]
Turns    == [st: {"none", "inProgress", "completed", "interrupted"},
             rid: Rids \cup {0}, no: Nat]

\* An absent result.json is not taken for one
ASSUME NoResultIsNone == NoResult \notin Results

PCs == {"idle", "readAck", "scanned", "claiming", "recheck", "claimAck",
        "requeue", "recoveryFailed", "requeueLock", "requeueing", "requeueAck",
        "claimed", "entered", "starting", "cancelAck", "threadStarting",
        "dispatch", "sending", "sent", "started", "attached", "advance",
        "observing", "decided", "recording", "recorded", "result", "failing",
        "failAck", "closing", "finally", "unlink", "rmdir", "report"}

\* run_once from its successful _claim to the end of its finally block
HolderPCs == {"claimed", "entered", "starting", "cancelAck", "threadStarting",
              "dispatch", "sending", "sent", "started", "attached", "advance",
              "observing", "decided", "recording", "recorded", "result",
              "failing", "failAck", "closing", "finally"}

\* hold_task has an App Server client that is attached
ClientPCs == {"threadStarting", "dispatch", "sending", "sent", "started",
              "attached", "advance", "observing", "decided", "recording",
              "recorded", "result", "failing", "failAck", "closing"}

(***************************************************************************)
(* Operators                                                               *)
(***************************************************************************)

InProgress == {t \in TurnIds : turns[t].st = "inProgress"}

\* Mutant of CanLock: a lock file that a Host holds is removed as stale
AnyLock == rlock # Closer

\* The request lock: O_EXCL file creation, or reclaiming a dead owner's file
CanLock == rlock = Nobody \/ (rlock \in Hosts /\ ~alive[rlock])
Unlocked(p) == IF rlock = p THEN Nobody ELSE rlock

\* stop_requested(): the durable latch, or a close bound to this request
StopRequested(r) == req.stop \/ close.rid = r

\* hold_status(): only result.json of the current request, claim gone, releases
Released ==
    /\ res # NoResult
    /\ res.rid = req.rid
    /\ res.status # "unknown"
    /\ res.conf \/ (close.rid = req.rid /\ close.nd)
    /\ ~claim.dir

\* Mutant of NotDispatched: an empty turn id is taken for not dispatched
NoTurnKnown(r) == r.turn = 0 /\ r.obs /\ ~claim.dir

\* Proof that the request of result r never reached turn/start
NotDispatched(r) == r.notSent /\ r.turn = 0 /\ r.obs /\ ~claim.dir

\* refresh_close_report(): evidence r, `hold_released` as its caller computed it
RefreshedClose(r, released) ==
    LET nd   == NotDispatched(r) \/ close.nd
        done == IF nd THEN ~claim.dir ELSE r.conf /\ released
    IN  IF close.rid # req.rid \/ r.rid # req.rid \/ close.done
        THEN close
        ELSE [close EXCEPT !.nd = nd, !.done = done]

Cancelled(r, confirmed, turn) ==
    [rid |-> r, status |-> IF confirmed THEN "cancelled" ELSE "unknown",
     turn |-> turn, conf |-> confirmed, notSent |-> FALSE, hs |-> FALSE,
     owe |-> FALSE, readback |-> FALSE, exit |-> FALSE, hexit |-> FALSE,
     obs |-> FALSE, thread |-> turn # 0]

EndedAck(r, turn, count) ==
    [rid |-> r, phase |-> "ended", turn |-> turn, count |-> count]

FirstRequest == [rid |-> 1, mode |-> "create", turn |-> 0, base |-> 1,
                 stop |-> FALSE, hstop |-> 0]

FirstAck == [rid |-> 1, phase |-> "queued", turn |-> 0, count |-> 1]

\* What a Host that holds nothing, or is dead, has in hold_task's variables
NoLocals == [rid |-> 1, mode |-> "create", base |-> 1, turn |-> 0,
             count |-> 1, notSent |-> TRUE, conf |-> TRUE, thread |-> FALSE,
             dec |-> "none", sel |-> FALSE, latched |-> FALSE,
             fail |-> "error", held |-> FALSE]

\* What run_once has read when it has read nothing
NoScan == [req |-> FirstRequest, ack |-> FirstAck, dead |-> Nobody]

Goto(h, label) == pc' = [pc EXCEPT ![h] = label]

\* run_once returns: the Host keeps nothing of what it read
ScanEnds(h) == Goto(h, "idle") /\ scan' = [scan EXCEPT ![h] = NoScan]

Running(h, label) == alive[h] /\ pc[h] = label

\* An exception in hold_task: the lock, if held, is left by its `with` block
Fail(h, kind) ==
    /\ Goto(h, "failing")
    /\ my' = [my EXCEPT ![h].fail = kind]
    /\ rlock' = Unlocked(h)

\* provision() has written the request and its acknowledgement
Init ==
    /\ req = FirstRequest
    /\ ack = FirstAck
    /\ res = NoResult
    /\ claim = [dir |-> FALSE, owner |-> Nobody]
    /\ close = [rid |-> 0, nd |-> FALSE, done |-> FALSE]
    /\ history = {}
    /\ rlock = Nobody
    /\ pc = [h \in Hosts |-> "idle"]
    /\ scan = [h \in Hosts |-> NoScan]
    /\ my = [h \in Hosts |-> NoLocals]
    /\ alive = [h \in Hosts |-> FALSE]
    /\ crashed = {}
    /\ closer = [pc |-> "idle", rid |-> 1, req |-> FirstRequest]
    /\ resumer = [pc |-> "idle", rid |-> 1]
    /\ issued = 0
    /\ turns = [t \in TurnIds |-> [st |-> "none", rid |-> 0, no |-> 0]]
    /\ told = [h \in Hosts |-> {}]

-----------------------------------------------------------------------------
(* run_once: scan, claim, requeue a dead owner's claim                     *)

ReadRequest(h) ==
    /\ Running(h, "idle")
    /\ res = NoResult
    /\ scan' = [scan EXCEPT ![h].req = req]
    /\ Goto(h, "readAck")
    /\ UNCHANGED <<files, my, procs, callers, server>>

ReadAck(h) ==
    /\ Running(h, "readAck")
    /\ IF res = NoResult
       THEN scan' = [scan EXCEPT ![h].ack = ack] /\ Goto(h, "scanned")
       ELSE ScanEnds(h)
    /\ UNCHANGED <<files, my, procs, callers, server>>

MayClaim(h) == scan[h].ack.phase = "queued" /\ ~claim.dir

\* _claim: mkdir is the test-and-set; a loser looks for a dead owner instead
ClaimMkdir(h) ==
    /\ Running(h, "scanned")
    /\ IF MayClaim(h)
       THEN /\ claim' = [claim EXCEPT !.dir = TRUE]
            /\ Goto(h, "claiming")
       ELSE /\ Goto(h, "requeue")
            /\ UNCHANGED claim
    /\ UNCHANGED <<req, ack, res, close, history, rlock, scan, my, procs,
                   callers, server>>

ClaimOwner(h) ==
    /\ Running(h, "claiming")
    /\ claim' = [dir |-> TRUE, owner |-> h]
    /\ Goto(h, "recheck")
    /\ UNCHANGED <<req, ack, res, close, history, rlock, scan, my, procs,
                   callers, server>>

\* A delayed scanner may get the directory after another worker has finished
StillQueued(h) == /\ res = NoResult
                  /\ req.rid = scan[h].req.rid
                  /\ ack.rid = req.rid
                  /\ ack.phase = "queued"

ClaimRecheck(h) ==
    /\ Running(h, "recheck")
    /\ IF StillQueued(h)
       THEN /\ scan' = [scan EXCEPT ![h].ack = ack]
            /\ Goto(h, "claimAck")
       ELSE /\ Goto(h, "unlink")
            /\ UNCHANGED scan
    /\ UNCHANGED <<files, my, procs, callers, server>>

ClaimAck(h) ==
    /\ Running(h, "claimAck")
    /\ ack' = [scan[h].ack EXCEPT !.phase = "claimed"]
    /\ Goto(h, "claimed")
    /\ UNCHANGED <<req, res, claim, close, history, rlock, scan, my, procs,
                   callers, server>>

\* The turn a requeued claim is recovered with, 0 when none is durable
RecoveredTurn(h) == IF scan[h].ack.turn # 0 THEN scan[h].ack.turn ELSE scan[h].req.turn

RequeueDeadClaim(h) ==
    /\ Running(h, "requeue")
    /\ LET owned   == claim.owner \in Hosts
           orphan  == owned /\ ~alive[claim.owner]
           noClaim == /\ scan[h].req.mode = "create"
                      /\ scan[h].ack.phase \in
                           {"claimed", "queued", "thread_starting"}
       IN  IF orphan /\ (RecoveredTurn(h) # 0 \/ noClaim)
           THEN /\ scan' = [scan EXCEPT ![h].dead = claim.owner]
                /\ Goto(h, IF RecoveredTurn(h) # 0 THEN "requeueLock"
                           ELSE "recoveryFailed")
           ELSE ScanEnds(h)
    /\ UNCHANGED <<files, my, procs, callers, server>>

\* No durable thread identity: the acknowledgement fails, without the lock
RecoveryFailed(h) ==
    /\ Running(h, "recoveryFailed")
    /\ ack' = [rid |-> scan[h].req.rid, phase |-> "recovery_failed",
               turn |-> 0, count |-> 1]
    /\ Goto(h, "unlink")
    /\ UNCHANGED <<req, res, claim, close, history, rlock, scan, my, procs,
                   callers, server>>

RequeueLock(h) ==
    /\ Running(h, "requeueLock")
    /\ \/ CanLock /\ rlock' = h /\ Goto(h, "requeueing")
                   /\ UNCHANGED scan
       \/ ~CanLock /\ ScanEnds(h) /\ UNCHANGED rlock
    /\ UNCHANGED <<req, ack, res, claim, close, history, my, procs,
                   callers, server>>

\* Mutant of RecoveryMode: the recovered request keeps its mode
SameMode(h) == scan[h].req.mode

RecoveryMode(h) == "recover"

\* The snapshot becomes the recovery request; only a later stop survives
RequeueRequest(h) ==
    /\ Running(h, "requeueing")
    /\ IF claim.owner = scan[h].dead /\ req.rid = scan[h].req.rid
       THEN /\ req' = [scan[h].req EXCEPT
                         !.mode = RecoveryMode(h),
                         !.turn = RecoveredTurn(h),
                         !.base = IF scan[h].ack.count = 0 THEN 1 ELSE scan[h].ack.count,
                         !.stop = scan[h].req.stop \/ req.stop]
            /\ Goto(h, "requeueAck")
            /\ UNCHANGED <<rlock, scan>>
       ELSE /\ ScanEnds(h)
            /\ rlock' = Unlocked(h)
            /\ UNCHANGED req
    /\ UNCHANGED <<ack, res, claim, close, history, my, procs, callers,
                   server>>

RequeueAck(h) ==
    /\ Running(h, "requeueAck")
    /\ ack' = [rid |-> scan[h].req.rid, phase |-> "queued", turn |-> 0, count |-> 0]
    /\ Goto(h, "unlink")
    /\ UNCHANGED <<req, res, claim, close, history, rlock, scan, my, procs,
                   callers, server>>

\* _release_claim: owner.json, then the directory, whoever they belong to
ReleaseOwner(h) ==
    /\ Running(h, "unlink")
    /\ claim' = [claim EXCEPT !.owner = Nobody]
    /\ Goto(h, "rmdir")
    /\ UNCHANGED <<req, ack, res, close, history, rlock, scan, my, procs,
                   callers, server>>

ReleaseDir(h) ==
    /\ Running(h, "rmdir")
    /\ claim' = [claim EXCEPT !.dir = claim.owner # Nobody]
    /\ rlock' = Unlocked(h)
    /\ IF my[h].held THEN Goto(h, "report") /\ UNCHANGED scan ELSE ScanEnds(h)
    /\ UNCHANGED <<req, ack, res, close, history, my, procs, callers,
                   server>>

-----------------------------------------------------------------------------
(* hold_task: the section under request.lock that dispatches the first turn*)

HoldStarted(h) ==
    /\ Running(h, "claimed")
    /\ LET turn == IF req.mode = "recover" THEN req.turn ELSE 0 IN
       /\ my' = [my EXCEPT ![h] =
                   [rid |-> req.rid, mode |-> req.mode, base |-> req.base,
                    turn |-> turn, count |-> req.base,
                    notSent |-> req.mode # "recover",
                    conf |-> req.mode # "recover",
                    thread |-> req.mode # "create",
                    dec |-> "none", sel |-> FALSE, latched |-> FALSE,
                    fail |-> "error", held |-> TRUE]]
       /\ ack' = [rid |-> req.rid, phase |-> "hold_started",
                  turn |-> turn, count |-> req.base]
    /\ Goto(h, "entered")
    /\ UNCHANGED <<req, res, claim, close, history, rlock, scan, procs,
                   callers, server>>

LockStart(h) ==
    /\ Running(h, "entered")
    /\ \/ CanLock /\ rlock' = h /\ Goto(h, "starting") /\ UNCHANGED my
       \/ ~CanLock /\ Fail(h, "error")      \* lock timeout
    /\ UNCHANGED <<req, ack, res, claim, close, history, scan, procs,
                   callers, server>>

StopBeforeDispatch(h) ==
    /\ Running(h, "starting")
    /\ req.rid = my[h].rid
    /\ StopRequested(my[h].rid)
    /\ my[h].mode # "recover"
    /\ res' = Cancelled(my[h].rid, TRUE, 0)
    /\ Goto(h, "cancelAck")
    /\ UNCHANGED <<req, ack, claim, close, history, rlock, scan, my, procs,
                   callers, server>>

CancelAck(h) ==
    /\ Running(h, "cancelAck")
    /\ ack' = EndedAck(my[h].rid, 0, 0)
    /\ rlock' = Unlocked(h)
    /\ Goto(h, "closing")
    /\ UNCHANGED <<req, res, claim, close, history, scan, my, procs, callers,
                   server>>

AttachRecovered(h) ==
    /\ Running(h, "starting")
    /\ req.rid = my[h].rid
    /\ my[h].mode = "recover"
    /\ ack' = [ack EXCEPT !.rid = my[h].rid, !.phase = "recovery_attached",
                          !.turn = my[h].turn, !.count = my[h].base]
    /\ rlock' = Unlocked(h)
    /\ Goto(h, "attached")
    /\ UNCHANGED <<req, res, claim, close, history, scan, my, procs, callers,
                   server>>

\* create reports thread/start before it is sent; resume already has a thread
StartThread(h) ==
    /\ Running(h, "starting")
    /\ req.rid = my[h].rid
    /\ ~StopRequested(my[h].rid)
    /\ my[h].mode # "recover"
    /\ my' = [my EXCEPT ![h].conf = FALSE]
    /\ IF my[h].mode = "create"
       THEN /\ ack' = [rid |-> my[h].rid, phase |-> "thread_starting",
                       turn |-> 0, count |-> my[h].base]
            /\ Goto(h, "threadStarting")
       ELSE /\ Goto(h, "dispatch")
            /\ UNCHANGED ack
    /\ UNCHANGED <<req, res, claim, close, history, rlock, scan, procs,
                   callers, server>>

ThreadStarted(h) ==
    /\ Running(h, "threadStarting")
    /\ my' = [my EXCEPT ![h].thread = TRUE]
    /\ ack' = [rid |-> my[h].rid, phase |-> "thread_started",
               turn |-> 0, count |-> my[h].base]
    /\ Goto(h, "dispatch")
    /\ UNCHANGED <<req, res, claim, close, history, rlock, scan, procs,
                   callers, server>>

\* stop_requested() finds another request id, or the client fails to start
StartFails(h) ==
    /\ \/ Running(h, "starting")
       \/ Running(h, "threadStarting")
       \/ Running(h, "dispatch")
    /\ Fail(h, "error")
    /\ UNCHANGED <<req, ack, res, claim, close, history, scan, procs,
                   callers, server>>

-----------------------------------------------------------------------------
(* turn/start: report, send, capture the identity, acknowledge             *)

TurnStarting(h) ==
    /\ Running(h, "dispatch")
    /\ my' = [my EXCEPT ![h].notSent = FALSE]
    /\ ack' = [rid |-> my[h].rid, phase |-> "turn_starting",
               turn |-> my[h].turn, count |-> my[h].base]
    /\ Goto(h, "sending")
    /\ UNCHANGED <<req, res, claim, close, history, rlock, scan, procs,
                   callers, server>>

\* The number of the turn being dispatched: the first one, or a continuation
NextCount(h) == IF my[h].dec = "CONTINUE" THEN my[h].count + 1 ELSE my[h].count

\* The App Server starts the turn; the response may be lost on the way back
StartTurn(h, answered) ==
    /\ Running(h, "sending")
    /\ issued < MaxIssued
    /\ issued' = issued + 1
    /\ turns' = [turns EXCEPT ![issued + 1] =
                   [st |-> "inProgress", rid |-> my[h].rid, no |-> NextCount(h)]]
    /\ IF answered
       THEN /\ my' = [my EXCEPT ![h].turn = issued + 1]
            /\ Goto(h, "sent")
            /\ UNCHANGED rlock
       ELSE Fail(h, "error")
    /\ UNCHANGED <<req, ack, res, claim, close, history, scan, procs,
                   callers, told>>

StartTurnFails(h) ==
    /\ Running(h, "sending")
    /\ Fail(h, "error")
    /\ UNCHANGED <<req, ack, res, claim, close, history, scan, procs,
                   callers, server>>

\* report() writes initial_turn_count, whatever number the turn has; the
\* counters advance when the start call returns.  The lock is left after the
\* first turn, and kept by a continuation until turn_holding is written.
TurnStarted(h) ==
    /\ Running(h, "sent")
    /\ ack' = [rid |-> my[h].rid, phase |-> "turn_started",
               turn |-> my[h].turn, count |-> my[h].base]
    /\ my' = [my EXCEPT ![h].count = NextCount(h)]
    /\ rlock' = IF my[h].dec = "CONTINUE" THEN rlock ELSE Unlocked(h)
    /\ Goto(h, "started")
    /\ UNCHANGED <<req, res, claim, close, history, scan, procs, callers,
                   server>>

TurnHolding(h) ==
    /\ Running(h, "started") \/ Running(h, "attached")
    /\ ack' = [rid |-> my[h].rid, phase |-> "turn_holding",
               turn |-> my[h].turn, count |-> my[h].count]
    /\ IF my[h].dec = "CONTINUE" /\ my[h].mode = "recover"
       THEN Goto(h, "advance") /\ UNCHANGED rlock
       ELSE Goto(h, "observing") /\ rlock' = Unlocked(h)
    /\ UNCHANGED <<req, res, claim, close, history, scan, my, procs, callers,
                   server>>

\* A recovery request binds the exact turn: advance it with the continuation
AdvanceRequest(h) ==
    /\ Running(h, "advance")
    /\ IF req.rid = my[h].rid
       THEN /\ req' = [req EXCEPT !.turn = my[h].turn]
            /\ Goto(h, "observing")
            /\ rlock' = Unlocked(h)
            /\ UNCHANGED my
       ELSE Fail(h, "error") /\ UNCHANGED req
    /\ UNCHANGED <<ack, res, claim, close, history, scan, procs, callers,
                   server>>

-----------------------------------------------------------------------------
(* HoldTurnMonitor.observe with hold_task's control_poll                   *)

\* control_poll acts on a bound host stop, or on any stop of a recovery
ControlPending == req.hstop # 0 \/ (req.mode = "recover" /\ req.stop)
ControlTurn    == IF req.hstop # 0 THEN req.hstop ELSE req.turn
ControlMatches(h) == req.rid = my[h].rid /\ ControlTurn = my[h].turn

\* The exact turn is terminal and the thread has no other one in progress
ReadBack(h) == IF /\ my[h].turn \in TurnIds
                  /\ turns[my[h].turn].st # "inProgress"
                  /\ InProgress = {}
               THEN "readback" ELSE "unknown"

\* On another identity nothing is sent, and a recovered holder never interrupts:
\* it reads the thread.  Either way the holder stops observing.
PollGivesUp(h) ==
    /\ Running(h, "observing")
    /\ ControlPending
    /\ ControlMatches(h) => my[h].mode = "recover"
    /\ Goto(h, "failing")
    /\ my' = [my EXCEPT ![h] =
                [@ EXCEPT !.sel = my[h].sel \/ ControlMatches(h),
                          !.fail = IF ControlMatches(h) THEN ReadBack(h) ELSE "unknown"]]
    /\ UNCHANGED <<files, scan, procs, callers, server>>

\* Latched before turn/interrupt is sent, so that it is never sent twice
PollInterrupt(h) ==
    /\ Running(h, "observing")
    /\ ControlPending /\ ControlMatches(h)
    /\ my[h].mode # "recover"
    /\ ~my[h].latched
    /\ my' = [my EXCEPT ![h] = [@ EXCEPT !.sel = TRUE, !.latched = TRUE]]
    /\ ack' = [rid |-> my[h].rid, phase |-> "host_stop_interrupting",
               turn |-> my[h].turn, count |-> my[h].base]
    /\ UNCHANGED <<req, res, claim, close, history, rlock, pc, scan, procs,
                   callers, server>>

PollTimeout(h) ==
    /\ Running(h, "observing")
    /\ ControlPending /\ ControlMatches(h)
    /\ my[h].mode # "recover"
    /\ my[h].latched
    /\ Fail(h, "unknown")
    /\ UNCHANGED <<req, ack, res, claim, close, history, scan, procs,
                   callers, server>>

\* The client is lost or cannot read the turn back; the history cannot be
\* written.  Only the second one knows that the turn has ended.
HoldFails(h) ==
    /\ Running(h, "observing") \/ Running(h, "recording")
    /\ Fail(h, "error")
    /\ UNCHANGED <<req, ack, res, claim, close, history, scan, procs,
                   callers, server>>

\* Mutant of BudgetUsed: one turn more than max_turns
OverBudget(h) == my[h].count > MaxTurns

BudgetUsed(h) == my[h].count >= MaxTurns

\* observe's checks in order: terminal status, verification or a worker's
\* "blocked" line, stop, budget, continuation
Decisions(h) ==
    IF turns[my[h].turn].st # "completed" THEN {"interrupted"}
    ELSE {"blocked"} \cup
         IF StopRequested(my[h].rid) THEN {"cancelled"}
         ELSE IF BudgetUsed(h) THEN {"turn_limit_reached"}
         ELSE IF ~AutoContinue THEN {"completed"} ELSE {"CONTINUE"}

Observe(h) ==
    /\ Running(h, "observing")
    /\ my[h].turn \in told[h]
    /\ \/ /\ req.rid = my[h].rid
          /\ \E d \in Decisions(h) :
               my' = [my EXCEPT ![h] = [@ EXCEPT !.dec = d, !.conf = TRUE]]
          /\ Goto(h, "decided")
          /\ UNCHANGED rlock
       \/ req.rid # my[h].rid /\ Fail(h, "error")
    /\ UNCHANGED <<req, ack, res, claim, close, history, scan, procs,
                   callers, server>>

-----------------------------------------------------------------------------
(* The decision under request.lock, then the next turn or the result       *)

LockRecord(h) ==
    /\ Running(h, "decided")
    /\ \/ CanLock /\ rlock' = h /\ Goto(h, "recording") /\ UNCHANGED my
       \/ ~CanLock /\ Fail(h, "error")
    /\ UNCHANGED <<req, ack, res, claim, close, history, scan, procs,
                   callers, server>>

\* Mutant of FinalDecision: a stop latched after observe() is not seen
ObservedDecision(h) == my[h].dec

\* A stop latched after observe() still wins over CONTINUE
FinalDecision(h) == IF my[h].dec = "CONTINUE" /\ StopRequested(my[h].rid)
                    THEN "cancelled" ELSE my[h].dec

\* Mutant of HistoryWith: only the last turn goes to the history
HistoryAtEnd(h) == history \cup (IF my[h].dec = "CONTINUE" THEN {} ELSE {my[h].turn})

\* append_terminal_turn_history()
HistoryWith(h) == history \cup {my[h].turn}

Record(h) ==
    /\ Running(h, "recording")
    /\ IF my[h].dec = "CONTINUE" /\ req.rid # my[h].rid
       THEN Fail(h, "error") /\ UNCHANGED history
       ELSE /\ my' = [my EXCEPT ![h].dec = FinalDecision(h)]
            /\ history' = HistoryWith(h)
            /\ Goto(h, "recorded")
            /\ UNCHANGED rlock
    /\ UNCHANGED <<req, ack, res, claim, close, scan, procs, callers, server>>

\* Mutant of Continues: the loop ends, and "holding" becomes the result
NeverContinues(h) == FALSE

Continues(h) == my[h].dec = "CONTINUE"

\* On CONTINUE the turn id is forgotten before the next dispatch is reported
DecisionAck(h) ==
    /\ Running(h, "recorded")
    /\ ack' = [rid |-> my[h].rid, phase |-> "monitor_decision",
               turn |-> my[h].turn, count |-> my[h].count]
    /\ IF Continues(h)
       THEN /\ my' = [my EXCEPT ![h] = [@ EXCEPT !.conf = FALSE, !.turn = 0,
                                                 !.notSent = TRUE]]
            /\ Goto(h, "dispatch")
            /\ UNCHANGED rlock
       ELSE /\ rlock' = Unlocked(h)
            /\ Goto(h, "result")
            /\ UNCHANGED my
    /\ UNCHANGED <<req, res, claim, close, history, scan, procs, callers,
                   server>>

WriteResult(h) ==
    /\ Running(h, "result")
    /\ res' = [rid |-> my[h].rid, status |-> my[h].dec, turn |-> my[h].turn,
               conf |-> my[h].conf, notSent |-> FALSE, hs |-> my[h].latched,
               owe |-> FALSE, readback |-> FALSE, exit |-> FALSE,
               hexit |-> FALSE, obs |-> FALSE, thread |-> TRUE]
    /\ Goto(h, "closing")
    /\ UNCHANGED <<req, ack, claim, close, history, rlock, scan, my, procs,
                   callers, server>>

WriteFailure(h) ==
    /\ Running(h, "failing")
    /\ LET kind == my[h].fail
           hs   == my[h].sel \/ my[h].latched \/ kind # "error" IN
       res' = [rid |-> my[h].rid,
               status |-> CASE kind = "error"   -> "failed"
                            [] kind = "unknown" -> "unknown"
                            [] kind = "readback" ->
                                 IF turns[my[h].turn].st = "completed"
                                 THEN "cancelled" ELSE "interrupted",
               turn |-> my[h].turn,
               conf |-> kind = "error" /\ my[h].conf,
               notSent |-> my[h].notSent, hs |-> hs,
               owe |-> hs /\ kind # "readback",
               readback |-> kind = "readback", exit |-> FALSE,
               hexit |-> FALSE, obs |-> FALSE, thread |-> my[h].thread]
    /\ Goto(h, "failAck")
    /\ UNCHANGED <<req, ack, claim, close, history, rlock, scan, my, procs,
                   callers, server>>

FailAck(h) ==
    /\ Running(h, "failAck")
    /\ ack' = EndedAck(my[h].rid, my[h].turn, my[h].count)
    /\ Goto(h, "closing")
    /\ UNCHANGED <<req, res, claim, close, history, rlock, scan, my, procs,
                   callers, server>>

\* hold_task's finally block: the client is closed, then the result says so
HolderExit(h) ==
    /\ Running(h, "closing")
    /\ IF res = NoResult
       THEN UNCHANGED <<res, close>>
       ELSE LET exited == [res EXCEPT !.exit = @ \/ res.hs]
                mine   == res.rid = my[h].rid /\ req.rid = my[h].rid
            IN  /\ res' = IF mine THEN [exited EXCEPT !.obs = TRUE] ELSE exited
                /\ close' = IF mine
                            THEN RefreshedClose(res', res.conf /\ ~claim.dir)
                            ELSE close
    /\ Goto(h, "finally")
    /\ UNCHANGED <<req, ack, claim, history, rlock, scan, my, procs, callers,
                   server>>

\* Mutant of OwnerProof: the client's exit is proof enough
ExitProof == res.exit

\* The holder read the exact turn back terminal, and its client has exited
OwnerProof == res.exit /\ res.readback

\* run_once's finally block: a controlled stop needs the whole proof to release
HostFinally(h) ==
    /\ Running(h, "finally")
    /\ IF res # NoResult /\ res.hs
       THEN /\ res' = [res EXCEPT !.hexit = TRUE, !.conf = @ \/ OwnerProof]
            /\ ack' = EndedAck(res.rid, res.turn, my[h].count)
            /\ Goto(h, IF (res.conf \/ OwnerProof) /\ res.exit THEN "unlink" ELSE "report")
       ELSE Goto(h, "unlink") /\ UNCHANGED <<res, ack>>
    /\ UNCHANGED <<req, claim, close, history, rlock, scan, my, procs,
                   callers, server>>

HostReport(h) ==
    /\ Running(h, "report")
    /\ close' = IF res = NoResult THEN close
                ELSE RefreshedClose(res, res.conf /\ ~claim.dir)
    /\ my' = [my EXCEPT ![h] = NoLocals]
    /\ told' = [told EXCEPT ![h] = {}]
    /\ ScanEnds(h)
    /\ UNCHANGED <<req, ack, res, claim, history, rlock, procs, callers,
                   issued, turns>>

\* initialize_user_host: only when the health of every other Host is stale,
\* which a suspended Host (Overlap) also is
StartHost(h) ==
    /\ ~alive[h] /\ h \notin crashed
    /\ Overlap \/ \A g \in Hosts : ~alive[g]
    /\ alive' = [alive EXCEPT ![h] = TRUE]
    /\ UNCHANGED <<files, pc, scan, my, crashed, callers, server>>

Crash(h) ==
    /\ alive[h]
    /\ Cardinality(crashed) < MaxCrashes
    /\ alive' = [alive EXCEPT ![h] = FALSE]
    /\ crashed' = crashed \cup {h}
    /\ my' = [my EXCEPT ![h] = NoLocals]
    /\ told' = [told EXCEPT ![h] = {}]
    /\ ScanEnds(h)
    /\ UNCHANGED <<files, callers, issued, turns>>

-----------------------------------------------------------------------------
(* The callers: stop, close, exact stop, reconcile, resume                 *)

RequestHoldStop ==
    /\ CanLock
    /\ ~req.stop
    /\ req' = [req EXCEPT !.stop = TRUE]
    /\ rlock' = Nobody
    /\ UNCHANGED <<ack, res, claim, close, history, pc, scan, my, procs,
                   callers, server>>

\* close_hold: the bound close.json is durable before any other effect
CloseBind ==
    /\ closer.pc = "idle"
    /\ close' = IF close.rid = req.rid THEN close
                ELSE [rid |-> req.rid, nd |-> FALSE, done |-> FALSE]
    /\ closer' = [closer EXCEPT !.pc = "bound", !.rid = req.rid]
    /\ UNCHANGED <<req, ack, res, claim, history, rlock, pc, scan, my, procs,
                   resumer, server>>

\* Under request.lock: cancel exact unclaimed queued work, or latch the stop
CloseInspect ==
    /\ closer.pc = "bound"
    /\ CanLock
    /\ LET conflict  == \/ req.rid # closer.rid
                        \/ ack.rid # closer.rid
                        \/ res # NoResult /\ res.rid # closer.rid
           unclaimed == res = NoResult /\ ack.phase = "queued" /\ ~claim.dir
           open      == res = NoResult \/ (res # NoResult /\ ~res.conf)
       IN  IF conflict
           THEN closer' = [closer EXCEPT !.pc = "idle"] /\ rlock' = Nobody
           ELSE IF unclaimed
           THEN closer' = [closer EXCEPT !.pc = "cancel", !.req = req] /\ rlock' = Closer
           ELSE IF open
           THEN closer' = [closer EXCEPT !.pc = "latch", !.req = req] /\ rlock' = Closer
           ELSE closer' = [closer EXCEPT !.pc = "report"] /\ rlock' = Nobody
    /\ UNCHANGED <<req, ack, res, claim, close, history, pc, scan, my, procs,
                   resumer, server>>

\* The request is written back as it was read, with the stop
CloseLatch ==
    /\ closer.pc = "latch"
    /\ req' = IF closer.req.stop THEN req ELSE [closer.req EXCEPT !.stop = TRUE]
    /\ closer' = [closer EXCEPT !.pc = "report", !.req = FirstRequest]
    /\ rlock' = Unlocked(Closer)
    /\ UNCHANGED <<ack, res, claim, close, history, pc, scan, my, procs,
                   resumer, server>>

CloseCancel ==
    /\ closer.pc = "cancel"
    /\ LET r         == closer.req
           observing == r.mode = "recover" \/ r.turn # 0 IN
       /\ res' = [Cancelled(r.rid, ~observing, IF observing THEN r.turn ELSE 0)
                    EXCEPT !.obs = TRUE]
       /\ ack' = EndedAck(r.rid, IF observing THEN r.turn ELSE 0, 0)
       /\ req' = [r EXCEPT !.stop = TRUE]
    /\ closer' = [closer EXCEPT !.pc = "report", !.req = FirstRequest]
    /\ rlock' = Unlocked(Closer)
    /\ UNCHANGED <<claim, close, history, pc, scan, my, procs, resumer,
                   server>>

CloseReport ==
    /\ closer.pc = "report"
    /\ close' = IF res = NoResult THEN close ELSE RefreshedClose(res, Released)
    /\ closer' = [closer EXCEPT !.pc = "idle"]
    /\ UNCHANGED <<req, ack, res, claim, history, rlock, pc, scan, my, procs,
                   resumer, server>>

\* The owning Host, alive and holding, gets the exact turn to stop
RequestHostStop ==
    /\ CanLock
    /\ req.hstop = 0
    /\ res = NoResult
    /\ ack.rid = req.rid /\ ack.turn # 0
    /\ req.mode = "recover" => req.turn = ack.turn
    /\ claim.owner \in Hosts
    /\ alive[claim.owner] /\ pc[claim.owner] \in HolderPCs \ {"finally"}
    /\ req' = [req EXCEPT !.stop = TRUE, !.hstop = ack.turn]
    /\ rlock' = Nobody
    /\ UNCHANGED <<ack, res, claim, close, history, pc, scan, my, procs,
                   callers, server>>

\* Mutant of Inactive: a claim whose owner still holds is taken for orphaned
Unchecked(h) == TRUE

\* The claim's owner is dead, or no longer lists the Hold as active
Inactive(h) == ~(alive[h] /\ pc[h] \in HolderPCs)

\* reconcile_hold: the exact turn, read back terminal, confirms and releases
ReconcileHold ==
    LET controlled == req.hstop # 0 \/ (req.mode = "recover" /\ req.stop)
        owned      == res.hs /\ res.hexit /\ res.exit
        names      == {req.turn, ack.turn, res.turn} \ {0}
        orphaned   == \/ ~claim.dir
                      \/ claim.owner = Nobody /\ res.conf
                      \/ claim.owner \in Hosts /\ Inactive(claim.owner)
    IN  /\ CanLock
        /\ res # NoResult
        /\ controlled => owned /\ res.conf
        /\ ~res.owe
        /\ res.hs => owned
        /\ req.rid = res.rid /\ ack.rid = res.rid
        /\ ~(res.conf /\ res.status # "unknown" /\ ~claim.dir)
        /\ res.turn # 0 /\ names = {res.turn}
        /\ orphaned
        /\ turns[res.turn].st \notin {"none", "inProgress"}
        /\ res' = [res EXCEPT !.conf = TRUE,
                              !.status = IF @ = "unknown" THEN "failed" ELSE @]
        /\ ack' = EndedAck(ack.rid, res.turn, ack.count)
        /\ claim' = [dir |-> FALSE, owner |-> Nobody]
        /\ rlock' = Nobody
        /\ UNCHANGED <<req, close, history, pc, scan, my, procs, callers,
                       server>>

\* reconcile_hold: the first turn was refused before turn/start, and the live
\* Host that refused it has finished.  Which model was refused is left out.
ReconcileUndispatched ==
    /\ CanLock
    /\ res # NoResult
    /\ req.mode = "create" /\ ~ControlPending
    /\ res.rid = req.rid /\ ack.rid = req.rid
    /\ res.status = "failed" /\ ~res.conf /\ ~res.hs
    /\ res.notSent /\ res.thread /\ res.turn = 0 /\ ack.count = 1
    /\ ~claim.dir
    /\ \E h \in Hosts : alive[h] /\ Inactive(h)
    /\ res' = [res EXCEPT !.conf = TRUE]
    /\ rlock' = Nobody
    /\ UNCHANGED <<req, ack, claim, close, history, pc, scan, my, procs,
                   callers, server>>

\* resume_with_monitor: check, archive, new request, new acknowledgement
ResumeCheck ==
    /\ resumer.pc = "idle"
    /\ resumer.rid < MaxRequests
    /\ Released /\ res.thread
    /\ resumer' = [resumer EXCEPT !.pc = "checked"]
    /\ UNCHANGED <<files, pc, scan, my, procs, closer, server>>

\* Mutant of ResumeArchive: the old result stays in place
ResumeKeepsResult ==
    /\ resumer.pc = "checked"
    /\ UNCHANGED res
    /\ resumer' = [resumer EXCEPT !.pc = "archived"]
    /\ UNCHANGED <<req, ack, claim, close, history, rlock, pc, scan, my,
                   procs, closer, server>>

ResumeArchive ==
    /\ resumer.pc = "checked"
    /\ res' = NoResult
    /\ resumer' = [resumer EXCEPT !.pc = "archived"]
    /\ UNCHANGED <<req, ack, claim, close, history, rlock, pc, scan, my,
                   procs, closer, server>>

ResumeRequest ==
    /\ resumer.pc = "archived"
    /\ req' = [rid |-> resumer.rid + 1, mode |-> "resume", turn |-> 0, base |-> 1,
               stop |-> FALSE, hstop |-> 0]
    /\ resumer' = [pc |-> "written", rid |-> resumer.rid + 1]
    /\ UNCHANGED <<ack, res, claim, close, history, rlock, pc, scan, my,
                   procs, closer, server>>

ResumeAck ==
    /\ resumer.pc = "written"
    /\ ack' = [rid |-> resumer.rid, phase |-> "queued", turn |-> 0, count |-> 1]
    /\ resumer' = [resumer EXCEPT !.pc = "idle"]
    /\ UNCHANGED <<req, res, claim, close, history, rlock, pc, scan, my,
                   procs, closer, server>>

-----------------------------------------------------------------------------
(* The App Server (external)                                               *)

\* The turn ends; the client that sent it is told, a recovering one may be
TurnEnds(t, st) ==
    /\ turns[t].st = "inProgress"
    /\ turns' = [turns EXCEPT ![t].st = st]
    /\ LET waiting == {h \in Hosts : /\ alive[h]
                                      /\ pc[h] \in ClientPCs
                                      /\ my[h].turn = t}
           senders == {h \in waiting : my[h].mode # "recover"}
       IN  \E more \in SUBSET (waiting \ senders) :
             told' = [h \in Hosts |-> IF h \in senders \cup more
                                      THEN told[h] \cup {t} ELSE told[h]]
    /\ UNCHANGED <<files, pc, scan, my, procs, callers, issued>>

HostNext(h) ==
    \/ StartHost(h) \/ ReadRequest(h) \/ ReadAck(h) \/ ClaimMkdir(h) \/ ClaimOwner(h)
    \/ ClaimRecheck(h) \/ ClaimAck(h) \/ RequeueDeadClaim(h)
    \/ RecoveryFailed(h) \/ RequeueLock(h) \/ RequeueRequest(h)
    \/ RequeueAck(h) \/ ReleaseOwner(h) \/ ReleaseDir(h)
    \/ HoldStarted(h) \/ LockStart(h) \/ StopBeforeDispatch(h) \/ CancelAck(h)
    \/ AttachRecovered(h) \/ StartThread(h) \/ ThreadStarted(h)
    \/ TurnStarting(h) \/ StartTurn(h, TRUE) \/ TurnStarted(h)
    \/ TurnHolding(h) \/ AdvanceRequest(h)
    \/ PollGivesUp(h) \/ PollInterrupt(h)
    \/ Observe(h) \/ LockRecord(h) \/ Record(h) \/ DecisionAck(h)
    \/ WriteResult(h) \/ WriteFailure(h) \/ FailAck(h) \/ HolderExit(h)
    \/ HostFinally(h) \/ HostReport(h)

\* What may go wrong, and is never required to
HostFault(h) ==
    \/ StartFails(h) \/ StartTurn(h, FALSE) \/ StartTurnFails(h)
    \/ PollTimeout(h) \/ HoldFails(h) \/ Crash(h)

CallerNext ==
    \/ RequestHoldStop \/ CloseBind \/ CloseInspect \/ CloseLatch
    \/ CloseCancel \/ CloseReport \/ RequestHostStop \/ ReconcileHold
    \/ ReconcileUndispatched
    \/ ResumeCheck \/ ResumeArchive \/ ResumeRequest \/ ResumeAck

Next ==
    \/ \E h \in Hosts : HostNext(h) \/ HostFault(h)
    \/ CallerNext
    \/ \E t \in TurnIds, st \in {"completed", "interrupted"} : TurnEnds(t, st)

Spec == Init /\ [][Next]_vars

\* A live Host keeps scanning and working; a turn that was started ends.
\* Callers, faults and crashes are never owed.
Fairness ==
    /\ \A h \in Hosts : WF_vars(HostNext(h))
    /\ \A t \in TurnIds : WF_vars(\E st \in {"completed", "interrupted"} : TurnEnds(t, st))

FairSpec == Spec /\ Fairness

-----------------------------------------------------------------------------
(* Properties                                                              *)

\* Every variable keeps its type: files, snapshots and locals of the code.
TypeOK ==
    /\ req \in Requests
    /\ ack \in Acks
    /\ res \in Results \cup {NoResult}
    /\ claim \in Claims
    /\ close \in Closes
    /\ history \subseteq TurnIds
    /\ rlock \in Procs \cup {Nobody}
    /\ pc \in [Hosts -> PCs]
    /\ scan \in [Hosts -> Scans]
    /\ my \in [Hosts -> Locals]
    /\ alive \in [Hosts -> BOOLEAN]
    /\ crashed \subseteq Hosts
    /\ closer \in Closers
    /\ resumer \in Resumers
    /\ issued \in 0..MaxIssued
    /\ turns \in [TurnIds -> Turns]
    /\ told \in [Hosts -> SUBSET TurnIds]

\* What a holder has decided, and about which turn, before it records it
DecisionOK ==
    \A h \in Hosts :
      /\ pc[h] \in {"decided", "recording", "recorded", "result"}
           => my[h].dec # "none"
      /\ pc[h] = "result" => my[h].dec # "CONTINUE"
      /\ pc[h] \in {"entered", "starting", "attached"} => my[h].dec = "none"
      /\ pc[h] \in {"decided", "recording"} => my[h].turn \in TurnIds

ResumerOK == resumer.pc \in {"checked", "archived"} => resumer.rid < MaxRequests

\* The sections of the code that run under request.lock
LockedPCs == {"requeueing", "requeueAck", "starting", "cancelAck",
              "threadStarting", "dispatch", "sending", "sent", "advance",
              "recording", "recorded"}

LockOK ==
    /\ \A h \in Hosts :
         \/ pc[h] \in LockedPCs
         \/ pc[h] = "started" /\ my[h].dec = "CONTINUE"
         => rlock = h
    /\ closer.pc \in {"cancel", "latch"} => rlock = Closer
    /\ \A h \in Hosts : pc[h] # "idle" => alive[h]

StopOK ==
    \A h \in Hosts :
      \/ pc[h] \in {"threadStarting", "dispatch", "sending"}
      \/ pc[h] = "recorded" /\ my[h].dec = "CONTINUE"
      => ~req.stop

\* Whoever works under request.lock owns it, also after crashes and reclaimed
\* locks, and from the check of the stop to the dispatch no stop is latched.
LockDiscipline == DecisionOK /\ ResumerOK /\ LockOK /\ StopOK

\* The Host that runs a Hold owns its claim until it has finished: neither
\* reconcile_hold nor a dead-owner requeue takes it away from under it.
HolderOwnsClaim ==
    \A h \in Hosts :
      alive[h] /\ pc[h] \in HolderPCs => claim = [dir |-> TRUE, owner |-> h]

\* A queued Hold executes once: two live Hosts never hold it, even when the health
\* of a suspended Host went stale and another one was started.  Refuted:
\* _release_claim removes a directory that is not its own any more, the one that
\* another Host has just made and not yet signed.
OneHolder ==
    \A g, h \in Hosts :
      alive[g] /\ alive[h] /\ pc[g] \in HolderPCs /\ pc[h] \in HolderPCs => g = h

\* The Hold's thread runs one turn at a time: no dispatch, recovery or resume
\* starts a turn while another is in progress.
OneTurnAtATime == Cardinality(InProgress) <= 1

\* A Hold reported as released has no turn in progress.
ReleasedMeansQuiet == Released => InProgress = {}

\* A close report that says completed is true: no turn of the closed request
\* is in progress.
ClosedMeansQuiet ==
    close.done => \A t \in InProgress : turns[t].rid # close.rid

\* Once a stop is latched in request.json no turn is started, whichever Host
\* holds, recovers or requeues the Hold.
NoDispatchAfterStop == [][issued' # issued => ~req.stop]_vars

\* A continuation starts only after the turn before it is in the history.
HistoryBeforeContinuation ==
    [][issued' # issued =>
         \A t \in TurnIds : turns[t].rid = turns'[issued'].rid => t \in history]_vars

\* A turn number, and with it a lane item, is dispatched once per request.
NoRepeatedItem ==
    \A t, u \in 1..issued :
      turns[t].rid = turns[u].rid /\ turns[t].no = turns[u].no => t = u

\* A request never starts more turns than its max_turns.
WithinBudget ==
    \A r \in Rids : Cardinality({t \in 1..issued : turns[t].rid = r}) <= MaxTurns

\* A queued request gets its result, whatever stop, close or lost response
\* comes in between, as long as no Host dies; unless a close of the request
\* before it writes that one back.
Answered ==
    \A r \in Rids :
      (ack.rid = r /\ ack.phase = "queued")
        ~> \/ res # NoResult /\ res.rid = r
           \/ req.rid < r
====
