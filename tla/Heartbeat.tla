------------------------------ MODULE Heartbeat ------------------------------
(***************************************************************************)
(* The heartbeat scheduler: HeartbeatService and its worker threads over   *)
(* the rows of HeartbeatStore, the probes and wakes they make, the CLI     *)
(* commands that change rows at any time, and a process that dies.         *)
(*                                                                         *)
(*   jarvis_heartbeat_service.py   HeartbeatService.run_once,              *)
(*                                 _execute_claim, run_forever, main,      *)
(*                                 WakeController, the native probes,      *)
(*                                 MasterQueueContinuationProbe            *)
(*   jarvis_codex_bridge           ThreadTerminalMonitor.observe,          *)
(*                                 ExistingThreadBridge.resume_existing,   *)
(*                                 JsonlReceiptJournal                     *)
(*                                                                         *)
(* A connection of the store runs its SELECTs outside a transaction, so    *)
(* claim_due, set_status, update and the recovery of handoffs read in one  *)
(* step and write in another; record_run and the handoff statements begin  *)
(* with a write and are atomic.                                            *)
(* A claimed run has a worker of its own, indexed by the run.  Threads and *)
(* turns belong to the external App Server: a turn ends at any time.       *)
(***************************************************************************)
EXTENDS HeartbeatStore, FiniteSets

CONSTANTS
    Beats,          \* heartbeat ids, a set of numbers
    Items,          \* items of the master queue, a set of numbers
    Mixes,          \* the configurations a behaviour may have, see MixType
    MaxClaims       \* bound: runs claimed in a behaviour

(* kind of each heartbeat; gone: those cancelled before the behaviour;     *)
(* strict: config.require_prompt_continuation_receipt; shared: one target  *)
(* thread; ended: the queue's items that are completed already;            *)
(* cap: config.max_concurrent_runs; others: which processes beside the     *)
(* service may be started; expires: whether expires_at may pass.           *)
(* Bounds: runs claimed, processes that die, CLI commands, and turns of    *)
(* the user's own in the observed thread.                                  *)
MixType == [kind: [Beats -> Kinds], gone: SUBSET Beats, strict: BOOLEAN,
            shared: BOOLEAN, ended: SUBSET Items, cap: Nat \ {0},
            others: SUBSET {"second", "once"}, expires: BOOLEAN,
            claims: 0..MaxClaims, crashes: Nat, commands: Nat, user: Nat]

ASSUME HeartbeatConstants ==
    /\ Beats \subseteq Nat \ {0} /\ Items \subseteq Nat /\ Mixes \subseteq MixType
    /\ IsFiniteSet(Beats) /\ IsFiniteSet(Items)
    /\ MaxClaims \in Nat

VARIABLES
    mix,        \* the configuration of this behaviour
    row,        \* table heartbeats
    run,        \* table heartbeat_runs
    proc,       \* the scheduler processes, and what their SELECTs returned
    w,          \* the worker of each run: its place and local variables
    turn,       \* the App Server's turn for the run
    user,       \* the user's own turns in the observed thread
    seen,       \* standard_monitor_state.json: last fingerprint, or NoFile
    journal,    \* standard_bridge_receipts.jsonl: request ids, with status
    queue,      \* the master queue file
    qlock,      \* the queue's lock file exists
    cmd,        \* the CLI command that has read and not yet written
    count,      \* how often each bounded event has happened
    hist        \* history: what was started, delivered and handed off

vars == <<mix, row, run, proc, w, turn, user, seen, journal, queue, qlock,
          cmd, count, hist>>

Procs  == {"service", "second", "once"}
RunIds == 1..MaxClaims
NoFile == 0
Kind(h) == mix.kind[h]

Active  == {"begin", "arm", "observe", "claim", "read", "start", "note", "wait",
            "settle", "record"}
Waiting == {"claimed", "refused"}
Places  == {"free", "dead", "done"} \cup Waiting \cup Active
NoRun   == [beat |-> 0, done |-> FALSE, turn |-> FALSE]
NoProc  == [up |-> FALSE, pc |-> "idle", sel |-> {}, exp |-> {}, rec |-> {}]
NoWork  == [pc |-> "free", proc |-> "service", out |-> "", fp |-> 0, key |-> 0, item |-> 0,
            snap |-> NoQueue]
NewItem == [st |-> "pending", by |-> 0, run |-> 0, woken |-> FALSE]
NoCommand == [pc |-> "idle", beat |-> 0, want |-> "", seen |-> NewRow("plain")]

Init ==
    /\ mix \in Mixes
    /\ row = [h \in Beats |-> IF h \in mix.gone THEN [NewRow(Kind(h)) EXCEPT !.status = "CANCELLED"]
                                            ELSE NewRow(Kind(h))]
    /\ run = [r \in RunIds |-> NoRun]
    /\ proc = [p \in Procs |-> NoProc]
    /\ w = [r \in RunIds |-> NoWork]
    /\ turn = [r \in RunIds |-> "none"]
    /\ user = [n |-> 0, busy |-> FALSE, ok |-> TRUE, cold |-> FALSE]
    /\ seen = [h \in Beats |-> NoFile]
    /\ journal = [h \in Beats |-> {}]
    /\ queue = [i \in Items |-> IF i \in mix.ended THEN [NewItem EXCEPT !.st = "completed"]
                                                  ELSE NewItem]
    /\ qlock = FALSE
    /\ cmd = NoCommand
    /\ count = [claims |-> 0, crashes |-> 0, commands |-> 0, user |-> 0]
    /\ hist = [woke |-> [i \in Items |-> 0], cont |-> {}, handed |-> {}, raced |-> FALSE]

-----------------------------------------------------------------------------
(* Threads.  A prompt, a quota trigger and a continuation wake the target; *)
(* a terminal receipt wakes the parent; a queue item wakes its lane.       *)

Target(h) == IF mix.shared THEN 0 ELSE h
Wakes(h)  == CASE Kind(h) = "terminal" -> <<"parent", 0>>
               [] Kind(h) = "queue"    -> <<"lane", 0>>
               [] OTHER                -> <<"target", Target(h)>>

Beat(r)     == run[r].beat
Running(th) == {r \in RunIds : turn[r] = "running" /\ Wakes(Beat(r)) = th}

(* The observed child is the shared target thread.                         *)
ChildBusy   == user.busy \/ Running(<<"target", 0>>) # {}
ThreadBusy(th) == Running(th) # {} \/ (th = <<"target", 0>> /\ user.busy)

(* NativeThreadTerminalProbe.inspect's fingerprint: the number of the last *)
(* turn when it has ended, else none (0).                                  *)
TerminalFp == IF ChildBusy THEN 0 ELSE user.n
(* ThreadTerminalMonitor._fingerprint also tells a loaded thread from one  *)
(* that is not, and a running turn; 0 is kept for "no state file".         *)
MonitorFp == 1 + (4 * user.n) + (IF ChildBusy THEN 2 ELSE 0) + (IF user.cold THEN 1 ELSE 0)

-----------------------------------------------------------------------------
(* Worker steps.  Go(r, f) moves worker r and sets its local variables.    *)

Go(r, f)    == w' = [w EXCEPT ![r] = f]
To(r, pc)   == [w[r] EXCEPT !.pc = pc]
Out(r, pc, out) == [w[r] EXCEPT !.pc = pc, !.out = out]
At(r, pc)   == w[r].pc = pc

(* run_once: a due heartbeat whose target is in flight, or that finds the  *)
(* pool full, is recorded as deferred; the others go to the executor.      *)
InPool(p)   == {s \in RunIds : w[s].proc = p /\ w[s].pc \in Active}
Refused(r)  == \/ \E s \in InPool(w[r].proc) : Target(Beat(s)) = Target(Beat(r))
               \/ Cardinality(InPool(w[r].proc)) >= mix.cap

Submit(r) ==
    /\ At(r, "claimed")
    /\ IF Refused(r) THEN Go(r, Out(r, "refused", "deferred_busy"))
                     ELSE Go(r, To(r, "begin"))
    /\ UNCHANGED <<mix, row, run, proc, turn, user, seen, journal, queue, qlock, cmd, count, hist>>

(* Any call to the App Server, a probe or a file may raise: the handler of *)
(* the place the worker is at decides what is still done.                  *)
Fail(r) ==
    /\ w[r].pc \in {"begin", "observe", "read"}
    /\ Go(r, Out(r, IF At(r, "read") /\ Kind(Beat(r)) # "continue" THEN "settle" ELSE "record",
                 "failed"))
    /\ UNCHANGED <<mix, row, run, proc, turn, user, seen, journal, queue, qlock, cmd, count, hist>>

(* _execute_claim up to the wake, for each kind of heartbeat.              *)
BeginPrompt(r) ==
    /\ At(r, "begin") /\ Kind(Beat(r)) = "prompt"
    /\ Go(r, To(r, "read"))
    /\ UNCHANGED <<mix, row, run, proc, turn, user, seen, journal, queue, qlock, cmd, count, hist>>

BeginPlain(r) ==
    /\ At(r, "begin") /\ Kind(Beat(r)) = "plain"
    /\ \E out \in {"probe_thread_status", "workbench_probe_completed"} :
         Go(r, Out(r, "record", out))
    /\ UNCHANGED <<mix, row, run, proc, turn, user, seen, journal, queue, qlock, cmd, count, hist>>

BeginQuota(r) ==
    /\ At(r, "begin") /\ Kind(Beat(r)) = "quota"
    /\ \/ Go(r, Out(r, "record", "probe_thread_status"))    \* below the threshold
       \/ Go(r, To(r, "arm"))
    /\ UNCHANGED <<mix, row, run, proc, turn, user, seen, journal, queue, qlock, cmd, count, hist>>

Arm(r) ==
    /\ At(r, "arm")
    /\ IF MayArm(row[Beat(r)])
         THEN /\ row' = [row EXCEPT ![Beat(r)] = ArmedRow(row[Beat(r)], r)]
              /\ Go(r, To(r, "read"))
         ELSE /\ UNCHANGED row
              /\ Go(r, Out(r, "record", "failed"))
    /\ UNCHANGED <<mix, run, proc, turn, user, seen, journal, queue, qlock, cmd, count, hist>>

Inspect(r) ==
    /\ At(r, "begin") /\ Kind(Beat(r)) \in {"terminal", "continue"}
    /\ LET fp == IF Kind(Beat(r)) = "continue" /\ ~user.ok THEN 0 ELSE TerminalFp IN
       Go(r, [w[r] EXCEPT !.fp = fp, !.out = "probe_thread_status",
                          !.pc = IF Kind(Beat(r)) = "continue" THEN "observe"
                                 ELSE IF fp = 0 THEN "record" ELSE "claim"])
    /\ UNCHANGED <<mix, row, run, proc, turn, user, seen, journal, queue, qlock, cmd, count, hist>>

(* ThreadTerminalMonitor.observe saves the fingerprint every time; only a  *)
(* change, to a terminal state, after a baseline, is a terminal_changed.   *)
Observe(r) ==
    /\ At(r, "observe")
    /\ LET h == Beat(r)
           changed == seen[h] \notin {NoFile, MonitorFp} /\ TerminalFp # 0 IN
       /\ seen' = [seen EXCEPT ![h] = MonitorFp]
       /\ Go(r, [w[r] EXCEPT !.key = MonitorFp,
                             !.pc = IF changed /\ w[r].fp # 0 THEN "claim" ELSE "record"])
    /\ UNCHANGED <<mix, row, run, proc, turn, user, journal, queue, qlock, cmd, count, hist>>

(* claim_terminal_receipt; a continuation whose request id the journal     *)
(* already answers replays that answer.                                    *)
Replayed(h, key) == {e.status : e \in {x \in journal[h] : x.key = key}}

ClaimReceipt(r) ==
    /\ At(r, "claim")
    /\ LET h == Beat(r) IN
       IF ~MayClaimReceipt(row[h], w[r].fp)
         THEN UNCHANGED row /\ Go(r, To(r, "record"))
         ELSE /\ row' = [row EXCEPT ![h] = ClaimedReceiptRow(row[h], w[r].fp)]
              /\ IF Kind(h) = "continue" /\ Replayed(h, w[r].key) # {}
                   THEN \E s \in Replayed(h, w[r].key) : Go(r, Out(r, "settle", s))
                   ELSE Go(r, To(r, "read"))
    /\ UNCHANGED <<mix, run, proc, turn, user, seen, journal, queue, qlock, cmd, count, hist>>

-----------------------------------------------------------------------------
(* WakeController.wake and AppServerClient.run_existing_task.              *)

\* Mutant of Read: the thread is woken without a look at its status
Blind(r) ==
    /\ At(r, "read") /\ Go(r, To(r, "start"))
    /\ UNCHANGED <<mix, row, run, proc, turn, user, seen, journal, queue, qlock, cmd, count, hist>>

Read(r) ==
    /\ At(r, "read")
    /\ IF ThreadBusy(Wakes(Beat(r))) THEN Go(r, Out(r, "settle", "deferred_busy"))
                                     ELSE Go(r, To(r, "start"))
    /\ UNCHANGED <<mix, row, run, proc, turn, user, seen, journal, queue, qlock, cmd, count, hist>>

(* turn/start: it may fail, or start the turn and lose the response.       *)
Started(r) ==
    LET h == Beat(r) IN
    [hist EXCEPT !.woke = IF Kind(h) # "queue" THEN @
                          ELSE [i \in Items |-> @[i] + (IF i = w[r].item THEN 1 ELSE 0)],
                 !.cont = IF Kind(h) \in {"terminal", "continue"}
                            THEN @ \cup {<<h, w[r].fp, r>>} ELSE @]

StartTurn(r) ==
    /\ At(r, "start")
    /\ \/ UNCHANGED <<turn, hist>> /\ Go(r, Out(r, "settle", "failed"))
       \/ /\ turn' = [turn EXCEPT ![r] = "running"]
          /\ hist' = Started(r)
          /\ \/ Go(r, To(r, IF Kind(Beat(r)) \in {"prompt", "quota", "queue"}
                            THEN "note" ELSE "wait"))
             \/ Go(r, Out(r, "settle", "failed"))
    /\ UNCHANGED <<mix, row, run, proc, user, seen, journal, queue, qlock, cmd, count>>

(* record_inflight_turn; it raises when the run is already completed.      *)
NoteTurn(r) ==
    /\ At(r, "note")
    /\ IF run[r].done THEN UNCHANGED run /\ Go(r, Out(r, "settle", "failed"))
       ELSE run' = [run EXCEPT ![r].turn = TRUE] /\ Go(r, To(r, "wait"))
    /\ UNCHANGED <<mix, row, proc, turn, user, seen, journal, queue, qlock, cmd, count, hist>>

(* wait_for_turn_terminal and the read-back: the wait may time out or lose *)
(* the connection while the turn runs on.                                  *)
\* Mutant of WaitTurn: the turn's own status is handed on as the outcome
RawStatus(r) ==
    /\ At(r, "wait") /\ turn[r] # "running"
    /\ Go(r, Out(r, "settle", turn[r]))
    /\ UNCHANGED <<mix, row, run, proc, turn, user, seen, journal, queue, qlock, cmd, count, hist>>

WaitTurn(r) ==
    /\ At(r, "wait")
    /\ \/ turn[r] = "completed" /\ Go(r, Out(r, "settle", "turn_completed"))
       \/ Go(r, Out(r, "settle", "failed"))
    /\ UNCHANGED <<mix, row, run, proc, turn, user, seen, journal, queue, qlock, cmd, count, hist>>

-----------------------------------------------------------------------------
(* _execute_claim after the wake.                                          *)

Woken(r) == w[r].out = "turn_completed"

SettlePrompt(r) ==
    /\ At(r, "settle") /\ Kind(Beat(r)) = "prompt"
    /\ Go(r, To(r, "record"))
    /\ UNCHANGED <<mix, row, run, proc, turn, user, seen, journal, queue, qlock, cmd, count, hist>>

(* finish_trigger_handoff raises when the row no longer waits for this run.*)
SettleQuota(r) ==
    /\ At(r, "settle") /\ Kind(Beat(r)) = "quota"
    /\ LET h == Beat(r) IN
       IF ~MayFinishTrigger(row[h], r)
         THEN UNCHANGED <<row, hist>> /\ Go(r, Out(r, "record", "failed"))
         ELSE /\ row' = [row EXCEPT ![h] = FinishedTriggerRow(row[h], Woken(r))]
              /\ hist' = [hist EXCEPT !.handed = IF Woken(r) THEN @ \cup {h} ELSE @]
              /\ Go(r, Out(r, "record", IF Woken(r) THEN "probe_trigger_handoff" ELSE w[r].out))
    /\ UNCHANGED <<mix, run, proc, turn, user, seen, journal, queue, qlock, cmd, count>>

SettleTerminal(r) ==
    /\ At(r, "settle") /\ Kind(Beat(r)) = "terminal"
    /\ LET h == Beat(r) IN
       /\ row' = [row EXCEPT ![h] = FinishedReceiptRow(row[h], Woken(r))]
       /\ hist' = [hist EXCEPT !.cont = IF Woken(r) THEN @ ELSE {c \in @ : c[3] # r}]
       /\ Go(r, Out(r, "record",
                    IF Woken(r) THEN "parent_terminal_receipt_delivered" ELSE "failed"))
    /\ UNCHANGED <<mix, run, proc, turn, user, seen, journal, queue, qlock, cmd, count>>

(* resume_existing journals what ended or failed, never a busy thread.     *)
SettleContinue(r) ==
    /\ At(r, "settle") /\ Kind(Beat(r)) = "continue"
    /\ LET h == Beat(r) IN
       /\ journal' = [journal EXCEPT ![h] =
              IF w[r].out = "deferred_busy" THEN @
              ELSE @ \cup {[key |-> w[r].key, status |-> w[r].out]}]
       /\ row' = [row EXCEPT ![h] = FinishedReceiptRow(row[h], Woken(r))]
       /\ Go(r, Out(r, "record", IF Woken(r) THEN "terminal_continuation_completed"
                                             ELSE "failed"))
    /\ hist' = [hist EXCEPT !.cont = IF Woken(r) THEN @ ELSE {c \in @ : c[3] # r}]
    /\ UNCHANGED <<mix, run, proc, turn, user, seen, queue, qlock, cmd, count>>

-----------------------------------------------------------------------------
(* The master queue.  An item is "worked" when its worker has left a valid *)
(* terminal receipt, "spoiled" when the receipt does not validate.  The    *)
(* lock file excludes; one that its owner left behind makes every later    *)
(* attempt time out, because nothing removes it.                           *)

Own(h, sts) == {i \in Items : queue[i].by = h /\ queue[i].st \in sts}
Pending     == {i \in Items : queue[i].st = "pending"}
FirstOf(S)  == CHOOSE i \in S : \A j \in S : i <= j
Accepted(h) == [i \in Items |-> IF i \in Own(h, {"worked"})
                                THEN [queue[i] EXCEPT !.st = "completed"] ELSE queue[i]]

(* claim_or_observe: the first time, and again after a completed turn.     *)
BeginQueue(r) ==
    /\ At(r, "begin") /\ Kind(Beat(r)) = "queue"
    /\ LET h == Beat(r)
           quiet == IF Woken(r) THEN "queue_continuation_released" ELSE "queue_no_change_silent"
       IN
       IF qlock
         THEN UNCHANGED queue /\ Go(r, [Out(r, "record", "failed") EXCEPT !.snap = NoQueue])
       ELSE IF Own(h, {"claimed"}) # {}
         THEN UNCHANGED queue /\ Go(r, [Out(r, "record", quiet) EXCEPT !.snap = queue])
       ELSE IF Pending # {}
         THEN LET i == FirstOf(Pending)
                  q == [Accepted(h) EXCEPT ![i] = [st |-> "claimed", by |-> h, run |-> r,
                                                   woken |-> FALSE]]
              IN queue' = q /\ Go(r, [To(r, "read") EXCEPT !.item = i, !.snap = q])
       ELSE queue' = Accepted(h) /\ Go(r, [Out(r, "record", quiet) EXCEPT !.snap = Accepted(h)])
    /\ UNCHANGED <<mix, row, run, proc, turn, user, seen, journal, qlock, cmd, count, hist>>

(* mark_wake_started, then around the loop; or the claim is kept as it is. *)
\* Mutant of SettleQueue: a failed wake gives the item back
Released(r) ==
    /\ At(r, "settle") /\ Kind(Beat(r)) = "queue"
    /\ queue' = [queue EXCEPT ![w[r].item] = IF Woken(r) THEN [@ EXCEPT !.woken = TRUE]
                                                         ELSE NewItem]
    /\ Go(r, IF Woken(r) THEN To(r, "begin") ELSE Out(r, "record", "failed"))
    /\ UNCHANGED <<mix, row, run, proc, turn, user, seen, journal, qlock, cmd, count, hist>>

SettleQueue(r) ==
    /\ At(r, "settle") /\ Kind(Beat(r)) = "queue"
    /\ LET i == w[r].item IN
       IF ~Woken(r)
         THEN UNCHANGED queue /\ Go(r, Out(r, "record", "failed"))
       ELSE IF qlock \/ queue[i].by # Beat(r) \/ queue[i].run # r
         THEN UNCHANGED queue /\ Go(r, [Out(r, "record", "failed") EXCEPT !.snap = NoQueue])
       ELSE queue' = [queue EXCEPT ![i].woken = TRUE] /\ Go(r, To(r, "begin"))
    /\ UNCHANGED <<mix, row, run, proc, turn, user, seen, journal, qlock, cmd, count, hist>>

-----------------------------------------------------------------------------
(* The end of _execute_claim: record_run, the worker is gone.  A strict    *)
(* prompt that completed may have left any continuation receipt.           *)

Result(r, receipt, progress) ==
    LET h == Beat(r) IN
    [out |-> w[r].out, receipt |-> receipt, progress |-> progress, queue |-> w[r].snap,
     quiet |-> w[r].out = "queue_no_change_silent",
     same |-> row[h].quiet = w[r].snap /\ Own(h, {"worked", "completed"}) = {}]

ReceiptsLeft(r) ==
    IF Guarded(Kind(Beat(r)), mix.strict) /\ Woken(r)
      THEN {<<"none", 0>>, <<"AWAITING_DECISION", 0>>, <<"TERMINAL", 0>>,
            <<"CONTINUE_SAFE", 1>>, <<"CONTINUE_SAFE", 2>>}
      ELSE {<<"none", 0>>}

Record(r) ==
    /\ At(r, "record") \/ At(r, "refused")
    /\ \E left \in ReceiptsLeft(r) :
         row' = [row EXCEPT ![Beat(r)] =
                    RecordedRow(row[Beat(r)], Kind(Beat(r)), mix.strict,
                                Result(r, left[1], left[2]))]
    /\ run' = [run EXCEPT ![r].done = TRUE]
    /\ Go(r, [NoWork EXCEPT !.pc = "done"])
    /\ UNCHANGED <<mix, proc, turn, user, seen, journal, queue, qlock, cmd, count, hist>>

-----------------------------------------------------------------------------
(* The scheduler processes.                                                *)

(* HeartbeatService.__init__ recovers the handoffs in flight, before       *)
(* run_forever takes its PidLock: a second service recovers, then exits.   *)
(* The recovery's SELECT joins each row with its run.                      *)
RecoverRead(p) ==
    /\ ~proc[p].up /\ proc[p].pc = "idle" /\ (p = "service" \/ p \in mix.others)
    /\ proc' = [proc EXCEPT ![p] =
           [NoProc EXCEPT !.pc = "recover",
                          !.rec = {[beat |-> h, run |-> row[h].triggerRun,
                                    turn |-> run[row[h].triggerRun].turn] :
                                     h \in {g \in Beats : NeedsRecovery(row[g])}}]]
    /\ UNCHANGED <<mix, row, run, w, turn, user, seen, journal, queue, qlock, cmd, count, hist>>

(* Its UPDATEs, one transaction, go by heartbeat_id: a row that moved on   *)
(* since it was read is written over.                                      *)
RecoverWrite(p) ==
    /\ proc[p].pc = "recover"
    /\ row' = [h \in Beats |-> IF \E x \in proc[p].rec : x.beat = h
                                THEN RecoveredRow(row[h], \E x \in proc[p].rec : x.beat = h /\ x.turn)
                                ELSE row[h]]
    /\ run' = [r \in RunIds |-> IF \E x \in proc[p].rec : x.run = r
                                 THEN [run[r] EXCEPT !.done = TRUE] ELSE run[r]]
    /\ proc' = [proc EXCEPT ![p] = [NoProc EXCEPT !.pc = "lock"]]
    /\ UNCHANGED <<mix, w, turn, user, seen, journal, queue, qlock, cmd, count, hist>>

(* run_once begins at once; run_forever when no live service has the lock. *)
Begin(p) ==
    /\ proc[p].pc = "lock"
    /\ proc' = [proc EXCEPT ![p] =
           [NoProc EXCEPT !.up = (p = "once" \/ \A q \in Procs \ {"once"} : ~proc[q].up)]]
    /\ UNCHANGED <<mix, row, run, w, turn, user, seen, journal, queue, qlock, cmd, count, hist>>

(* claim_due's SELECTs; run_once has submitted all that it claimed before. *)
Due == {h \in Beats : IsDue(row[h])}
Select(p) ==
    /\ proc[p].up /\ proc[p].pc = "idle"
    /\ \A r \in RunIds : w[r].pc \in Waiting => w[r].proc # p
    /\ LET exp == {h \in Beats : IsExpired(row[h])} IN
       /\ Due \cup exp # {}
       /\ proc' = [proc EXCEPT ![p].pc = "write", ![p].sel = Due, ![p].exp = exp]
    /\ UNCHANGED <<mix, row, run, w, turn, user, seen, journal, queue, qlock, cmd, count, hist>>

(* claim_due's transaction: every selected row gets an inflight run, even  *)
(* one that is no longer ACTIVE.                                           *)
Numbering(S) == {f \in [S -> (count.claims + 1)..(count.claims + Cardinality(S))] :
                    \A g, h \in S : f[g] = f[h] => g = h}

Write(p) ==
    /\ proc[p].up /\ proc[p].pc = "write"
    /\ count.claims + Cardinality(proc[p].sel) <= mix.claims
    /\ row' = [h \in Beats |-> IF h \in proc[p].exp THEN ExpiredRow(row[h])
                                ELSE IF h \in proc[p].sel THEN AdvancedRow(row[h]) ELSE row[h]]
    /\ \E id \in Numbering(proc[p].sel) :
         LET new == {id[h] : h \in proc[p].sel}
             of(r) == CHOOSE h \in proc[p].sel : id[h] = r IN
         /\ run' = [r \in RunIds |-> IF r \in new THEN [NoRun EXCEPT !.beat = of(r)] ELSE run[r]]
         /\ w' = [r \in RunIds |-> IF r \in new THEN [NoWork EXCEPT !.pc = "claimed", !.proc = p]
                                   ELSE w[r]]
    /\ proc' = [proc EXCEPT ![p].pc = "idle", ![p].sel = {}, ![p].exp = {}]
    /\ count' = [count EXCEPT !.claims = @ + Cardinality(proc[p].sel)]
    /\ UNCHANGED <<mix, turn, user, seen, journal, queue, qlock, cmd, hist>>

(* A process dies: so do its workers, at any place; one that was between   *)
(* the creation and the removal of the queue's lock file leaves it behind. *)
Crash(p) ==
    /\ proc[p] # NoProc /\ count.crashes < mix.crashes
    /\ proc' = [proc EXCEPT ![p] = NoProc]
    /\ w' = [r \in RunIds |-> IF w[r].proc = p /\ w[r].pc \in Active \cup Waiting
                              THEN [NoWork EXCEPT !.pc = "dead"] ELSE w[r]]
    /\ \/ UNCHANGED qlock
       \/ /\ \E r \in RunIds : /\ w[r].proc = p /\ w[r].pc \in {"begin", "read", "settle", "record"}
                               /\ Kind(Beat(r)) = "queue"
          /\ qlock' = TRUE
    /\ count' = [count EXCEPT !.crashes = @ + 1]
    /\ UNCHANGED <<mix, row, run, turn, user, seen, journal, queue, cmd, hist>>

-----------------------------------------------------------------------------
(* The CLI: pause, resume, cancel, update and complete-delivery.           *)

Inflight(h) == \E r \in RunIds : run[r].beat = h /\ ~run[r].done
Wants == {"PAUSED", "ACTIVE", "CANCELLED", "update", "reactivate"}

CommandRead(h, want) ==
    /\ cmd.pc = "idle" /\ count.commands < mix.commands
    /\ IF want \in {"update", "reactivate"}
         THEN MayUpdate(row[h], Inflight(h), want = "reactivate")
         ELSE MaySet(row[h], want)
    /\ cmd' = [pc |-> "write", beat |-> h, want |-> want, seen |-> row[h]]
    /\ count' = [count EXCEPT !.commands = @ + 1]
    /\ UNCHANGED <<mix, row, run, proc, w, turn, user, seen, journal, queue, qlock, hist>>

(* The command's read and write span a change of the row, or for an update *)
(* of its runs; or the write falls between those of claim_due; or it makes *)
(* a row ACTIVE that has used its runs up, while one of them is at work.   *)
Raced(h) == \/ cmd.seen # row[h]
            \/ cmd.want \in {"update", "reactivate"} /\ Inflight(h)
            \/ \E p \in Procs : h \in proc[p].sel
            \/ /\ cmd.want \in {"ACTIVE", "reactivate"} /\ row[h].runs >= MaxRuns
               /\ \E r \in RunIds : Beat(r) = h /\ w[r].pc \in Waiting \cup Active

CommandWrite ==
    /\ cmd.pc = "write"
    /\ LET h == cmd.beat
           updates == cmd.want \in {"update", "reactivate"}
       IN
       /\ row' = [row EXCEPT ![h] =
              IF updates THEN UpdatedRow(row[h], cmd.seen, Kind(h), cmd.want = "reactivate")
                         ELSE SetRow(row[h], cmd.seen, cmd.want)]
       /\ hist' = [hist EXCEPT !.handed = IF updates THEN @ \ {h} ELSE @,
                               !.raced = @ \/ Raced(h)]
    /\ cmd' = NoCommand
    /\ UNCHANGED <<mix, run, proc, w, turn, user, seen, journal, queue, qlock, count>>

CompleteDelivery(h) ==
    /\ count.commands < mix.commands /\ MayDeliver(row[h])
    /\ row' = [row EXCEPT ![h] = DeliveredRow(row[h])]
    /\ count' = [count EXCEPT !.commands = @ + 1]
    /\ UNCHANGED <<mix, run, proc, w, turn, user, seen, journal, queue, qlock, cmd, hist>>

-----------------------------------------------------------------------------
(* The environment: time, the user, the App Server and the queue's workers.*)

Tick(h) ==
    /\ row[h].status = "ACTIVE"
    /\ \/ row[h].next = "later" /\ row' = [row EXCEPT ![h].next = "due"]
       \/ mix.expires /\ ~row[h].expired /\ row' = [row EXCEPT ![h].expired = TRUE]
    /\ UNCHANGED <<mix, run, proc, w, turn, user, seen, journal, queue, qlock, cmd, count, hist>>

Observed == \E h \in Beats : Kind(h) \in {"terminal", "continue"}

UserTurn ==
    /\ Observed
    /\ \/ /\ ~ChildBusy /\ count.user < mix.user
          /\ user' = [user EXCEPT !.busy = TRUE]
          /\ count' = [count EXCEPT !.user = @ + 1]
       \/ /\ user.busy
          /\ \E ok \in BOOLEAN : user' = [user EXCEPT !.busy = FALSE, !.n = @ + 1, !.ok = ok]
          /\ UNCHANGED count
       \/ /\ \E h \in Beats : Kind(h) = "continue"
          /\ user' = [user EXCEPT !.cold = ~@]
          /\ UNCHANGED count
    /\ UNCHANGED <<mix, row, run, proc, w, turn, seen, journal, queue, qlock, cmd, hist>>

TurnEnds(r) ==
    /\ turn[r] = "running"
    /\ \E result \in {"completed", "failed"} :
         /\ turn' = [turn EXCEPT ![r] = result]
         /\ user' = IF Observed /\ Wakes(Beat(r)) = <<"target", 0>>
                      THEN [user EXCEPT !.n = @ + 1, !.ok = (result = "completed")] ELSE user
    /\ UNCHANGED <<mix, row, run, proc, w, seen, journal, queue, qlock, cmd, count, hist>>

WorkerEnds(i) ==
    /\ queue[i].st = "claimed"
    /\ \E st \in {"worked", "spoiled"} : queue' = [queue EXCEPT ![i].st = st]
    /\ UNCHANGED <<mix, row, run, proc, w, turn, user, seen, journal, qlock, cmd, count, hist>>

-----------------------------------------------------------------------------
WorkerStep(r) ==
    \/ Submit(r) \/ Fail(r) \/ BeginPrompt(r) \/ BeginPlain(r) \/ BeginQuota(r)
    \/ BeginQueue(r) \/ Arm(r) \/ Inspect(r) \/ Observe(r) \/ ClaimReceipt(r)
    \/ Read(r) \/ StartTurn(r) \/ NoteTurn(r) \/ WaitTurn(r) \/ SettlePrompt(r)
    \/ SettleQuota(r) \/ SettleTerminal(r) \/ SettleContinue(r) \/ SettleQueue(r)
    \/ Record(r)

Next ==
    \/ \E r \in RunIds : WorkerStep(r) \/ TurnEnds(r)
    \/ \E p \in Procs : \/ RecoverRead(p) \/ RecoverWrite(p) \/ Begin(p)
                        \/ Select(p) \/ Write(p) \/ Crash(p)
    \/ CommandWrite \/ UserTurn
    \/ \E h \in Beats : Tick(h) \/ CompleteDelivery(h)
    \/ \E h \in Beats, want \in Wants : CommandRead(h, want)
    \/ \E i \in Items : WorkerEnds(i)

(* Threads of a running process are scheduled, and every wait of a worker  *)
(* has a timeout.  Nothing is assumed of the scheduler's own loop.         *)
Fairness == \A r \in RunIds : WF_vars(WorkerStep(r))

Spec == Init /\ [][Next]_vars /\ Fairness

-----------------------------------------------------------------------------
(* Types.                                                                  *)

Snaps   == [Items -> [st: {"pending", "claimed", "worked", "spoiled", "completed"},
                      by: Beats \cup {0}, run: RunIds \cup {0}, woken: BOOLEAN]]
ASSUME NoQueueConstant == NoQueue \notin Snaps

Rows    == [status: Statuses, next: {"none", "later", "due"}, expired: BOOLEAN,
            runs: Nat, fails: Nat, trigger: Triggers, triggerRun: RunIds \cup {0},
            fp: Nat, receipt: Receipts, progress: Nat, unchanged: Nat,
            quiet: Snaps \cup {NoQueue}, alert: BOOLEAN]
Runs    == [beat: Beats \cup {0}, done: BOOLEAN, turn: BOOLEAN]
Workers == [pc: Places, proc: Procs, out: Outcomes \cup {""}, fp: Nat, key: Nat,
            item: Items \cup {0}, snap: Snaps \cup {NoQueue}]
Reads   == [beat: Beats, run: RunIds \cup {0}, turn: BOOLEAN]
Entries == [key: Nat, status: {"turn_completed", "failed"}]

TypeOK ==
    /\ mix \in Mixes
    /\ row \in [Beats -> Rows]
    /\ run \in [RunIds -> Runs]
    /\ proc \in [Procs -> [up: BOOLEAN, pc: {"idle", "recover", "lock", "write"},
                           sel: SUBSET Beats, exp: SUBSET Beats, rec: SUBSET Reads]]
    /\ w \in [RunIds -> Workers]
    /\ turn \in [RunIds -> {"none", "running", "completed", "failed"}]
    /\ user \in [n: Nat, busy: BOOLEAN, ok: BOOLEAN, cold: BOOLEAN]
    /\ seen \in [Beats -> Nat]
    /\ journal \in [Beats -> SUBSET Entries]
    /\ queue \in Snaps
    /\ qlock \in BOOLEAN
    /\ cmd \in [pc: {"idle", "write"}, beat: Beats \cup {0}, want: Wants \cup {""}, seen: Rows]
    /\ count \in [claims: 0..MaxClaims, crashes: Nat, commands: Nat, user: Nat]
    /\ hist \in [woke: [Items -> Nat], cont: SUBSET (Beats \X Nat \X RunIds),
                 handed: SUBSET Beats, raced: BOOLEAN]

-----------------------------------------------------------------------------
(* Properties.                                                             *)

(* run_count never passes max_runs, although runs of a heartbeat overlap,  *)
(* are deferred, die and are recorded late, unless a CLI command raced.    *)
WithinMaxRuns == hist.raced \/ \A h \in Beats : row[h].runs <= MaxRuns

(* One process: a heartbeat never starts a turn in a thread where another  *)
(* heartbeat's turn runs, also after a crash left that turn running.       *)
OneTurnPerTarget ==
    mix.others # {} \/ \A h \in Beats : Cardinality(Running(<<"target", Target(h)>>)) <= 1

(* One process: a row that awaits the delivery of its notification names a *)
(* run of its own whose turn is on record, over every crash and recovery,  *)
(* unless a CLI command raced.  (Beside a second process it need not: that *)
(* one's recovery writes over a handoff the worker has given up meanwhile.)*)
PendingDeliveryHasTurn ==
    mix.others # {} \/ hist.raced \/ \A h \in Beats : row[h].trigger = "handoff_pending_delivery" =>
        row[h].triggerRun # 0 /\ run[row[h].triggerRun].turn
        /\ run[row[h].triggerRun].beat = h

(* One process: an ACTIVE heartbeat without a next run is parked for a     *)
(* reason on record: a handoff, a delivered receipt, a raised alert, or a  *)
(* run that is not recorded yet; again unless a CLI command raced.         *)
ParkedForAReason ==
    mix.others # {} \/ hist.raced \/ \A h \in Beats : (row[h].status = "ACTIVE" /\ row[h].next = "none") =>
        \/ row[h].trigger \in {"handoff_inflight", "handoff_pending_delivery"}
        \/ row[h].receipt = "delivered" \/ row[h].alert \/ Inflight(h)

(* A queue item is woken at most once, whatever crashes or fails after the *)
(* claim, and a heartbeat has at most one item out.                        *)
ItemWokenOnce ==
    /\ \A i \in Items : hist.woke[i] <= 1
    /\ \A h \in Beats : Cardinality(Own(h, {"claimed"})) <= 1

(* One process: a terminal state of the observed thread wakes the parent,  *)
(* or continues the thread, at most once, over a crash and whatever the    *)
(* monitor sees change, as long as the wake was not reported as failed.    *)
ReceiptOnce ==
    mix.others # {} \/ \A c, d \in hist.cont : (c[1] = d[1] /\ c[2] = d[2]) => c[3] = d[3]

(* One process: after a completed handoff no further trigger turn is       *)
(* started, whatever crashes or races, until the heartbeat is updated.     *)
TriggerOnce ==
    [][\A r \in RunIds : (/\ turn[r] # "running" /\ turn'[r] = "running"
                          /\ Kind(Beat(r)) = "quota" /\ mix.others = {})
            => Beat(r) \notin hist.handed]_vars

(* The completion of a run in flight never revives a heartbeat that was    *)
(* cancelled, completed or failed in the meantime.                         *)
NoRevivalByRun ==
    [][\A r \in RunIds, h \in Beats : (w[r].pc \in Waiting \cup Active /\ w'[r] # w[r] /\ row[h].status \in Terminal)
            => row'[h].status = row[h].status]_vars

(* A handoff in flight is settled by its worker, or by the recovery of the *)
(* next service; without CLI commands, because a row that was paused at    *)
(* the crash and resumed after it is not recovered; and without a crash    *)
(* beside a second process, because the survivor does not recover again.   *)
HandoffSettles ==
    \A h \in Beats :
        (row[h].trigger = "handoff_inflight" /\ mix.commands = 0 /\ (mix.others # {} => mix.crashes = 0))
            ~> (row[h].trigger # "handoff_inflight" \/ \A p \in Procs : ~proc[p].up)
=============================================================================
