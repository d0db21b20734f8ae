--------------------------------- MODULE Loop ---------------------------------
(***************************************************************************)
(* One loop: LoopController (jarvis_control/loop.py) run by two processes, *)
(* the MCP server and the local heartbeat host, over the loop's state file *)
(* (LoopStore), and the row of the local heartbeat that ticks the loop     *)
(* (jarvis_runtime/jarvis_local_heartbeat.py).                             *)
(*                                                                         *)
(* An operation loads the state, works on its copy between calls to the    *)
(* Hold, Monitor and Heartbeat ports, and saves the copy, which the store  *)
(* merges with what another process has saved.  The calls of one kind that *)
(* an operation makes for its children in turn, start's Holds and what a   *)
(* cleanup asks and reads of them, are one step: a Hold's release is final *)
(* and nobody else reads the copy.  The other calls have steps of their    *)
(* own.  The Holds belong to their Host (module HoldLifecycle): here a     *)
(* Hold runs turns, ends and is released.                                  *)
(*                                                                         *)
(* Prompts, titles, notifications and the receipts' wording are left out.  *)
(***************************************************************************)
EXTENDS Integers, FiniteSets

CONSTANTS
    Slots,          \* the loop's threads
    MaxRounds,      \* max_rounds, or the batches of each thread's lane
    PerThread,      \* turns_per_thread of a rotating loop
    MaxRuns,        \* max_runs of the loop's heartbeat
    Mixes           \* the configurations a behaviour may have, see MixType

(* mode: rotating (turns_per_thread), holder (auto_continue alone) or      *)
(* manual; expires: whether expires_at may pass; ticks: whether the loop's *)
(* heartbeat becomes due.  Bounds: ops and commands, which operations the  *)
(* MCP server runs beside start and how many; crashes, processes that die; *)
(* failures, calls of the ports that fail (close_hold's come besides).     *)
MixType == [slots: SUBSET Slots \ {{}}, mode: {"rotating", "holder", "manual"},
            expires: BOOLEAN, ops: SUBSET {"status", "stop", "close"}, commands: Nat,
            crashes: Nat, failures: Nat, ticks: BOOLEAN]

ASSUME LoopConstants ==
    /\ IsFiniteSet(Slots) /\ Slots \subseteq Nat
    /\ MaxRounds \in Nat \ {0} /\ PerThread \in Nat \ {0} /\ MaxRuns \in Nat \ {0}
    /\ Mixes \subseteq MixType

VARIABLES
    mix,        \* the configuration of this behaviour
    store,      \* state.json
    proc,       \* each process: its operation, its copy of the state
    hold,       \* the Holds of each slot, by the rounds done before them
    beat,       \* the heartbeat's row
    env         \* expires_at has passed; bounded events

vars == <<mix, store, proc, hold, beat, env>>

Procs == {"mcp", "host"}
Offsets == 0..(MaxRounds - 1)
NoHold == -1                   \* a child whose Hold was refused
Ended == {"blocked", "completed", "stopped", "expired"}
Smaller(m, n) == IF m < n THEN m ELSE n
Larger(m, n) == IF m > n THEN m ELSE n

(* done: completed_rounds; rel: the last receipt shows a terminal Hold     *)
(* that is released and confirmed.  named: the state names a heartbeat.    *)
NewChild == [hold |-> NoHold, done |-> 0, round |-> 0, phase |-> "acquiring",
               ok |-> FALSE, rel |-> FALSE]
NoCleanup == [on |-> FALSE, target |-> "", done |-> FALSE, beat |-> FALSE]
NewCleanup(target) == [on |-> TRUE, target |-> target, done |-> FALSE, beat |-> FALSE]
NoClose == [on |-> FALSE, report |-> "pending", child |-> [s \in Slots |-> [o \in Offsets |-> "none"]]]
NoState == [on |-> FALSE, named |-> FALSE, status |-> "acquiring", children |-> [s \in Slots |-> NewChild],
               cleanup |-> NoCleanup, close |-> NoClose]
NoBeat == [st |-> "none", next |-> "none", runs |-> 0, fails |-> 0]
Idle == [up |-> TRUE, pc |-> "idle", op |-> "", st |-> NoState, todo |-> {},
               changed |-> FALSE, target |-> "", won |-> FALSE, row |-> NoBeat]
NotStarted == [st |-> "none", turns |-> 0, rel |-> FALSE, bound |-> FALSE]

Init ==
    /\ mix \in Mixes
    /\ store = NoState
    /\ proc = [p \in Procs |-> Idle]
    /\ hold = [s \in Slots |-> [o \in Offsets |-> NotStarted]]
    /\ beat = NoBeat
    /\ env = [expired |-> FALSE, commands |-> 0, crashes |-> 0, failures |-> 0]

-----------------------------------------------------------------------------
(* The state's own rules.                                                  *)

Automatic == mix.mode # "manual"
\* Mutant of Budget: the last Hold of a thread is not cut to what is left.
Uncapped(o) == CASE mix.mode = "rotating" -> PerThread
                 [] mix.mode = "holder" -> MaxRounds - o
                 [] OTHER -> 1

Budget(o) == CASE mix.mode = "rotating" -> Smaller(PerThread, MaxRounds - o)
               [] mix.mode = "holder"   -> MaxRounds - o
               [] OTHER                 -> 1

Held(st) == {s \in mix.slots : st.children[s].hold # NoHold}
Finished(c) == c.phase \in {"completed", "blocked"}
AllDone(st) == \A s \in mix.slots : Finished(st.children[s])
Evidence(st) == \A s \in Held(st) : st.children[s].rel
HoldOf(st, s) == hold[s][st.children[s].hold]

Refreshed(st) ==
    LET phases == {st.children[s].phase : s \in mix.slots} IN
    IF st.status = "blocked" THEN st
    ELSE [st EXCEPT !.status = IF "terminal" \in phases THEN "resume_pending"
                               ELSE IF "acquiring" \in phases THEN "acquiring" ELSE "running"]

(* _aggregate_close_reports.  A child's report is pending, failed, managed *)
(* (nothing runs for it here any more, unconfirmed) or completed.          *)
ReportOf(st, s) == st.close.child[s][st.children[s].hold]

Aggregated(st) ==
    LET reports == {ReportOf(st, s) : s \in Held(st)}
        managed == reports \subseteq {"managed", "completed"}
        complete == reports \subseteq {"completed"}
    IN
    IF reports = {} \/ "none" \in reports \/ ~st.cleanup.beat THEN st
    ELSE [st EXCEPT
            !.close.report = IF "failed" \in reports THEN "failed"
                             ELSE IF complete THEN "completed"
                             ELSE IF managed THEN "unresolved" ELSE "pending",
            !.cleanup.done = @ \/ complete,
            !.status = IF complete THEN st.cleanup.target
                       ELSE IF managed THEN "closed_unconfirmed" ELSE @]

(* record_child_close: the owners' reports of children whose Holds are in  *)
(* the state; the first completed report of a child is the last.           *)
WithReports(st, bound, report) ==
    LET new == {s \in DOMAIN report : /\ st.close.on /\ st.children[s].hold = bound[s]
                                      /\ ReportOf(st, s) # "completed"}
    IN IF new = {} THEN st
       ELSE Aggregated([st EXCEPT
              !.close.child = [s \in Slots |-> IF s \in new
                                 THEN [st.close.child[s] EXCEPT ![bound[s]] = report[s]]
                                 ELSE st.close.child[s]],
              !.children = [s \in Slots |-> IF s \in new
                              THEN [@[s] EXCEPT !.rel = report[s] = "completed"] ELSE @[s]]])

(* LoopStore.save: an intent that is on record is not undone by a copy     *)
(* that was loaded before it; then the copy becomes what is on record.     *)
\* Mutant of Loses: only a cleanup is protected, not the intent to close.
CleanupOnly(latest, copy) ==
    latest.cleanup.on /\ (~copy.cleanup.on \/ latest.cleanup.target # copy.cleanup.target)

Loses(latest, copy) ==
    \/ /\ latest.cleanup.on
       /\ \/ ~copy.cleanup.on \/ latest.cleanup.target # copy.cleanup.target
          \/ latest.cleanup.done /\ ~copy.cleanup.done /\ Evidence(latest)
    \/ latest.close.on /\ ~copy.close.on

Merged(latest, copy) ==
    IF ~latest.on THEN copy
    ELSE IF Loses(latest, copy) THEN latest
    ELSE IF ~latest.close.on \/ latest.close.child = NoClose.child THEN copy
    ELSE LET st == [copy EXCEPT !.close.child = latest.close.child] IN
         Aggregated([st EXCEPT !.children = [s \in Slots |->
             IF s \in Held(st) /\ ReportOf(st, s) # "none"
               THEN [st.children[s] EXCEPT !.rel = ReportOf(st, s) = "completed"]
               ELSE st.children[s]]])

-----------------------------------------------------------------------------
(* Operations.                                                             *)

At(p, pc) == proc[p].up /\ proc[p].pc = pc
Go(p, f) == proc' = [proc EXCEPT ![p] = f]
Doing(op, pc, st) == [Idle EXCEPT !.op = op, !.pc = pc, !.st = st]
Do(p, pc, st) == Doing(proc[p].op, pc, st)
(* _finish begins: the loop is to end as `target'. *)
Latching(op, st, target) == [Doing(op, "latch", st) EXCEPT !.target = target]
(* The end of an operation: a tick of the heartbeat is still recorded, as  *)
(* a success when the loop goes on or has completed.                       *)
Succeeds(st) == st.on /\ st.status \in {"acquiring", "running", "ending", "completed"}
Over(op, st) == IF op = "beat" THEN [Idle EXCEPT !.pc = "recording", !.won = Succeeds(st)]
                               ELSE Idle

(* A call of a port that fails, unless it goes through.                    *)
Call(fails) == IF fails THEN /\ env.failures < mix.failures
                             /\ env' = [env EXCEPT !.failures = @ + 1]
                        ELSE UNCHANGED env

(* runtime.hold: the Hold is queued, or refused.  A Hold with this key     *)
(* that is there already is answered again.                                *)
Queued(h) == IF h.st = "none" THEN [h EXCEPT !.st = "running"] ELSE h
Acquired(c, o, accepted) ==
    [c EXCEPT !.done = o, !.hold = IF accepted THEN o ELSE NoHold,
              !.phase = IF accepted THEN "acquiring" ELSE "blocked", !.rel = FALSE]

(* start, until it saves: nothing of it is on record before.  With every   *)
(* Hold refused, or its heartbeat not accepted, it ends as blocked.        *)
Start(p) ==
    /\ p = "mcp" /\ At(p, "idle") /\ ~store.on
    /\ \E got \in SUBSET mix.slots, created \in BOOLEAN :
         /\ Call(~created)
         /\ LET st == [NoState EXCEPT !.on = TRUE, !.named = got # {}, !.children = [s \in Slots |->
                           IF s \in mix.slots THEN Acquired(NewChild, 0, s \in got) ELSE NewChild]]
            IN
            /\ hold' = [s \in Slots |-> IF s \in got THEN [hold[s] EXCEPT ![0] = Queued(hold[s][0])]
                                                     ELSE hold[s]]
            /\ IF got = {} \/ ~created
                 THEN /\ Go(p, Latching(proc[p].op, [st EXCEPT !.status = "blocked"], "blocked"))
                      /\ UNCHANGED beat
                 ELSE /\ Go(p, Do(p, "create", st))
                      /\ beat' = IF beat.st # "none" THEN beat
                                 ELSE [NoBeat EXCEPT !.st = "ACTIVE", !.next = "later"]
    /\ UNCHANGED <<mix, store>>

(* _observe: every unfinished child's Hold is read.  A read that fails     *)
(* takes the place of the last receipt, and nothing more.                  *)
\* Mutant of Seen: each look at a Hold adds its turns to the rounds.
SeenAgain(c, h) == [c EXCEPT !.phase = IF h.st = "running" THEN "running" ELSE "terminal",
                             !.round = @ + h.turns]

Seen(c, h) ==
    IF Finished(c) \/ c.hold = NoHold THEN c
    ELSE IF h.st = "running"
      THEN [c EXCEPT !.phase = "running", !.rel = FALSE, !.round = IF @ = 0 THEN 1 ELSE @]
    ELSE [c EXCEPT !.phase = "terminal", !.ok = (h.st = "ok"), !.rel = h.rel,
                   !.round = IF Automatic THEN Larger(@, c.done + h.turns) ELSE @]

Unseen(c) == IF Finished(c) THEN c ELSE [c EXCEPT !.rel = FALSE]

Observed(st, unread) ==
    [st EXCEPT !.children = [s \in Slots |->
        IF s \in mix.slots /\ st.children[s].hold # NoHold
          THEN IF s \in unread THEN Unseen(st.children[s])
                                ELSE Seen(st.children[s], HoldOf(st, s))
          ELSE st.children[s]]]

Create(p) ==
    /\ At(p, "create")
    /\ \E unread \in SUBSET Held(proc[p].st) :
         Call(unread # {}) /\ store' = Refreshed(Observed(proc[p].st, unread))
    /\ Go(p, Idle)
    /\ UNCHANGED <<mix, hold, beat>>

(* status and tick, as far as the state that was loaded decides.           *)
Begun(op) ==
    IF ~store.on \/ store.status = "closed_unconfirmed" THEN Over(op, store)
    ELSE IF store.close.on /\ ~store.cleanup.on THEN Latching(op, store, "stopped")
    ELSE IF store.cleanup.on /\ ~(store.cleanup.done /\ Evidence(store))
      THEN Latching(op, store, store.cleanup.target)
    ELSE IF store.status \in Ended THEN Over(op, store)
    ELSE IF env.expired THEN Latching(op, store, "expired")
    ELSE Doing(op, "observe", store)

(* The host's tick selects the due row, and claims it whatever it has      *)
(* become; its reconcile looks at loops whose state on record is no end.   *)
Tick ==
    /\ At("host", "idle")
    /\ beat.st = "ACTIVE" /\ beat.next = "due" /\ beat.runs < MaxRuns /\ ~env.expired
    /\ Go("host", Doing("beat", "claim", NoState))
    /\ UNCHANGED <<mix, store, hold, beat, env>>

Claim ==
    /\ At("host", "claim")
    /\ beat' = [beat EXCEPT !.next = "later"]
    /\ Go("host", Begun("beat"))
    /\ UNCHANGED <<mix, store, hold, env>>

Commanded(op) ==
    /\ op \in mix.ops /\ env.commands < mix.commands
    /\ env' = [env EXCEPT !.commands = @ + 1]

Status(p) ==
    /\ At(p, "idle") /\ store.on
    /\ IF p = "host"
         THEN /\ store.status \notin Ended \cup {"closed_unconfirmed"}
              /\ UNCHANGED env
         ELSE Commanded("status")
    /\ Go(p, Begun("status"))
    /\ UNCHANGED <<mix, store, hold, beat>>

(* stop: what is on record is cleaned up, unless it has been.              *)
Stopping(op) ==
    IF store.cleanup.done /\ Evidence(store) THEN Idle
    ELSE Latching(op, store, IF store.cleanup.on THEN store.cleanup.target ELSE "stopped")

Stop ==
    /\ At("mcp", "idle") /\ store.on /\ Commanded("stop")
    /\ Go("mcp", Stopping("stop"))
    /\ UNCHANGED <<mix, store, hold, beat>>

(* close: the intent is saved first; after it the state is loaded again.   *)
(* A copy that lost its close to a completed cleanup fails on a KeyError.  *)
AfterIntent(st) ==
    IF st.status = "closed_unconfirmed" THEN Idle
    ELSE IF st.cleanup.done /\ Evidence(st)
      THEN IF st.close.on THEN Doing("close", "save", [st EXCEPT !.close.report = "completed"])
                          ELSE Idle
    ELSE Doing("close", "reload", st)

Close ==
    /\ At("mcp", "idle") /\ store.on /\ Commanded("close")
    /\ Go("mcp", IF store.close.report \in {"completed", "unresolved"} THEN AfterIntent(store)
                  ELSE Doing("close", "intent", [store EXCEPT !.close.on = TRUE]))
    /\ UNCHANGED <<mix, store, hold, beat>>

Intent ==
    /\ At("mcp", "intent")
    /\ store' = Merged(store, proc["mcp"].st)
    /\ Go("mcp", AfterIntent(store'))
    /\ UNCHANGED <<mix, hold, beat, env>>

Reload ==
    /\ At("mcp", "reload")
    /\ Go("mcp", Stopping("close"))
    /\ UNCHANGED <<mix, store, hold, beat, env>>

-----------------------------------------------------------------------------
(* Reconciliation of terminal children, and rotation.                      *)

Observe(p) ==
    /\ At(p, "observe")
    /\ \E unread \in SUBSET Held(proc[p].st) :
         LET st == Observed(proc[p].st, unread) IN
         /\ Call(unread # {})
         /\ Go(p, [Do(p, "reconcile", st) EXCEPT
                     !.todo = IF ~Automatic THEN {}
                              ELSE {s \in Held(st) : ~Finished(st.children[s])}])
    /\ UNCHANGED <<mix, store, hold, beat>>

Next1(p) == CHOOSE s \in proc[p].todo : \A t \in proc[p].todo : s <= t

(* A terminal child: its phase, when its lane's items verify or not.       *)
Judged(c, h, verified) ==
    LET ok == h.st = "ok"
        seen == [c EXCEPT !.ok = ok, !.rel = h.rel, !.round = Larger(@, c.done + h.turns)]
        quota == mix.mode = "rotating" /\ ok
    IN [seen EXCEPT !.phase =
          IF quota /\ ~h.rel THEN "terminal"
          ELSE IF (quota => h.turns = Budget(c.done)) /\ ok /\ verified
            THEN "completed" ELSE "blocked"]

Reconcile(p) ==
    /\ At(p, "reconcile") /\ proc[p].todo # {}
    /\ LET s == Next1(p)
           st == proc[p].st
           h == HoldOf(st, s)
           rest == proc[p].todo \ {s}
       IN
       \/ /\ Call(h.st # "running")               \* not terminal, or not read
          /\ Go(p, [proc[p] EXCEPT !.todo = rest])
       \/ /\ h.st # "running"
          /\ UNCHANGED env
          /\ \E verified \in BOOLEAN :
              LET c == Judged(st.children[s], h, verified)
                  f == [proc[p] EXCEPT !.st.children[s] = c]
              IN Go(p, IF mix.mode = "rotating" /\ c.phase = "completed" /\ c.round < MaxRounds
                         THEN [f EXCEPT !.pc = "rotate"]
                         ELSE [f EXCEPT !.todo = rest, !.changed = @ \/ c.phase # "terminal"])
    /\ UNCHANGED <<mix, store, hold, beat>>

(* Under the state's lock: what is on record may have been stopped.        *)
Stopped(latest) == latest.close.on \/ latest.cleanup.on

Rotate(p) ==
    /\ At(p, "rotate")
    /\ LET s == Next1(p)
           o == proc[p].st.children[s].round
       IN
       IF Stopped(store)
         THEN Go(p, Do(p, "save", store)) /\ UNCHANGED <<store, hold>>
         ELSE \E accepted \in BOOLEAN :
                LET st == [proc[p].st EXCEPT !.children[s] = Acquired(@, o, accepted)] IN
                /\ store' = st
                /\ hold' = IF accepted THEN [hold EXCEPT ![s][o] = Queued(@)] ELSE hold
                /\ Go(p, [proc[p] EXCEPT !.pc = "reconcile", !.st = st, !.todo = @ \ {s},
                                          !.changed = TRUE])
    /\ UNCHANGED <<mix, beat, env>>

(* The tick's verdict: the loop has ended, goes on, or has not changed.    *)
Finalized(c, verified) ==
    IF c.phase # "terminal" THEN c
    ELSE [c EXCEPT !.phase = IF c.ok /\ verified THEN "completed" ELSE "blocked"]

Settle(p) ==
    /\ At(p, "reconcile") /\ proc[p].todo = {}
    /\ \E verified \in SUBSET (IF Automatic THEN {} ELSE mix.slots) :
         LET st == IF Automatic THEN proc[p].st
                   ELSE [proc[p].st EXCEPT !.children =
                           [s \in Slots |-> Finalized(proc[p].st.children[s], s \in verified)]]
             target == IF \E s \in mix.slots : st.children[s].phase = "blocked"
                         THEN "blocked" ELSE "completed"
         IN Go(p, IF Automatic /\ ~proc[p].changed THEN Do(p, "save", st)
                  ELSE IF AllDone(st) THEN Latching(proc[p].op, st, target)
                  ELSE Do(p, "save", Refreshed(st)))
    /\ UNCHANGED <<mix, store, hold, beat, env>>

-----------------------------------------------------------------------------
(* _finish.                                                                *)

Latched(st, target) ==
    LET cleanup == IF ~st.cleanup.on THEN NewCleanup(target)
                   ELSE [st.cleanup EXCEPT !.done = @ /\ Evidence(st)]
    IN [st EXCEPT !.status = "ending", !.cleanup = cleanup]

(* A copy that lost to a close without a cleanup has none: the operation   *)
(* fails on it with a KeyError, which ends the host.                       *)
Latch(p) ==
    /\ At(p, "latch")
    /\ LET st == Merged(store, Latched(proc[p].st, proc[p].target)) IN
       /\ store' = st
       /\ Go(p, IF ~st.cleanup.on THEN [Idle EXCEPT !.up = p # "host"]
                ELSE IF st.cleanup.done THEN Do(p, "save", st)
                ELSE Do(p, "cancel", st))
    /\ UNCHANGED <<mix, hold, beat, env>>

Cancelled(row) == IF row.st = "ACTIVE" THEN [row EXCEPT !.st = "CANCELLED", !.next = "none"] ELSE row

(* LocalHeartbeatStore.cancel answers with a row that is an end and has no *)
(* next run, else it fails.                                                *)
Inactive(row) == row.st \notin {"none", "ACTIVE"} /\ row.next = "none"

(* The call may fail, or its answer be lost: then the cleanup stays        *)
(* pending, and the next operation cancels again.                          *)
Cancel(p) ==
    /\ At(p, "cancel")
    /\ LET st == proc[p].st
           needed == st.named /\ ~st.cleanup.beat
           answers == ~needed \/ Inactive(Cancelled(beat))
       IN \E over \in BOOLEAN :
            /\ over => answers
            /\ Call(answers /\ ~over)
            /\ \/ UNCHANGED beat /\ (over => ~needed)
               \/ needed /\ beat' = Cancelled(beat)
            /\ Go(p, Do(p, "drain", [st EXCEPT !.cleanup.beat = over]))
    /\ UNCHANGED <<mix, store, hold>>

(* The children's Holds are stopped, or closed; a close answers closed for *)
(* a released Hold, else closing or, once nothing here serves it any more, *)
(* closed unconfirmed.  close_hold itself reports the child; one that      *)
(* fails may have reported that it did.                                    *)
\* Mutant of Answers: a terminal Hold that still holds its thread is closed.
TerminalIsClosed(h) == IF h.st \in {"ok", "bad"} THEN {"completed"} ELSE {"pending", "managed"}
Answers(h) == IF h.rel THEN {"completed"} ELSE {"pending", "managed"}

(* What _finish concludes from the answers, which are of the Holds `held'. *)
Concluded(st, held, answer) ==
    LET released == st.cleanup.beat /\ \A s \in held : st.children[s].rel
        managed == st.cleanup.beat /\ \A s \in held : answer[s] \in {"completed", "managed"}
        report == IF \E s \in held : answer[s] = "failed" THEN "failed"
                  ELSE IF released THEN "completed"
                  ELSE IF managed THEN "unresolved" ELSE "pending"
    IN [st EXCEPT !.cleanup.done = @ \/ released,
                  !.close.report = IF st.close.on THEN report ELSE @,
                  !.status = IF st.close.on /\ managed /\ ~released THEN "closed_unconfirmed"
                             ELSE IF released THEN st.cleanup.target ELSE @]

Drain(p) ==
    /\ At(p, "drain")
    /\ LET st == proc[p].st
           held == Held(st)
           bound == [s \in held |-> st.children[s].hold]
       IN
       \E answer \in [held -> {"failed", "completed", "pending", "managed"}],
          told \in SUBSET held, unread \in SUBSET held :
         /\ \A s \in held : answer[s] \in IF st.close.on THEN {"failed"} \cup Answers(HoldOf(st, s))
                                     ELSE {"pending"}
         /\ told # {} => st.close.on /\ \A s \in told : answer[s] = "failed"
         /\ Call(unread # {}) /\ \A s \in unread : answer[s] # "failed"
         /\ LET read == {s \in held : answer[s] # "failed"}
                st1 == [st EXCEPT !.children = [s \in Slots |->
                          IF s \in held
                            THEN [@[s] EXCEPT !.rel = s \in read \ unread /\ HoldOf(st, s).rel]
                            ELSE @[s]]]
            IN
            /\ hold' = [s \in Slots |-> [o \in Offsets |->
                  IF s \in read /\ o = bound[s]
                    THEN [hold[s][o] EXCEPT !.bound = @ \/ st.close.on]
                    ELSE hold[s][o]]]
            /\ store' = IF st.close.on THEN WithReports(store, bound, [s \in read \cup told |-> answer[s]])
                                       ELSE store
            /\ Go(p, Do(p, "save", Concluded(st1, held, answer)))
    /\ UNCHANGED <<mix, beat>>

Save(p) ==
    /\ At(p, "save")
    /\ store' = Merged(store, proc[p].st)
    /\ Go(p, Over(proc[p].op, store'))
    /\ UNCHANGED <<mix, hold, beat, env>>

-----------------------------------------------------------------------------
(* LocalHeartbeatStore.record: the row is read on a connection of its own, *)
(* and written back whole.                                                 *)

\* Mutant of Recorded: a heartbeat that keeps failing goes on.
NeverFails(row, won) ==
    LET runs == row.runs + (IF won THEN 1 ELSE 0)
        over == row.st # "ACTIVE" \/ (won /\ runs >= MaxRuns)
    IN [row EXCEPT !.runs = runs, !.next = IF over THEN "none" ELSE @,
                   !.st = IF over /\ @ = "ACTIVE" THEN "COMPLETED" ELSE @]

Recorded(row, won) ==
    LET runs == row.runs + (IF won THEN 1 ELSE 0)
        fails == IF won THEN 0 ELSE row.fails + 1
        st == IF row.st = "ACTIVE" /\ won /\ runs >= MaxRuns THEN "COMPLETED"
              ELSE IF row.st = "ACTIVE" /\ fails >= 3 THEN "FAILED" ELSE row.st
    IN [row EXCEPT !.runs = runs, !.fails = fails, !.st = st,
                   !.next = IF st = "ACTIVE" THEN @ ELSE "none"]

ReadRow ==
    /\ At("host", "recording")
    /\ Go("host", [proc["host"] EXCEPT !.pc = "writing", !.row = beat])
    /\ UNCHANGED <<mix, store, hold, beat, env>>

WriteRow ==
    /\ At("host", "writing")
    /\ beat' = Recorded(proc["host"].row, proc["host"].won)
    /\ Go("host", Idle)
    /\ UNCHANGED <<mix, store, hold, env>>

-----------------------------------------------------------------------------
(* The environment: the Holds, time, and processes that die.               *)

HoldTurn(s, o) ==
    /\ hold[s][o].st = "running" /\ hold[s][o].turns < Budget(o)
    /\ \E st \in {"running", "ok"} :
         /\ st = "running" => hold[s][o].turns + 1 < Budget(o)
         /\ hold' = [hold EXCEPT ![s][o].turns = @ + 1, ![s][o].st = st]
    /\ UNCHANGED <<mix, store, proc, beat, env>>

(* A Hold fails, or is cancelled; a terminal one is released later.        *)
HoldEnds(s, o) ==
    /\ \/ hold[s][o].st = "running" /\ hold' = [hold EXCEPT ![s][o].st = "bad"]
       \/ /\ hold[s][o].st \in {"ok", "bad"} /\ ~hold[s][o].rel
          /\ hold' = [hold EXCEPT ![s][o].rel = TRUE]
    /\ UNCHANGED <<mix, store, proc, beat, env>>

(* The Hold Host reports a Hold that was closed for the loop: it has ended *)
(* its part in it, and the Hold is released or its execution unconfirmed.  *)
ChildReport(s, o) ==
    /\ hold[s][o].bound
    /\ LET report == IF hold[s][o].rel THEN "completed" ELSE "managed" IN
       store' = WithReports(store, [t \in {s} |-> o], [t \in {s} |-> report])
    /\ UNCHANGED <<mix, proc, hold, beat, env>>

Time ==
    /\ \/ /\ mix.ticks /\ beat.st = "ACTIVE" /\ beat.next = "later"
          /\ beat' = [beat EXCEPT !.next = "due"]
          /\ UNCHANGED env
       \/ mix.expires /\ ~env.expired /\ env' = [env EXCEPT !.expired = TRUE] /\ UNCHANGED beat
    /\ UNCHANGED <<mix, store, proc, hold>>

(* A process dies in an operation, also between a rotation's Hold and the  *)
(* state that names it; the MCP server and the host are started again.     *)
Crash(p) ==
    /\ proc[p].up /\ proc[p].pc # "idle" /\ env.crashes < mix.crashes
    /\ env' = [env EXCEPT !.crashes = @ + 1]
    /\ Go(p, [Idle EXCEPT !.up = p # "host"])
    /\ \/ UNCHANGED hold
       \/ /\ proc[p].pc = "rotate" /\ ~Stopped(store)
          /\ LET s == Next1(p) IN hold' = [hold EXCEPT ![s][proc[p].st.children[s].round] = Queued(@)]
    /\ UNCHANGED <<mix, store, beat>>

Restart ==
    /\ ~proc["host"].up
    /\ Go("host", Idle)
    /\ UNCHANGED <<mix, store, hold, beat, env>>

-----------------------------------------------------------------------------
Step(p) ==
    \/ Create(p) \/ Observe(p) \/ Reconcile(p) \/ Rotate(p) \/ Settle(p)
    \/ Latch(p) \/ Cancel(p) \/ Drain(p) \/ Save(p)

Next ==
    \/ \E p \in Procs : Start(p) \/ Status(p) \/ Step(p) \/ Crash(p)
    \/ Tick \/ Claim \/ Stop \/ Close \/ Intent \/ Reload \/ ReadRow \/ WriteRow \/ Time \/ Restart
    \/ \E s \in Slots, o \in Offsets : HoldTurn(s, o) \/ HoldEnds(s, o) \/ ChildReport(s, o)

(* The host's loop comes round, its calls return, and time passes.         *)
Fairness ==
    /\ WF_vars(Step("host") \/ Claim \/ ReadRow \/ WriteRow)
    /\ WF_vars(Time)
    /\ SF_vars(Tick)

Spec == Init /\ [][Next]_vars /\ Fairness

-----------------------------------------------------------------------------
(* Types.                                                                  *)

Statuses == Ended \cup {"acquiring", "running", "resume_pending", "ending", "closed_unconfirmed"}
Reports  == {"pending", "failed", "completed", "unresolved"}
Child    == [hold: Offsets \cup {NoHold}, done: Offsets, round: 0..MaxRounds, ok: BOOLEAN,
             phase: {"acquiring", "running", "terminal", "completed", "blocked"}, rel: BOOLEAN]
State    == [on: BOOLEAN, named: BOOLEAN, status: Statuses, children: [Slots -> Child],
             cleanup: [on: BOOLEAN, target: Ended \cup {""}, done: BOOLEAN, beat: BOOLEAN],
             close: [on: BOOLEAN, report: Reports,
                     child: [Slots -> [Offsets ->
                         {"none", "pending", "failed", "managed", "completed"}]]]]
Row      == [st: {"none", "ACTIVE", "CANCELLED", "COMPLETED", "FAILED"},
             next: {"none", "later", "due"}, runs: Nat, fails: Nat]
Places   == {"idle", "claim", "create", "intent", "reload", "observe", "reconcile", "rotate", "latch",
             "cancel", "drain", "save", "recording", "writing"}

TypeOK ==
    /\ mix \in Mixes
    /\ store \in State
    /\ proc \in [Procs -> [up: BOOLEAN, pc: Places, op: {"", "beat", "status", "stop", "close"},
                           st: State, todo: SUBSET Slots, changed: BOOLEAN,
                           target: Ended \cup {""}, won: BOOLEAN, row: Row]]
    /\ hold \in [Slots -> [Offsets -> [st: {"none", "running", "ok", "bad"}, turns: 0..MaxRounds,
                                      rel: BOOLEAN, bound: BOOLEAN]]]
    /\ beat \in Row
    /\ env \in [expired: BOOLEAN, commands: Nat, crashes: Nat, failures: Nat]

-----------------------------------------------------------------------------
(* Properties.                                                             *)

(* A stop is final: an intent on record, and what it ends in, is never     *)
(* undone by an operation that had loaded the state before, and no Hold is *)
(* started after it.                                                       *)
StopIsFinal ==
    [][/\ store.close.on => store'.close.on
       /\ store.cleanup.on => /\ store'.cleanup.on
                              /\ store'.cleanup.target = store.cleanup.target
       /\ Stopped(store) => \A s \in Slots, o \in Offsets :
             hold[s][o].st = "none" => hold'[s][o].st = "none"]_vars

(* A loop whose cleanup is reported completed has released every Hold that *)
(* its children name.                                                      *)
CleanupReleases ==
    store.cleanup.done /\ Evidence(store) => \A s \in Held(store) : HoldOf(store, s).rel

(* The Holds of a slot together never run more turns than max_rounds, or   *)
(* one batch of the lane twice, whatever is retried and reloaded.          *)
RoundsOnce ==
    \A s \in Slots, o \in Offsets :
        /\ o + hold[s][o].turns <= MaxRounds
        /\ \A q \in Offsets : (q < o /\ hold[s][o].st # "none") => q + hold[s][q].turns <= o

(* The violation run: "all terminal paths drain the same owned Holds": a   *)
(* loop that has been cleaned up leaves no Hold of its own unreleased.     *)
NoOrphan ==
    store.cleanup.done /\ Evidence(store) =>
        \A s \in Slots, o \in Offsets : hold[s][o].st # "running"

(* Once the loop has been cleaned up its heartbeat ends, also when the     *)
(* record of a tick overwrote the cancellation, as long as the host runs.  *)
HeartbeatEnds ==
    (store.on /\ store.cleanup.done) ~>
        (beat.st # "ACTIVE" \/ env.expired \/ ~proc["host"].up \/ ~mix.ticks)
=============================================================================
