--------------------------- MODULE Heartbeat_proofs ---------------------------
(***************************************************************************)
(* The heartbeat scheduler, proved for any heartbeats, queue items, runs   *)
(* and mixes: the types, that a handoff in flight names a run of its own,  *)
(* and that a run in flight revives no heartbeat that has ended.           *)
(***************************************************************************)
EXTENDS Heartbeat, TLAPS, WellFoundedInduction, FiniteSetTheorems

-----------------------------------------------------------------------------
(* The statements on one row.                                              *)

\* A result as record_run is told it
Results == [out: Outcomes \cup {""}, receipt: {"none", "AWAITING_DECISION", "TERMINAL", "CONTINUE_SAFE"},
            progress: Nat, queue: Snaps \cup {NoQueue}, quiet: BOOLEAN, same: BOOLEAN]

\* What a statement that is not about the trigger leaves of it
SameTrigger(x, y) == y.trigger = x.trigger /\ y.triggerRun = x.triggerRun

\* A new row
LEMMA NewRowTyped ==
    ASSUME NEW kind
    PROVE  /\ NewRow(kind) \in Rows
           /\ NewRow(kind).trigger \in {"not_applicable", "monitoring"}
           /\ NewRow(kind).triggerRun = 0 /\ NewRow(kind).status = "ACTIVE"
  BY DEF NewRow, Rows, Statuses, Terminal, Triggers, Receipts

\* update
LEMMA UpdatedTyped ==
    ASSUME NEW x \in Rows, NEW y \in Rows, NEW kind, NEW flag \in BOOLEAN
    PROVE  /\ UpdatedRow(x, y, kind, flag) \in Rows
           /\ UpdatedRow(x, y, kind, flag).trigger \in {"not_applicable", "monitoring"}
  <1>1. NewRow(kind).trigger \in {"not_applicable", "monitoring"} /\ NewRow(kind).triggerRun = 0
    BY NewRowTyped
  <1>2. NewRow(kind).trigger \in Triggers /\ 0 \in RunIds \cup {0} /\ 0 \in Nat
    BY <1>1 DEF Triggers
  <1>3. y.status \in Statuses /\ "ACTIVE" \in Statuses /\ y.next \in {"none", "later", "due"}
    BY ZenonT(30) DEF Rows, Statuses, Terminal
  <1>4. (IF flag THEN "ACTIVE" ELSE y.status) \in Statuses
    BY <1>3
  <1>5. (IF (IF flag THEN "ACTIVE" ELSE y.status) = "ACTIVE" THEN "later" ELSE y.next)
          \in {"none", "later", "due"}
    BY <1>3
  <1>6. UpdatedRow(x, y, kind, flag) \in Rows /\ UpdatedRow(x, y, kind, flag).trigger = NewRow(kind).trigger
    BY <1>1, <1>2, <1>4, <1>5, ZenonT(60) DEF UpdatedRow, Rows
  <1> QED  BY <1>1, <1>6

\* set_status
LEMMA SetTyped ==
    ASSUME NEW x \in Rows, NEW y \in Rows, NEW desired \in {"PAUSED", "ACTIVE", "CANCELLED"}
    PROVE  SetRow(x, y, desired) \in Rows /\ SameTrigger(x, SetRow(x, y, desired))
  <1>1. desired \in Statuses /\ y.next \in {"none", "later", "due"}
    BY ZenonT(30) DEF Rows, Statuses, Terminal
  <1>2. (IF desired = "ACTIVE" THEN "later" ELSE y.next) \in {"none", "later", "due"}
    BY <1>1
  <1> QED  BY <1>1, <1>2, ZenonT(60) DEF SetRow, Rows, SameTrigger

\* The statements of the trigger handoff
LEMMA HandoffTyped ==
    ASSUME NEW x \in Rows, NEW r \in RunIds, NEW flag \in BOOLEAN
    PROVE  /\ ArmedRow(x, r) \in Rows /\ ArmedRow(x, r).status = x.status
           /\ ArmedRow(x, r).trigger = "handoff_inflight" /\ ArmedRow(x, r).triggerRun = r
           /\ FinishedTriggerRow(x, flag) \in Rows /\ FinishedTriggerRow(x, flag).status = x.status
           /\ FinishedTriggerRow(x, flag).trigger = (IF flag THEN "handoff_pending_delivery" ELSE "monitoring")
           /\ flag => FinishedTriggerRow(x, flag).triggerRun = x.triggerRun
  <1>1. {"handoff_inflight", "handoff_pending_delivery", "monitoring"} \subseteq Triggers
    BY DEF Triggers
  <1>2. /\ ArmedRow(x, r) \in Rows /\ ArmedRow(x, r).status = x.status
        /\ ArmedRow(x, r).trigger = "handoff_inflight" /\ ArmedRow(x, r).triggerRun = r
    BY <1>1, ZenonT(30) DEF ArmedRow, Rows
  <1>5. CASE flag
    BY <1>1, <1>2, <1>5, ZenonT(30) DEF FinishedTriggerRow, Rows
  <1>6. CASE ~flag
    BY <1>1, <1>2, <1>6, ZenonT(30) DEF FinishedTriggerRow, Rows
  <1> QED  BY <1>5, <1>6

\* The recovery of a row, in whatever state it is by then
LEMMA RecoveredTyped ==
    ASSUME NEW x \in Rows, NEW flag \in BOOLEAN
    PROVE  /\ RecoveredRow(x, flag) \in Rows
           /\ RecoveredRow(x, flag).trigger = (IF flag THEN "handoff_pending_delivery" ELSE "monitoring")
           /\ flag => RecoveredRow(x, flag).triggerRun = x.triggerRun
  <1>1. {"handoff_inflight", "handoff_pending_delivery", "monitoring"} \subseteq Triggers
    BY DEF Triggers
  <1>2. x.fails + 1 \in Nat
    <2>1. x.fails \in Nat
      BY Zenon DEF Rows
    <2> QED  BY <2>1
  <1>3. CASE flag
    BY <1>1, <1>3, ZenonT(30) DEF RecoveredRow, Rows
  <1>4. CASE ~flag
    BY <1>1, <1>2, <1>4, ZenonT(30) DEF RecoveredRow, Rows
  <1> QED  BY <1>3, <1>4

\* complete-delivery
LEMMA DeliveredTyped ==
    ASSUME NEW x \in Rows
    PROVE  DeliveredRow(x) \in Rows /\ DeliveredRow(x).trigger = "delivered_cancelled"
  BY ZenonT(30) DEF DeliveredRow, Rows, Triggers, Statuses, Terminal

\* The statements of the terminal receipt, of claim_due, and of time
LEMMA ReceiptTyped ==
    ASSUME NEW x \in Rows, NEW fp \in Nat, NEW flag \in BOOLEAN
    PROVE  /\ ClaimedReceiptRow(x, fp) \in Rows /\ SameTrigger(x, ClaimedReceiptRow(x, fp))
           /\ ClaimedReceiptRow(x, fp).status = x.status
           /\ FinishedReceiptRow(x, flag) \in Rows /\ SameTrigger(x, FinishedReceiptRow(x, flag))
           /\ FinishedReceiptRow(x, flag).status = x.status
           /\ ExpiredRow(x) \in Rows /\ SameTrigger(x, ExpiredRow(x))
           /\ AdvancedRow(x) \in Rows /\ SameTrigger(x, AdvancedRow(x))
  <1>1. /\ ClaimedReceiptRow(x, fp) \in Rows /\ SameTrigger(x, ClaimedReceiptRow(x, fp))
        /\ ClaimedReceiptRow(x, fp).status = x.status
    BY ZenonT(30) DEF ClaimedReceiptRow, Rows, Receipts, SameTrigger
  <1>2. /\ FinishedReceiptRow(x, flag) \in Rows /\ SameTrigger(x, FinishedReceiptRow(x, flag))
        /\ FinishedReceiptRow(x, flag).status = x.status
    BY ZenonT(30) DEF FinishedReceiptRow, Rows, Receipts, SameTrigger
  <1>3. ExpiredRow(x) \in Rows /\ SameTrigger(x, ExpiredRow(x))
    BY ZenonT(30) DEF ExpiredRow, Rows, Statuses, Terminal, SameTrigger
  <1>4. AdvancedRow(x) \in Rows /\ SameTrigger(x, AdvancedRow(x))
    BY ZenonT(30) DEF AdvancedRow, Rows, SameTrigger
  <1> QED  BY <1>1, <1>2, <1>3, <1>4

\* record_run leaves the trigger alone, and a row that is no longer ACTIVE as it is
LEMMA RecordTyped ==
    ASSUME NEW x \in Rows, NEW kind, NEW strict \in BOOLEAN, NEW res \in Results
    PROVE  LET y == RecordedRow(x, kind, strict, res) IN
           y \in Rows /\ SameTrigger(x, y) /\ (x.status # "ACTIVE" => y = x)
  <1>1. CASE x.status # "ACTIVE"
    BY <1>1 DEF RecordedRow, SameTrigger
  <1>2. CASE x.status = "ACTIVE"
    <2>0. /\ x.fails \in Nat /\ x.unchanged \in Nat /\ x.runs \in Nat /\ x.progress \in Nat
          /\ x.quiet \in Snaps \cup {NoQueue} /\ x.alert \in BOOLEAN
          /\ res.progress \in Nat /\ res.queue \in Snaps \cup {NoQueue}
      BY ZenonT(30) DEF Rows, Results
    <2>1. NextFailures(x, kind, strict, res) \in Nat
      BY <2>0 DEF NextFailures
    <2>2. NextUnchanged(x, kind, strict, res) \in Nat
      BY <2>0 DEF NextUnchanged
    <2>3. NextRuns(x, kind, strict, res) \in Nat
      BY <2>0 DEF NextRuns
    <2>4. NextStatus(x, kind, strict, res) \in Statuses
      BY DEF NextStatus, ReportedStatus, Statuses, Terminal
    <2>5. NextEpoch(x, kind, strict, res) \in {"none", "later", "due"}
      BY DEF NextEpoch
    <2>6. (IF Guarded(kind, strict) /\ res.progress # 0 THEN res.progress ELSE x.progress) \in Nat
      BY <2>0
    <2>7. (IF res.queue = NoQueue THEN x.quiet ELSE IF res.quiet THEN res.queue ELSE NoQueue)
            \in Snaps \cup {NoQueue}
      BY <2>0
    <2>8. (IF res.queue = NoQueue THEN x.alert ELSE res.quiet /\ res.same) \in BOOLEAN
      BY <2>0
    <2> QED  BY <1>2, <2>1, <2>2, <2>3, <2>4, <2>5, <2>6, <2>7, <2>8, ZenonT(60) DEF RecordedRow, Rows, SameTrigger
  <1> QED  BY <1>1, <1>2

-----------------------------------------------------------------------------
(* The invariant.  A worker has a heartbeat, and is at "settle" with one   *)
(* of three outcomes; runs that were not claimed yet are blank; a quota    *)
(* worker that waits, or has a completed turn, has it on record.  A row    *)
(* whose handoff is in flight names a run of its own.                      *)

Ends == {"turn_completed", "failed", "deferred_busy"}

\* Where a worker has its turn on record, or a completed one
AtTurn(v) == v.pc = "wait" \/ (v.pc = "settle" /\ v.out = "turn_completed")

WorkInv ==
    /\ \A r \in RunIds : w[r].pc \in Active \cup Waiting => run[r].beat \in Beats
    /\ \A r \in RunIds : w[r].pc = "settle" => w[r].out \in Ends
    /\ \A r \in RunIds : r > count.claims => w[r].pc = "free" /\ run[r].beat = 0
    /\ \A r \in RunIds : (AtTurn(w[r]) /\ mix.kind[run[r].beat] = "quota") => run[r].turn
    /\ cmd.pc = "write" => cmd.beat \in Beats /\ cmd.want \in Wants

Open == {"handoff_inflight"}

\* A row whose handoff is open names a run of its own
Names(x, h, runs) == x.triggerRun \in RunIds /\ runs[x.triggerRun].beat = h

HandoffInv == \A h \in Beats : row[h].trigger \in Open => Names(row[h], h, run)

Inv == TypeOK /\ WorkInv /\ HandoffInv

\* The statuses a step may not touch
Kept == \A h \in Beats : row[h].status \in Terminal => row'[h].status = row[h].status

\* A claimed run stays its heartbeat's, and its turn on record
Gains == \A r \in RunIds : run[r].beat \in Beats =>
            run'[r].beat = run[r].beat /\ (run[r].turn => run'[r].turn)

\* A step that leaves a trigger alone, ends its handoff, or has what it names
Handed(h) == \/ SameTrigger(row[h], row'[h])
             \/ row'[h].trigger \notin Open
             \/ Names(row'[h], h, run')

\* What the constants and the types say of a configuration
LEMMA MixTyped ==
    ASSUME TypeOK
    PROVE  /\ \A h \in Beats : Kind(h) \in Kinds
           /\ mix.strict \in BOOLEAN /\ mix.claims \in 0..MaxClaims
           /\ MaxClaims \in Nat /\ 0 \notin Beats /\ Beats \subseteq Nat /\ Items \subseteq Nat
  <1>1. mix \in MixType
    BY HeartbeatConstants DEF TypeOK
  <1>2. mix.kind \in [Beats -> Kinds] /\ mix.strict \in BOOLEAN /\ mix.claims \in 0..MaxClaims
    BY <1>1, Zenon DEF MixType
  <1> QED  BY <1>2, HeartbeatConstants DEF Kind

\* The histories
Hists == [woke: [Items -> Nat], cont: SUBSET (Beats \X Nat \X RunIds),
          handed: SUBSET Beats, raced: BOOLEAN]

\* The parts of the history, and what the steps write in it
LEMMA HistTyped ==
    ASSUME TypeOK
    PROVE  /\ hist \in Hists
           /\ hist.woke \in [Items -> Nat] /\ hist.cont \in SUBSET (Beats \X Nat \X RunIds)
           /\ hist.handed \in SUBSET Beats /\ hist.raced \in BOOLEAN
           /\ \A woke \in [Items -> Nat], cont \in SUBSET (Beats \X Nat \X RunIds) :
                [hist EXCEPT !.woke = woke, !.cont = cont] \in Hists
           /\ \A cont \in SUBSET (Beats \X Nat \X RunIds) : [hist EXCEPT !.cont = cont] \in Hists
           /\ \A handed \in SUBSET Beats : [hist EXCEPT !.handed = handed] \in Hists
           /\ \A handed \in SUBSET Beats, raced \in BOOLEAN :
                [hist EXCEPT !.handed = handed, !.raced = raced] \in Hists
  <1>1. hist \in Hists
    BY DEF TypeOK, Hists
  <1>2. /\ hist.woke \in [Items -> Nat] /\ hist.cont \in SUBSET (Beats \X Nat \X RunIds)
        /\ hist.handed \in SUBSET Beats /\ hist.raced \in BOOLEAN
    BY <1>1, Zenon DEF Hists
  <1>3. ASSUME NEW woke \in [Items -> Nat], NEW cont \in SUBSET (Beats \X Nat \X RunIds)
        PROVE  [hist EXCEPT !.woke = woke, !.cont = cont] \in Hists
    BY <1>1, <1>2, Zenon DEF Hists
  <1>4. ASSUME NEW cont \in SUBSET (Beats \X Nat \X RunIds)
        PROVE  [hist EXCEPT !.cont = cont] \in Hists
    BY <1>1, <1>2, Zenon DEF Hists
  <1>5. ASSUME NEW handed \in SUBSET Beats
        PROVE  [hist EXCEPT !.handed = handed] \in Hists
    BY <1>1, <1>2, Zenon DEF Hists
  <1>6. ASSUME NEW handed \in SUBSET Beats, NEW raced \in BOOLEAN
        PROVE  [hist EXCEPT !.handed = handed, !.raced = raced] \in Hists
    BY <1>1, <1>2, Zenon DEF Hists
  <1> QED  BY <1>1, <1>2, <1>3, <1>4, <1>5, <1>6

-----------------------------------------------------------------------------
(* Steps of a worker.                                                      *)

\* Worker r goes on as v
Moves(r, v) ==
    /\ w[r].pc \in Active \cup Waiting
    /\ v \in Workers /\ w' = [w EXCEPT ![r] = v]
    /\ v.pc = "settle" => v.out \in Ends
    /\ (mix.kind[run[r].beat] = "quota" /\ AtTurn(v)) => run'[r].turn

\* The tables and files are as their types say
TablesTyped ==
    /\ row \in [Beats -> Rows] /\ run \in [RunIds -> Runs]
    /\ turn \in [RunIds -> {"none", "running", "completed", "failed"}]
    /\ seen \in [Beats -> Nat] /\ journal \in [Beats -> SUBSET Entries]
    /\ queue \in Snaps
    /\ hist \in Hists

\* The handoffs' part of the invariant, after any step
LEMMA HandoffKept ==
    ASSUME MaxClaims \in Nat, HandoffInv, Gains, \A h \in Beats : Handed(h)
    PROVE  HandoffInv'
  <1> SUFFICES ASSUME NEW h \in Beats, row'[h].trigger \in Open
               PROVE  Names(row'[h], h, run')
    BY DEF HandoffInv
  <1>1. CASE SameTrigger(row[h], row'[h])
    BY <1>1 DEF HandoffInv, Gains, Names, SameTrigger
  <1>2. CASE Names(row'[h], h, run')
    BY <1>2
  <1> QED  BY <1>1, <1>2 DEF Handed

\* A worker that moves on keeps the invariant
LEMMA WorkKept ==
    ASSUME Inv, NEW r \in RunIds, NEW v, Moves(r, v), TablesTyped',
           \A s \in RunIds : run'[s].beat = run[s].beat /\ (run[s].turn => run'[s].turn),
           \A h \in Beats : Handed(h),
           UNCHANGED <<mix, proc, user, qlock, cmd, count>>
    PROVE  Inv'
  <1>1. w' \in [RunIds -> Workers] /\ w'[r] = v /\ \A s \in RunIds : s # r => w'[s] = w[s]
    BY DEF TypeOK, Inv, Moves
  <1>2. run[r].beat \in Beats /\ ~(r > count.claims)
    <2>1. "free" \notin Active \cup Waiting
      BY DEF Active, Waiting
    <2> QED  BY <2>1 DEF WorkInv, Inv, Moves
  <1>3. \A s \in RunIds : w'[s].pc \in Active \cup Waiting => run'[s].beat \in Beats
    BY <1>1, <1>2 DEF WorkInv, Inv
  <1>4. \A s \in RunIds : w'[s].pc = "settle" => w'[s].out \in Ends
    BY <1>1 DEF WorkInv, Inv, Moves
  <1>5. \A s \in RunIds : s > count'.claims => w'[s].pc = "free" /\ run'[s].beat = 0
    BY <1>1, <1>2 DEF WorkInv, Inv
  <1>6. \A s \in RunIds : (mix'.kind[run'[s].beat] = "quota" /\ AtTurn(w'[s])) => run'[s].turn
    <2> TAKE s \in RunIds
    <2>1. CASE s = r
      BY <1>1, <2>1 DEF Moves
    <2>2. CASE s # r
      BY <1>1, <2>2 DEF WorkInv, Inv
    <2> QED  BY <2>1, <2>2
  <1>7. WorkInv'
    BY <1>3, <1>4, <1>5, <1>6 DEF WorkInv, Inv
  <1>8. TypeOK'
    BY <1>1 DEF TypeOK, Inv, TablesTyped, Hists
  <1>9. HandoffInv'
    BY HandoffKept, HeartbeatConstants DEF Inv, Gains
  <1> QED  BY <1>7, <1>8, <1>9 DEF Inv

\* Most moves leave the tables as they are
LEMMA OnlyMoves ==
    ASSUME Inv, NEW r \in RunIds, NEW v, Moves(r, v),
           UNCHANGED <<mix, row, run, proc, turn, user, seen, journal, queue, qlock, cmd, count, hist>>
    PROVE  Inv' /\ Kept
  <1>1. TablesTyped'
    BY DEF Inv, TypeOK, TablesTyped, Hists
  <1>2. \A h \in Beats : Handed(h)
    BY DEF Handed, SameTrigger
  <1>3. Kept
    BY DEF Kept
  <1> QED  BY <1>1, <1>2, <1>3, WorkKept

\* The moves that set the place, or the place and the outcome
LEMMA GoesOn ==
    ASSUME Inv, NEW r \in RunIds, w[r].pc \in Active \cup Waiting,
           NEW pc \in Places, NEW out \in Outcomes \cup {""},
           pc = "settle" => out \in Ends,
           (mix.kind[run[r].beat] = "quota" /\ (pc = "wait" \/ (pc = "settle" /\ out = "turn_completed")))
               => run'[r].turn
    PROVE  /\ w' = [w EXCEPT ![r] = Out(r, pc, out)] => Moves(r, Out(r, pc, out))
           /\ (out = w[r].out /\ w' = [w EXCEPT ![r] = To(r, pc)]) => Moves(r, To(r, pc))
  <1>1. w[r] \in Workers
    BY DEF Inv, TypeOK
  <1>2. /\ Out(r, pc, out) \in Workers /\ Out(r, pc, out).pc = pc /\ Out(r, pc, out).out = out
        /\ To(r, pc) \in Workers /\ To(r, pc).pc = pc /\ To(r, pc).out = w[r].out
    BY <1>1, ZenonT(30) DEF Out, To, Workers
  <1>3. ASSUME NEW v \in Workers, v.pc = pc, v.out = out, w' = [w EXCEPT ![r] = v]
        PROVE  Moves(r, v)
    BY <1>3 DEF Moves, AtTurn
  <1> QED  BY <1>2, <1>3

\* The places and outcomes that the steps name
LEMMA PlacesKnown ==
    /\ Active \cup Waiting \subseteq Places
    /\ {"free", "dead", "done"} \subseteq Places
    /\ {"begin", "arm", "observe", "claim", "read", "start", "note", "wait", "settle",
        "record"} = Active
    /\ {"claimed", "refused"} = Waiting
    /\ Ends \subseteq Outcomes
    /\ Successes \subseteq Outcomes
    /\ {"failed", "deferred_busy"} \subseteq Outcomes
    /\ {"probe_thread_status", "workbench_probe_completed", "turn_completed",
        "probe_trigger_handoff", "parent_terminal_receipt_delivered",
        "terminal_continuation_completed", "queue_continuation_released",
        "queue_no_change_silent"} = Successes
  BY DEF Active, Waiting, Places, Ends, Outcomes, Successes

\* What the invariant says of a worker
LEMMA Works ==
    ASSUME Inv, NEW r \in RunIds
    PROVE  /\ w[r] \in Workers /\ w[r].out \in Outcomes \cup {""} /\ w[r].fp \in Nat
           /\ w[r].key \in Nat /\ w[r].item \in Items \cup {0} /\ w[r].snap \in Snaps \cup {NoQueue}
           /\ run[r] \in Runs
           /\ w[r].pc \in Active \cup Waiting => Beat(r) \in Beats
           /\ w[r].pc = "settle" => w[r].out \in Ends
           /\ (Kind(Beat(r)) = "quota" /\ AtTurn(w[r])) => run[r].turn
  <1>1. w[r] \in Workers /\ run[r] \in Runs
    BY DEF Inv, TypeOK
  <1>2. /\ w[r].out \in Outcomes \cup {""} /\ w[r].fp \in Nat
        /\ w[r].key \in Nat /\ w[r].item \in Items \cup {0} /\ w[r].snap \in Snaps \cup {NoQueue}
    BY <1>1, ZenonT(30) DEF Workers
  <1> QED  BY <1>1, <1>2 DEF Inv, WorkInv, Beat, Kind

\* Steps that only move: to the executor, up to the wake, and the waits
LEMMA PlainSteps ==
    ASSUME Inv, NEW r \in RunIds,
           \/ Submit(r) \/ Fail(r) \/ BeginPrompt(r) \/ BeginPlain(r) \/ BeginQuota(r)
           \/ Read(r) \/ WaitTurn(r) \/ SettlePrompt(r)
    PROVE  Inv' /\ Kept
  <1> USE PlacesKnown, Works
  <1>1. CASE Submit(r)
    <2>1. w[r].pc \in Active \cup Waiting
      BY <1>1 DEF Submit, At
    <2>2. \E v : Moves(r, v)
      <3>1. CASE Refused(r)
        BY <1>1, <2>1, <3>1, GoesOn DEF Submit, Go
      <3>2. CASE ~Refused(r)
        BY <1>1, <2>1, <3>2, GoesOn DEF Submit, Go
      <3> QED  BY <3>1, <3>2
    <2> QED  BY <1>1, <2>2, OnlyMoves DEF Submit
  <1>2. CASE Fail(r)
    <2>1. w[r].pc \in Active \cup Waiting
      BY <1>2 DEF Fail
    <2>2. \E v : Moves(r, v)
      <3>1. CASE At(r, "read") /\ Kind(Beat(r)) # "continue"
        BY <1>2, <2>1, <3>1, GoesOn DEF Fail, Go, Ends
      <3>2. CASE ~(At(r, "read") /\ Kind(Beat(r)) # "continue")
        BY <1>2, <2>1, <3>2, GoesOn DEF Fail, Go, Ends
      <3> QED  BY <3>1, <3>2
    <2> QED  BY <1>2, <2>2, OnlyMoves DEF Fail
  <1>3. CASE BeginPrompt(r)
    <2>1. Moves(r, To(r, "read"))
      BY <1>3, GoesOn DEF BeginPrompt, Go, At
    <2> QED  BY <1>3, <2>1, OnlyMoves DEF BeginPrompt
  <1>4. CASE BeginPlain(r)
    <2>1. PICK out \in {"probe_thread_status", "workbench_probe_completed"} : Go(r, Out(r, "record", out))
      BY <1>4 DEF BeginPlain
    <2>2. Moves(r, Out(r, "record", out))
      BY <1>4, <2>1, GoesOn DEF BeginPlain, Go, At
    <2> QED  BY <1>4, <2>2, OnlyMoves DEF BeginPlain
  <1>5. CASE BeginQuota(r)
    <2>1. \E v : Moves(r, v)
      BY <1>5, GoesOn DEF BeginQuota, Go, At
    <2> QED  BY <1>5, <2>1, OnlyMoves DEF BeginQuota
  <1>6. CASE Read(r)
    <2>1. w[r].pc \in Active
      BY <1>6 DEF Read, At
    <2>2. \E v : Moves(r, v)
      <3>1. CASE ThreadBusy(Wakes(Beat(r)))
        BY <1>6, <2>1, <3>1, GoesOn DEF Read, Go, Ends
      <3>2. CASE ~ThreadBusy(Wakes(Beat(r)))
        BY <1>6, <2>1, <3>2, GoesOn DEF Read, Go
      <3> QED  BY <3>1, <3>2
    <2> QED  BY <1>6, <2>2, OnlyMoves DEF Read
  <1>7. CASE WaitTurn(r)
    <2>1. w[r].pc = "wait" /\ run' = run
      BY <1>7 DEF WaitTurn, At
    <2>2. mix.kind[run[r].beat] = "quota" => run[r].turn
      BY <2>1 DEF AtTurn, Kind, Beat
    <2>3. \E v : Moves(r, v)
      <3>1. CASE Go(r, Out(r, "settle", "turn_completed"))
        BY <2>1, <2>2, <3>1, GoesOn DEF Go, Ends
      <3>2. CASE Go(r, Out(r, "settle", "failed"))
        BY <2>1, <2>2, <3>2, GoesOn DEF Go, Ends
      <3> QED  BY <1>7, <3>1, <3>2 DEF WaitTurn
    <2> QED  BY <1>7, <2>3, OnlyMoves DEF WaitTurn
  <1>8. CASE SettlePrompt(r)
    <2>1. Moves(r, To(r, "record"))
      BY <1>8, GoesOn DEF SettlePrompt, Go, At
    <2> QED  BY <1>8, <2>1, OnlyMoves DEF SettlePrompt
  <1> QED  BY <1>1, <1>2, <1>3, <1>4, <1>5, <1>6, <1>7, <1>8

\* A statement on one row
LEMMA RowKept ==
    ASSUME Inv, NEW h \in Beats, NEW x \in Rows, row' = [row EXCEPT ![h] = x],
           SameTrigger(row[h], x) \/ x.trigger \notin Open \/ Names(x, h, run')
    PROVE  /\ row' \in [Beats -> Rows]
           /\ \A g \in Beats : Handed(g)
           /\ (row[h].status \in Terminal => x.status = row[h].status) => Kept
  <1>1. row \in [Beats -> Rows]
    BY DEF Inv, TypeOK
  <1>2. row' \in [Beats -> Rows] /\ row'[h] = x /\ \A g \in Beats : g # h => row'[g] = row[g]
    BY <1>1
  <1>3. \A g \in Beats : Handed(g)
    <2> TAKE g \in Beats
    <2>1. CASE g = h
      BY <1>2, <2>1 DEF Handed
    <2>2. CASE g # h
      BY <1>2, <2>2 DEF Handed, SameTrigger
    <2> QED  BY <2>1, <2>2
  <1>4. ASSUME row[h].status \in Terminal => x.status = row[h].status
        PROVE  Kept
    <2> SUFFICES ASSUME NEW g \in Beats, row[g].status \in Terminal
                 PROVE  row'[g].status = row[g].status
      BY DEF Kept
    <2>1. CASE g = h
      BY <1>2, <1>4, <2>1
    <2>2. CASE g # h
      BY <1>2, <2>2
    <2> QED  BY <2>1, <2>2
  <1> QED  BY <1>2, <1>3, <1>4

\* The fingerprints are numbers
LEMMA PrintsTyped ==
    ASSUME Inv
    PROVE  TerminalFp \in Nat /\ MonitorFp \in Nat /\ {0, TerminalFp} \subseteq Nat
  <1>1. user.n \in Nat
    BY DEF Inv, TypeOK
  <1> QED  BY <1>1 DEF TerminalFp, MonitorFp

\* Probes of the observed thread, and the claim of its receipt
LEMMA ProbeSteps ==
    ASSUME Inv, NEW r \in RunIds, Inspect(r) \/ Observe(r) \/ ClaimReceipt(r)
    PROVE  Inv' /\ Kept
  <1> USE PlacesKnown, Works
  <1>1. CASE Inspect(r)
    <2>1. PICK fp \in {0, TerminalFp}, pc \in {"observe", "record", "claim"} :
             w' = [w EXCEPT ![r] = [w[r] EXCEPT !.fp = fp, !.out = "probe_thread_status", !.pc = pc]]
      BY <1>1 DEF Inspect, Go
    <2> DEFINE v == [w[r] EXCEPT !.fp = fp, !.out = "probe_thread_status", !.pc = pc]
    <2>2. fp \in Nat /\ pc \in Places /\ "probe_thread_status" \in Outcomes \cup {""}
      <3>1. fp \in Nat
        BY PrintsTyped, Zenon
      <3>2. pc \in Places /\ "probe_thread_status" \in Outcomes \cup {""}
        BY Zenon DEF Places, Active, Outcomes, Successes
      <3> QED  BY <3>1, <3>2
    <2>3. v \in Workers /\ v.pc = pc
      BY <2>2, ZenonT(30) DEF Workers
    <2>4. w[r].pc \in Active \cup Waiting
      BY <1>1 DEF Inspect, At
    <2>5. Moves(r, v)
      BY <2>1, <2>3, <2>4 DEF Moves, AtTurn
    <2> QED  BY <1>1, <2>5, OnlyMoves DEF Inspect
  <1>2. CASE Observe(r)
    <2>1. PICK pc \in {"claim", "record"} :
             w' = [w EXCEPT ![r] = [w[r] EXCEPT !.key = MonitorFp, !.pc = pc]]
      BY <1>2 DEF Observe, Go
    <2> DEFINE v == [w[r] EXCEPT !.key = MonitorFp, !.pc = pc]
    <2>2. v \in Workers /\ v.pc = pc
      BY PrintsTyped, ZenonT(30) DEF Workers
    <2>3. w[r].pc \in Active \cup Waiting
      BY <1>2 DEF Observe, At
    <2>4. Moves(r, v)
      BY <2>1, <2>2, <2>3 DEF Moves, AtTurn
    <2>5. TablesTyped'
      BY <1>2, PrintsTyped DEF Observe, Inv, TypeOK, TablesTyped, Hists
    <2>6. (\A h \in Beats : Handed(h)) /\ Kept
      BY <1>2 DEF Observe, Handed, SameTrigger, Kept
    <2>7. UNCHANGED <<mix, row, run, proc, turn, user, journal, queue, qlock, cmd, count, hist>>
      BY <1>2 DEF Observe
    <2> QED  BY <2>4, <2>5, <2>6, <2>7, WorkKept
  <1>3. CASE ClaimReceipt(r)
    <2>1. w[r].pc \in Active \cup Waiting /\ Beat(r) \in Beats
      BY <1>3 DEF ClaimReceipt, At
    <2>2. CASE ~MayClaimReceipt(row[Beat(r)], w[r].fp)
      <3>1. Moves(r, To(r, "record"))
        BY <1>3, <2>1, <2>2, GoesOn DEF ClaimReceipt, Go
      <3> QED  BY <1>3, <2>2, <3>1, OnlyMoves DEF ClaimReceipt
    <2>3. CASE MayClaimReceipt(row[Beat(r)], w[r].fp)
      <3>1. row[Beat(r)] \in Rows
        BY <2>1 DEF Inv, TypeOK
      <3>2. /\ row' \in [Beats -> Rows] /\ (\A g \in Beats : Handed(g)) /\ Kept
        <4> DEFINE x == ClaimedReceiptRow(row[Beat(r)], w[r].fp)
        <4>1. x \in Rows /\ SameTrigger(row[Beat(r)], x) /\ x.status = row[Beat(r)].status
          BY <3>1, ReceiptTyped
        <4>2. row' = [row EXCEPT ![Beat(r)] = x]
          BY <1>3, <2>3 DEF ClaimReceipt
        <4> HIDE DEF x
        <4> QED  BY <2>1, <4>1, <4>2, RowKept
      <3>3. \E v : Moves(r, v)
        <4>1. CASE Kind(Beat(r)) = "continue" /\ Replayed(Beat(r), w[r].key) # {}
          <5>1. PICK st \in Replayed(Beat(r), w[r].key) : Go(r, Out(r, "settle", st))
            BY <1>3, <2>3, <4>1 DEF ClaimReceipt
          <5>2. st \in {"turn_completed", "failed"}
            <6>1. PICK e \in journal[Beat(r)] : st = e.status
              BY <5>1 DEF Replayed
            <6>2. e \in Entries
              BY <2>1, <6>1 DEF Inv, TypeOK
            <6> QED  BY <6>1, <6>2 DEF Entries
          <5>3. mix.kind[run[r].beat] # "quota"
            BY <4>1 DEF Kind, Beat
          <5> QED  BY <2>1, <5>1, <5>2, <5>3, GoesOn DEF Go, Ends
        <4>2. CASE ~(Kind(Beat(r)) = "continue" /\ Replayed(Beat(r), w[r].key) # {})
          BY <1>3, <2>1, <2>3, <4>2, GoesOn DEF ClaimReceipt, Go
        <4> QED  BY <4>1, <4>2
      <3>4. TablesTyped'
        BY <1>3, <3>2 DEF ClaimReceipt, Inv, TypeOK, TablesTyped, Hists
      <3> QED  BY <1>3, <3>2, <3>3, <3>4, WorkKept DEF ClaimReceipt
    <2> QED  BY <2>2, <2>3
  <1> QED  BY <1>1, <1>2, <1>3

\* The trigger of a quota probe: armed, and settled
LEMMA TriggerSteps ==
    ASSUME Inv, NEW r \in RunIds, Arm(r) \/ SettleQuota(r)
    PROVE  Inv' /\ Kept
  <1> USE PlacesKnown, Works
  <1>0. w[r].pc \in Active \cup Waiting /\ Beat(r) \in Beats /\ row[Beat(r)] \in Rows
    <2>1. w[r].pc \in Active \cup Waiting
      BY DEF Arm, SettleQuota, At
    <2> QED  BY <2>1 DEF Inv, TypeOK
  <1>1. CASE Arm(r)
    <2>1. CASE ~MayArm(row[Beat(r)])
      <3>1. Moves(r, Out(r, "record", "failed"))
        BY <1>0, <1>1, <2>1, GoesOn DEF Arm, Go
      <3> QED  BY <1>1, <2>1, <3>1, OnlyMoves DEF Arm
    <2>2. CASE MayArm(row[Beat(r)])
      <3> DEFINE x == ArmedRow(row[Beat(r)], r)
      <3>1. x \in Rows /\ x.status = row[Beat(r)].status /\ Names(x, Beat(r), run')
        BY <1>0, <1>1, HandoffTyped DEF Names, Arm, Beat
      <3>2. row' = [row EXCEPT ![Beat(r)] = x]
        BY <1>1, <2>2 DEF Arm
      <3> HIDE DEF x
      <3>3. row' \in [Beats -> Rows] /\ (\A g \in Beats : Handed(g)) /\ Kept
        BY <1>0, <3>1, <3>2, RowKept
      <3>4. Moves(r, To(r, "read"))
        BY <1>0, <1>1, <2>2, GoesOn DEF Arm, Go
      <3>5. TablesTyped'
        BY <1>1, <3>3 DEF Arm, Inv, TypeOK, TablesTyped, Hists
      <3> QED  BY <1>1, <3>3, <3>4, <3>5, WorkKept DEF Arm
    <2> QED  BY <2>1, <2>2
  <1>2. CASE SettleQuota(r)
    <2>1. CASE ~MayFinishTrigger(row[Beat(r)], r)
      <3>1. Moves(r, Out(r, "record", "failed"))
        BY <1>0, <1>2, <2>1, GoesOn DEF SettleQuota, Go
      <3> QED  BY <1>2, <2>1, <3>1, OnlyMoves DEF SettleQuota
    <2>2. CASE MayFinishTrigger(row[Beat(r)], r)
      <3> DEFINE x == FinishedTriggerRow(row[Beat(r)], Woken(r))
      <3>1. Woken(r) \in BOOLEAN /\ (Woken(r) => run[r].turn)
        BY <1>2 DEF Woken, SettleQuota, At, AtTurn
      <3>2. x \in Rows /\ x.status = row[Beat(r)].status
            /\ x.trigger = (IF Woken(r) THEN "handoff_pending_delivery" ELSE "monitoring")
            /\ (Woken(r) => x.triggerRun = r)
        BY <1>0, <2>2, <3>1, HandoffTyped DEF MayFinishTrigger
      <3>3. x.trigger \notin Open \/ Names(x, Beat(r), run')
        BY <1>2, <3>1, <3>2 DEF Names, Open, SettleQuota, Beat
      <3>4. row' = [row EXCEPT ![Beat(r)] = x]
        BY <1>2, <2>2 DEF SettleQuota
      <3> HIDE DEF x
      <3>5. row' \in [Beats -> Rows] /\ (\A g \in Beats : Handed(g)) /\ Kept
        BY <1>0, <3>2, <3>3, <3>4, RowKept
      <3>6. Moves(r, Out(r, "record", IF Woken(r) THEN "probe_trigger_handoff" ELSE w[r].out))
        BY <1>0, <1>2, <2>2, GoesOn DEF SettleQuota, Go
      <3>7. hist' \in Hists
        <4> DEFINE handed == IF Woken(r) THEN hist.handed \cup {Beat(r)} ELSE hist.handed
        <4>1. hist \in Hists /\ hist.handed \in SUBSET Beats
          BY HistTyped DEF Inv
        <4>2. handed \in SUBSET Beats
          BY <1>0, <4>1
        <4>3. hist' = [hist EXCEPT !.handed = handed]
          BY <1>2, <2>2 DEF SettleQuota
        <4> HIDE DEF handed
        <4> QED  BY <4>1, <4>2, <4>3, HistTyped DEF Inv
      <3>8. TablesTyped'
        BY <1>2, <3>5, <3>7 DEF SettleQuota, Inv, TypeOK, TablesTyped, Hists
      <3> QED  BY <1>2, <3>5, <3>6, <3>8, WorkKept DEF SettleQuota
    <2> QED  BY <2>1, <2>2
  <1> QED  BY <1>1, <1>2

\* One more wake of an item
LEMMA Counted ==
    ASSUME NEW f \in [Items -> Nat], NEW j
    PROVE  [i \in Items |-> f[i] + (IF i = j THEN 1 ELSE 0)] \in [Items -> Nat]
  OBVIOUS

\* A turn is started, and noted
LEMMA TurnSteps ==
    ASSUME Inv, NEW r \in RunIds, StartTurn(r) \/ NoteTurn(r)
    PROVE  Inv' /\ Kept
  <1> USE PlacesKnown, Works
  <1>0. w[r].pc \in Active \cup Waiting /\ Beat(r) \in Beats
    BY DEF StartTurn, NoteTurn, At
  <1>1. CASE StartTurn(r)
    <2>1. \E v : Moves(r, v)
      <3>1. CASE Go(r, Out(r, "settle", "failed"))
        BY <1>0, <3>1, GoesOn DEF Go, Ends
      <3>2. CASE Go(r, To(r, IF Kind(Beat(r)) \in {"prompt", "quota", "queue"} THEN "note" ELSE "wait"))
        <4>1. CASE Kind(Beat(r)) \in {"prompt", "quota", "queue"}
          BY <1>0, <3>2, <4>1, GoesOn DEF Go
        <4>2. CASE Kind(Beat(r)) \notin {"prompt", "quota", "queue"}
          BY <1>0, <3>2, <4>2, GoesOn DEF Go, Kind, Beat
        <4> QED  BY <4>1, <4>2
      <3> QED  BY <1>1, <3>1, <3>2 DEF StartTurn
    <2>2. hist' \in Hists
      <3>1. CASE hist' = hist
        BY <3>1, HistTyped DEF Inv
      <3>2. CASE hist' = Started(r)
        <4> DEFINE woke == IF Kind(Beat(r)) # "queue" THEN hist.woke
                           ELSE [i \in Items |-> hist.woke[i] + (IF i = w[r].item THEN 1 ELSE 0)]
                   cont == IF Kind(Beat(r)) \in {"terminal", "continue"}
                           THEN hist.cont \cup {<<Beat(r), w[r].fp, r>>} ELSE hist.cont
        <4>1. hist \in Hists /\ hist.woke \in [Items -> Nat] /\ hist.cont \in SUBSET (Beats \X Nat \X RunIds)
          BY HistTyped DEF Inv
        <4>2. woke \in [Items -> Nat]
          BY <4>1, Counted, Zenon
        <4>3. cont \in SUBSET (Beats \X Nat \X RunIds)
          <5>1. <<Beat(r), w[r].fp, r>> \in Beats \X Nat \X RunIds
            BY <1>0
          <5> QED  BY <4>1, <5>1
        <4>4. hist' = [hist EXCEPT !.woke = woke, !.cont = cont]
          BY <3>2 DEF Started
        <4> HIDE DEF woke, cont
        <4> QED  BY <4>1, <4>2, <4>3, <4>4, HistTyped DEF Inv
      <3> QED  BY <1>1, <3>1, <3>2 DEF StartTurn
    <2>3. TablesTyped'
      BY <1>1, <2>2 DEF StartTurn, Inv, TypeOK, TablesTyped, Hists
    <2>4. (\A h \in Beats : Handed(h)) /\ Kept
      BY <1>1 DEF StartTurn, Handed, SameTrigger, Kept
    <2>5. UNCHANGED <<mix, row, run, proc, user, seen, journal, queue, qlock, cmd, count>>
      BY <1>1 DEF StartTurn
    <2> QED  BY <2>1, <2>3, <2>4, <2>5, WorkKept
  <1>2. CASE NoteTurn(r)
    <2>1. CASE run[r].done
      <3>1. Moves(r, Out(r, "settle", "failed"))
        BY <1>0, <1>2, <2>1, GoesOn DEF NoteTurn, Go, Ends
      <3> QED  BY <1>2, <2>1, <3>1, OnlyMoves DEF NoteTurn
    <2>2. CASE ~run[r].done
      <3>1. run' = [run EXCEPT ![r].turn = TRUE]
        BY <1>2, <2>2 DEF NoteTurn
      <3>2. /\ run' \in [RunIds -> Runs] /\ run'[r].turn
            /\ \A s \in RunIds : run'[s].beat = run[s].beat /\ (run[s].turn => run'[s].turn)
        <4> DEFINE x == [run[r] EXCEPT !.turn = TRUE]
        <4>1. x \in Runs /\ x.turn /\ x.beat = run[r].beat
          BY Zenon DEF Runs
        <4>2. run' = [run EXCEPT ![r] = x]
          BY <3>1
        <4> HIDE DEF x
        <4> QED  BY <4>1, <4>2 DEF Inv, TypeOK
      <3>3. Moves(r, To(r, "wait"))
        BY <1>0, <1>2, <2>2, <3>2, GoesOn DEF NoteTurn, Go
      <3>4. TablesTyped'
        BY <1>2, <3>2 DEF NoteTurn, Inv, TypeOK, TablesTyped, Hists
      <3>5. (\A h \in Beats : Handed(h)) /\ Kept
        BY <1>2 DEF NoteTurn, Handed, SameTrigger, Kept
      <3>6. UNCHANGED <<mix, row, proc, turn, user, seen, journal, queue, qlock, cmd, count, hist>>
        BY <1>2 DEF NoteTurn
      <3> QED  BY <3>2, <3>3, <3>4, <3>5, <3>6, WorkKept
    <2> QED  BY <2>1, <2>2
  <1> QED  BY <1>1, <1>2

\* A receipt is settled, and the journal of a continuation
LEMMA ReceiptSteps ==
    ASSUME Inv, NEW r \in RunIds, SettleTerminal(r) \/ SettleContinue(r)
    PROVE  Inv' /\ Kept
  <1> USE PlacesKnown, Works
  <1>0. w[r].pc = "settle" /\ w[r].pc \in Active \cup Waiting /\ Beat(r) \in Beats /\ row[Beat(r)] \in Rows
    <2>1. w[r].pc = "settle"
      BY DEF SettleTerminal, SettleContinue, At
    <2> QED  BY <2>1 DEF Inv, TypeOK
  <1> DEFINE x == FinishedReceiptRow(row[Beat(r)], Woken(r))
  <1>1. x \in Rows /\ SameTrigger(row[Beat(r)], x) /\ x.status = row[Beat(r)].status
    <2>1. Woken(r) \in BOOLEAN /\ 0 \in Nat
      BY DEF Woken
    <2> QED  BY <1>0, <2>1, ReceiptTyped
  <1>2. row' = [row EXCEPT ![Beat(r)] = x]
    BY DEF SettleTerminal, SettleContinue
  <1> HIDE DEF x
  <1>3. row' \in [Beats -> Rows] /\ (\A g \in Beats : Handed(g)) /\ Kept
    BY <1>0, <1>1, <1>2, RowKept
  <1>4. hist' \in Hists
    <2> DEFINE cont == IF Woken(r) THEN hist.cont ELSE {c \in hist.cont : c[3] # r}
    <2>1. hist \in Hists /\ cont \in SUBSET (Beats \X Nat \X RunIds)
      BY HistTyped DEF Inv
    <2>2. hist' = [hist EXCEPT !.cont = cont]
      BY DEF SettleTerminal, SettleContinue
    <2> HIDE DEF cont
    <2> QED  BY <2>1, <2>2, HistTyped DEF Inv
  <1>5. journal' \in [Beats -> SUBSET Entries]
    <2>1. CASE SettleTerminal(r)
      BY <2>1 DEF SettleTerminal, Inv, TypeOK
    <2>2. CASE SettleContinue(r) /\ w[r].out = "deferred_busy"
      BY <2>2 DEF SettleContinue, Inv, TypeOK
    <2>3. CASE SettleContinue(r) /\ w[r].out # "deferred_busy"
      <3>1. [key |-> w[r].key, status |-> w[r].out] \in Entries
        BY <1>0, <2>3 DEF Entries, Ends
      <3>2. journal' = [journal EXCEPT ![Beat(r)] = @ \cup {[key |-> w[r].key, status |-> w[r].out]}]
        BY <2>3 DEF SettleContinue
      <3> QED  BY <1>0, <3>1, <3>2 DEF Inv, TypeOK
    <2> QED  BY <2>1, <2>2, <2>3
  <1>6. \E v : Moves(r, v)
    <2>1. PICK out \in {"parent_terminal_receipt_delivered", "terminal_continuation_completed", "failed"} :
            w' = [w EXCEPT ![r] = Out(r, "record", out)]
      BY DEF SettleTerminal, SettleContinue, Go
    <2> QED  BY <1>0, <2>1, GoesOn
  <1>7. UNCHANGED <<mix, run, proc, turn, user, seen, queue, qlock, cmd, count>>
    BY DEF SettleTerminal, SettleContinue
  <1>8. TablesTyped'
    BY <1>3, <1>4, <1>5, <1>7 DEF Inv, TypeOK, TablesTyped, Hists
  <1> QED  BY <1>3, <1>6, <1>7, <1>8, WorkKept

\* A set of numbers has a least element
LEMMA Least ==
    ASSUME NEW S, S \subseteq Nat, S # {}
    PROVE  \E x \in S : \A y \in S : x <= y
  <1> DEFINE R == OpToRel(<,Nat)
  <1>1. IsWellFoundedOn(R, Nat)
    BY NatLessThanWellFounded
  <1>2. \A x, y \in Nat : y < x => <<y, x>> \in R
    BY DEF OpToRel
  <1> HIDE DEF R
  <1>3. PICK x \in S : \A y \in S : ~ (<<y, x>> \in R)
    BY <1>1, WFMin
  <1>4. \A y \in S : ~(y < x)
    BY <1>2, <1>3
  <1> QED  BY <1>4

\* An item of the queue
QItems == [st: {"pending", "claimed", "worked", "spoiled", "completed"},
           by: Beats \cup {0}, run: RunIds \cup {0}, woken: BOOLEAN]

\* The queue as its steps write it
LEMMA QueueTyped ==
    ASSUME Inv, NEW h \in Beats, NEW r \in RunIds
    PROVE  /\ queue \in Snaps /\ Accepted(h) \in Snaps
           /\ Pending # {} => FirstOf(Pending) \in Items
           /\ \A q \in Snaps, i \in Items :
                [q EXCEPT ![i] = [st |-> "claimed", by |-> h, run |-> r, woken |-> FALSE]] \in Snaps
           /\ \A i \in Items \cup {0} : [queue EXCEPT ![i].woken = TRUE] \in Snaps
  <1> DEFINE E == QItems
  <1>1. Snaps = [Items -> E]
    BY DEF Snaps, QItems
  <1>2. /\ \A e \in E : [e EXCEPT !.st = "completed"] \in E /\ [e EXCEPT !.woken = TRUE] \in E
        /\ [st |-> "claimed", by |-> h, run |-> r, woken |-> FALSE] \in E
    BY DEF QItems
  <1> HIDE DEF E
  <1>3. queue \in [Items -> E]
    BY <1>1 DEF Inv, TypeOK
  <1>4. Accepted(h) \in [Items -> E]
    BY <1>2, <1>3 DEF Accepted
  <1>5. ASSUME Pending # {}
        PROVE  FirstOf(Pending) \in Items
    <2>1. Pending \subseteq Items /\ Items \subseteq Nat
      BY HeartbeatConstants DEF Pending
    <2>2. PICK i \in Pending : \A j \in Pending : i <= j
      BY <1>5, <2>1, Least
    <2>3. FirstOf(Pending) \in Pending
      BY <2>2, Zenon DEF FirstOf
    <2> QED  BY <2>1, <2>3
  <1>6. ASSUME NEW q \in [Items -> E], NEW i \in Items
        PROVE  [q EXCEPT ![i] = [st |-> "claimed", by |-> h, run |-> r, woken |-> FALSE]] \in [Items -> E]
    BY <1>2
  <1>7. ASSUME NEW i \in Items \cup {0}
        PROVE  [queue EXCEPT ![i].woken = TRUE] \in [Items -> E]
    <2>1. CASE i \in Items
      BY <1>2, <1>3, <2>1
    <2>2. CASE i \notin Items
      BY <1>3, <2>2
    <2> QED  BY <2>1, <2>2
  <1> QED  BY <1>1, <1>3, <1>4, <1>5, <1>6, <1>7

\* What a queue probe leaves in its worker's variables
LEMMA Snapped ==
    ASSUME Inv, NEW r \in RunIds, NEW out \in Outcomes, NEW snap \in Snaps \cup {NoQueue}
    PROVE  /\ [Out(r, "record", out) EXCEPT !.snap = snap] \in Workers
           /\ [Out(r, "record", out) EXCEPT !.snap = snap].pc = "record"
  <1>1. w[r] \in Workers /\ "record" \in Places
    BY Works, Zenon DEF Active, Places
  <1>2. Out(r, "record", out) \in Workers /\ Out(r, "record", out).pc = "record"
    BY <1>1, ZenonT(30) DEF Out, Workers
  <1>3. \A u \in Workers : [u EXCEPT !.snap = snap] \in Workers /\ [u EXCEPT !.snap = snap].pc = u.pc
    BY ZenonT(30) DEF Workers
  <1> QED  BY <1>2, <1>3, Zenon

\* What it has in them when it wakes its lane
LEMMA SnappedWake ==
    ASSUME Inv, NEW r \in RunIds, NEW item \in Items, NEW snap \in Snaps \cup {NoQueue}
    PROVE  /\ [To(r, "read") EXCEPT !.item = item, !.snap = snap] \in Workers
           /\ [To(r, "read") EXCEPT !.item = item, !.snap = snap].pc = "read"
  <1>1. w[r] \in Workers /\ "read" \in Places
    BY Works, Zenon DEF Active, Places
  <1>2. To(r, "read") \in Workers /\ To(r, "read").pc = "read"
    BY <1>1, ZenonT(30) DEF To, Workers
  <1>3. \A u \in Workers : /\ [u EXCEPT !.item = item, !.snap = snap] \in Workers
                           /\ [u EXCEPT !.item = item, !.snap = snap].pc = u.pc
    BY ZenonT(30) DEF Workers
  <1> QED  BY <1>2, <1>3, Zenon

\* The steps of a queue probe
LEMMA QueueSteps ==
    ASSUME Inv, NEW r \in RunIds, BeginQueue(r) \/ SettleQueue(r)
    PROVE  Inv' /\ Kept
  <1>0. w[r].pc \in Active \cup Waiting /\ Beat(r) \in Beats /\ w[r].item \in Items \cup {0}
    <2>1. w[r].pc \in {"begin", "settle"}
      BY DEF BeginQueue, SettleQueue, At
    <2> QED  BY <2>1, PlacesKnown, Works
  <1>1. ASSUME NEW v \in Workers, v.pc \in {"record", "read", "begin"}, w' = [w EXCEPT ![r] = v]
        PROVE  Moves(r, v)
    BY <1>0, <1>1 DEF Moves, AtTurn
  <1>2. {"failed", "queue_continuation_released", "queue_no_change_silent"} \subseteq Outcomes
    BY PlacesKnown DEF Outcomes, Successes
  <1>3. /\ queue \in Snaps /\ Accepted(Beat(r)) \in Snaps
        /\ Pending # {} => FirstOf(Pending) \in Items
    BY <1>0, QueueTyped
  <1>4. queue' \in Snaps /\ \E v : Moves(r, v)
    <2>1. CASE BeginQueue(r)
      <3> DEFINE quiet == IF Woken(r) THEN "queue_continuation_released" ELSE "queue_no_change_silent"
                 i == FirstOf(Pending)
                 q == [Accepted(Beat(r)) EXCEPT ![i] = [st |-> "claimed", by |-> Beat(r), run |-> r,
                                                        woken |-> FALSE]]
      <3>1. quiet \in Outcomes
        BY <1>2
      <3>2. \/ queue' = queue /\ w' = [w EXCEPT ![r] = [Out(r, "record", "failed") EXCEPT !.snap = NoQueue]]
            \/ queue' = queue /\ w' = [w EXCEPT ![r] = [Out(r, "record", quiet) EXCEPT !.snap = queue]]
            \/ /\ Pending # {} /\ queue' = q
               /\ w' = [w EXCEPT ![r] = [To(r, "read") EXCEPT !.item = i, !.snap = q]]
            \/ /\ queue' = Accepted(Beat(r))
               /\ w' = [w EXCEPT ![r] = [Out(r, "record", quiet) EXCEPT !.snap = Accepted(Beat(r))]]
        BY <2>1, Zenon DEF BeginQueue, Go
      <3>3. Pending # {} => q \in Snaps /\ i \in Items
        BY <1>0, <1>3, QueueTyped
      <3> HIDE DEF quiet, i, q
      <3>4. ASSUME NEW out \in Outcomes, NEW snap \in Snaps \cup {NoQueue},
                   w' = [w EXCEPT ![r] = [Out(r, "record", out) EXCEPT !.snap = snap]]
            PROVE  \E v : Moves(r, v)
        <4> DEFINE v == [Out(r, "record", out) EXCEPT !.snap = snap]
        <4>2. v \in Workers /\ v.pc = "record"
          BY Snapped, Zenon
        <4>3. w' = [w EXCEPT ![r] = v]
          BY <3>4
        <4> HIDE DEF v
        <4> QED  BY <1>1, <4>2, <4>3
      <3>5. ASSUME Pending # {}, w' = [w EXCEPT ![r] = [To(r, "read") EXCEPT !.item = i, !.snap = q]]
            PROVE  \E v : Moves(r, v)
        <4> DEFINE v == [To(r, "read") EXCEPT !.item = i, !.snap = q]
        <4>1. i \in Items /\ q \in Snaps \cup {NoQueue}
          BY <3>3, <3>5
        <4>2. v \in Workers /\ v.pc = "read"
          BY <4>1, SnappedWake, Zenon
        <4>3. w' = [w EXCEPT ![r] = v]
          BY <3>5
        <4> HIDE DEF v
        <4> QED  BY <1>1, <4>2, <4>3
      <3>6. "failed" \in Outcomes /\ NoQueue \in Snaps \cup {NoQueue}
        BY <1>2
      <3> QED  BY <1>3, <3>1, <3>2, <3>3, <3>4, <3>5, <3>6
    <2>2. CASE SettleQueue(r)
      <3> DEFINE q == [queue EXCEPT ![w[r].item].woken = TRUE]
      <3>1. \/ queue' = queue /\ w' = [w EXCEPT ![r] = Out(r, "record", "failed")]
            \/ queue' = queue /\ w' = [w EXCEPT ![r] = [Out(r, "record", "failed") EXCEPT !.snap = NoQueue]]
            \/ queue' = q /\ w' = [w EXCEPT ![r] = To(r, "begin")]
        BY <2>2, Zenon DEF SettleQueue, Go
      <3>2. q \in Snaps
        BY <1>0, QueueTyped
      <3> HIDE DEF q
      <3>3. \E v \in Workers : v.pc \in {"record", "read", "begin"} /\ w' = [w EXCEPT ![r] = v]
        <4>1. /\ [Out(r, "record", "failed") EXCEPT !.snap = NoQueue] \in Workers
              /\ [Out(r, "record", "failed") EXCEPT !.snap = NoQueue].pc = "record"
          <5>1. "failed" \in Outcomes /\ NoQueue \in Snaps \cup {NoQueue}
            BY <1>2
          <5> QED  BY <5>1, Snapped, Zenon
        <4>2. /\ Out(r, "record", "failed") \in Workers /\ Out(r, "record", "failed").pc = "record"
              /\ To(r, "begin") \in Workers /\ To(r, "begin").pc = "begin"
          <5>1. w[r] \in Workers /\ {"record", "begin"} \subseteq Places /\ "failed" \in Outcomes
            BY <1>2, Works DEF Active, Places
          <5> QED  BY <5>1, ZenonT(30) DEF Out, To, Workers
        <4>3. {"record", "begin"} \subseteq {"record", "read", "begin"}
          OBVIOUS
        <4> QED  BY <3>1, <4>1, <4>2, <4>3, Zenon
      <3> QED  BY <1>1, <1>3, <3>1, <3>2, <3>3
    <2> QED  BY <2>1, <2>2
  <1>5. UNCHANGED <<mix, row, run, proc, turn, user, seen, journal, qlock, cmd, count, hist>>
    BY DEF BeginQueue, SettleQueue
  <1>6. TablesTyped'
    BY <1>4, <1>5 DEF Inv, TypeOK, TablesTyped, Hists
  <1>7. (\A h \in Beats : Handed(h)) /\ Kept
    BY <1>5 DEF Handed, SameTrigger, Kept
  <1> QED  BY <1>4, <1>5, <1>6, <1>7, WorkKept

\* The end of a run: what is recorded is a result
LEMMA ResultTyped ==
    ASSUME Inv, NEW r \in RunIds, NEW left \in ReceiptsLeft(r)
    PROVE  Result(r, left[1], left[2]) \in Results
  <1>1. left[1] \in {"none", "AWAITING_DECISION", "TERMINAL", "CONTINUE_SAFE"} /\ left[2] \in Nat
    BY DEF ReceiptsLeft
  <1>2. w[r].out \in Outcomes \cup {""} /\ w[r].snap \in Snaps \cup {NoQueue}
    BY Works
  <1>3. (w[r].out = "queue_no_change_silent") \in BOOLEAN
    OBVIOUS
  <1>4. (row[Beat(r)].quiet = w[r].snap /\ Own(Beat(r), {"worked", "completed"}) = {}) \in BOOLEAN
    OBVIOUS
  <1> QED  BY <1>1, <1>2, <1>3, <1>4, Zenon DEF Result, Results

\* record_run
LEMMA RecordStep ==
    ASSUME Inv, NEW r \in RunIds, Record(r)
    PROVE  Inv' /\ Kept
  <1>0. w[r].pc \in Active \cup Waiting /\ Beat(r) \in Beats /\ row[Beat(r)] \in Rows
    <2>1. w[r].pc \in {"record", "refused"}
      BY DEF Record, At
    <2> QED  BY <2>1, PlacesKnown, Works DEF Inv, TypeOK
  <1>1. PICK left \in ReceiptsLeft(r) :
          row' = [row EXCEPT ![Beat(r)] = RecordedRow(row[Beat(r)], Kind(Beat(r)), mix.strict,
                                                      Result(r, left[1], left[2]))]
    BY DEF Record
  <1> DEFINE x == RecordedRow(row[Beat(r)], Kind(Beat(r)), mix.strict, Result(r, left[1], left[2]))
  <1>2. x \in Rows /\ SameTrigger(row[Beat(r)], x) /\ (row[Beat(r)].status # "ACTIVE" => x = row[Beat(r)])
    <2>1. mix.strict \in BOOLEAN /\ Result(r, left[1], left[2]) \in Results
      BY MixTyped, ResultTyped DEF Inv
    <2> QED  BY <1>0, <2>1, RecordTyped
  <1>3. row' = [row EXCEPT ![Beat(r)] = x]
    BY <1>1
  <1> HIDE DEF x
  <1>4. row' \in [Beats -> Rows] /\ (\A g \in Beats : Handed(g)) /\ Kept
    <2>1. row[Beat(r)].status \in Terminal => x.status = row[Beat(r)].status
      BY <1>2 DEF Terminal
    <2> QED  BY <1>0, <1>2, <1>3, <2>1, RowKept
  <1>5. /\ run' \in [RunIds -> Runs]
        /\ \A s \in RunIds : run'[s].beat = run[s].beat /\ (run[s].turn => run'[s].turn)
    <2> DEFINE y == [run[r] EXCEPT !.done = TRUE]
    <2>1. y \in Runs /\ y.turn = run[r].turn /\ y.beat = run[r].beat
      BY Works, Zenon DEF Runs
    <2>2. run' = [run EXCEPT ![r] = y]
      BY DEF Record
    <2> HIDE DEF y
    <2> QED  BY <2>1, <2>2 DEF Inv, TypeOK
  <1>6. \E v : Moves(r, v)
    <2> DEFINE v == [NoWork EXCEPT !.pc = "done"]
    <2>1. v \in Workers /\ v.pc = "done"
      BY 0 \in Nat, ZenonT(30) DEF Workers, NoWork, Procs, Places
    <2>2. w' = [w EXCEPT ![r] = v]
      BY DEF Record, Go
    <2> HIDE DEF v
    <2> QED  BY <1>0, <2>1, <2>2 DEF Moves, AtTurn
  <1>7. UNCHANGED <<mix, proc, turn, user, seen, journal, queue, qlock, cmd, count, hist>>
    BY DEF Record
  <1>8. TablesTyped'
    BY <1>4, <1>5, <1>7 DEF Inv, TypeOK, TablesTyped, Hists
  <1> QED  BY <1>4, <1>5, <1>6, <1>7, <1>8, WorkKept

\* Every step of a worker
LEMMA WorkerKeeps ==
    ASSUME Inv, NEW r \in RunIds, WorkerStep(r)
    PROVE  Inv' /\ Kept
  BY PlainSteps, ProbeSteps, TriggerSteps, TurnSteps, ReceiptSteps, QueueSteps, RecordStep
     DEF WorkerStep

-----------------------------------------------------------------------------
(* Steps of the processes, the command line and the environment.           *)

\* A step that moves no worker
LEMMA StoreKept ==
    ASSUME Inv, TypeOK', UNCHANGED <<mix, w>>, count'.claims = count.claims,
           \A s \in RunIds : run'[s].beat = run[s].beat /\ (run[s].turn => run'[s].turn),
           \A h \in Beats : Handed(h),
           cmd'.pc = "write" => cmd'.beat \in Beats /\ cmd'.want \in Wants
    PROVE  Inv'
  <1>1. WorkInv'
    BY DEF Inv, WorkInv
  <1>2. HandoffInv'
    BY HandoffKept, HeartbeatConstants DEF Inv, Gains
  <1> QED  BY <1>1, <1>2 DEF Inv

\* A step that leaves the tables alone
LEMMA OutsideKept ==
    ASSUME Inv, TypeOK', UNCHANGED <<mix, w, run, row>>, count'.claims = count.claims,
           cmd'.pc = "write" => cmd'.beat \in Beats /\ cmd'.want \in Wants
    PROVE  Inv'
  <1>1. \A h \in Beats : Handed(h)
    BY DEF Handed, SameTrigger
  <1> QED  BY <1>1, StoreKept

\* The scheduler processes
Schedulers == [up: BOOLEAN, pc: {"idle", "recover", "lock", "write"}, sel: SUBSET Beats,
               exp: SUBSET Beats, rec: SUBSET Reads]

\* A process that has nothing in hand
LEMMA IdleTyped ==
    /\ NoProc \in Schedulers /\ ~NoProc.up /\ NoProc.pc = "idle" /\ NoProc.sel = {} /\ NoProc.rec = {}
    /\ \A flag \in BOOLEAN : /\ [NoProc EXCEPT !.up = flag] \in Schedulers
                             /\ [NoProc EXCEPT !.up = flag].up = flag
                             /\ [NoProc EXCEPT !.up = flag].pc = "idle"
                             /\ [NoProc EXCEPT !.up = flag].sel = {} /\ [NoProc EXCEPT !.up = flag].rec = {}
    /\ \A rec \in SUBSET Reads : /\ [NoProc EXCEPT !.pc = "recover", !.rec = rec] \in Schedulers
                                 /\ ~[NoProc EXCEPT !.pc = "recover", !.rec = rec].up
                                 /\ [NoProc EXCEPT !.pc = "recover", !.rec = rec].pc = "recover"
                                 /\ [NoProc EXCEPT !.pc = "recover", !.rec = rec].sel = {}
                                 /\ [NoProc EXCEPT !.pc = "recover", !.rec = rec].rec = rec
    /\ [NoProc EXCEPT !.pc = "lock"] \in Schedulers /\ ~[NoProc EXCEPT !.pc = "lock"].up
    /\ [NoProc EXCEPT !.pc = "lock"].pc = "lock"
    /\ [NoProc EXCEPT !.pc = "lock"].sel = {} /\ [NoProc EXCEPT !.pc = "lock"].rec = {}
  BY ZenonT(30) DEF NoProc, Schedulers

\* What __init__ reads of a row whose handoff is in flight
LEMMA ReadTyped ==
    ASSUME Inv, NEW h \in Beats, NeedsRecovery(row[h])
    PROVE  [beat |-> h, run |-> row[h].triggerRun, turn |-> run[row[h].triggerRun].turn] \in Reads
  <1>1. row[h].triggerRun \in RunIds
    BY DEF Inv, HandoffInv, Names, Open, NeedsRecovery
  <1>2. run[row[h].triggerRun].turn \in BOOLEAN
    BY <1>1 DEF Inv, TypeOK, Runs
  <1> QED  BY <1>1, <1>2, Zenon DEF Reads

\* What __init__ writes, whatever became of the rows it read
LEMMA RecoveryKept ==
    ASSUME Inv, NEW p \in Procs, RecoverWrite(p)
    PROVE  /\ row' \in [Beats -> Rows] /\ run' \in [RunIds -> Runs]
           /\ \A s \in RunIds : run'[s].beat = run[s].beat /\ (run[s].turn => run'[s].turn)
           /\ \A h \in Beats : Handed(h)
  <1>1. ASSUME NEW s \in RunIds
        PROVE  run'[s] \in Runs /\ run'[s].beat = run[s].beat /\ run'[s].turn = run[s].turn
    <2>1. run[s] \in Runs
      BY DEF Inv, TypeOK
    <2>2. [run[s] EXCEPT !.done = TRUE] \in Runs
          /\ [run[s] EXCEPT !.done = TRUE].beat = run[s].beat
          /\ [run[s] EXCEPT !.done = TRUE].turn = run[s].turn
      BY <2>1, Zenon DEF Runs
    <2>3. run'[s] = [run[s] EXCEPT !.done = TRUE] \/ run'[s] = run[s]
      BY DEF RecoverWrite
    <2> QED  BY <2>1, <2>2, <2>3
  <1>2. ASSUME NEW h \in Beats
        PROVE  row'[h] \in Rows /\ Handed(h)
    <2>1. row[h] \in Rows
      BY DEF Inv, TypeOK
    <2>2. CASE ~\E x \in proc[p].rec : x.beat = h
      <3>1. row'[h] = row[h]
        BY <2>2 DEF RecoverWrite
      <3> QED  BY <2>1, <3>1 DEF Handed, SameTrigger
    <2>3. CASE \E x \in proc[p].rec : x.beat = h
      <3> DEFINE flag == \E x \in proc[p].rec : x.beat = h /\ x.turn
                 y == RecoveredRow(row[h], flag)
      <3>1. row'[h] = y
        BY <2>3 DEF RecoverWrite
      <3>2. y \in Rows /\ y.trigger \in {"handoff_pending_delivery", "monitoring"}
        BY <2>1, RecoveredTyped
      <3> HIDE DEF y
      <3> QED  BY <3>1, <3>2 DEF Handed, Open
    <2> QED  BY <2>2, <2>3
  <1> QED  BY <1>1, <1>2 DEF RecoverWrite

\* The start of a process, and claim_due's SELECTs
LEMMA ServiceSteps ==
    ASSUME Inv, NEW p \in Procs, RecoverRead(p) \/ RecoverWrite(p) \/ Begin(p) \/ Select(p)
    PROVE  Inv' /\ w' = w
  <1>0. proc \in [Procs -> Schedulers]
    BY DEF Inv, TypeOK, Schedulers
  <1>1. CASE RecoverRead(p) \/ Begin(p)
    <2>1. proc' \in [Procs -> Schedulers]
      <3>1. CASE RecoverRead(p)
        <4> DEFINE rec == {[beat |-> h, run |-> row[h].triggerRun, turn |-> run[row[h].triggerRun].turn] :
                             h \in {g \in Beats : NeedsRecovery(row[g])}}
        <4>1. rec \in SUBSET Reads
          BY ReadTyped
        <4>2. proc' = [proc EXCEPT ![p] = [NoProc EXCEPT !.pc = "recover", !.rec = rec]]
          BY <3>1 DEF RecoverRead
        <4> HIDE DEF rec
        <4> QED  BY <1>0, <4>1, <4>2, IdleTyped
      <3>2. CASE Begin(p)
        <4> DEFINE flag == p = "once" \/ \A q \in Procs \ {"once"} : ~proc[q].up
        <4>1. flag \in BOOLEAN /\ proc' = [proc EXCEPT ![p] = [NoProc EXCEPT !.up = flag]]
          BY <3>2 DEF Begin
        <4> HIDE DEF flag
        <4> QED  BY <1>0, <4>1, IdleTyped
      <3> QED  BY <1>1, <3>1, <3>2
    <2>2. UNCHANGED <<mix, row, run, w, turn, user, seen, journal, queue, qlock, cmd, count, hist>>
      BY <1>1 DEF RecoverRead, Begin
    <2>3. TypeOK'
      BY <2>1, <2>2 DEF Inv, TypeOK, Schedulers
    <2>4. cmd'.pc = "write" => cmd'.beat \in Beats /\ cmd'.want \in Wants
      BY <2>2 DEF Inv, WorkInv
    <2> QED  BY <2>2, <2>3, <2>4, OutsideKept
  <1>2. CASE RecoverWrite(p)
    <2>1. proc' \in [Procs -> Schedulers]
      BY <1>0, <1>2, IdleTyped DEF RecoverWrite
    <2>2. UNCHANGED <<mix, w, turn, user, seen, journal, queue, qlock, cmd, count, hist>>
      BY <1>2 DEF RecoverWrite
    <2>3. /\ row' \in [Beats -> Rows] /\ run' \in [RunIds -> Runs]
          /\ \A s \in RunIds : run'[s].beat = run[s].beat /\ (run[s].turn => run'[s].turn)
          /\ \A h \in Beats : Handed(h)
      BY <1>2, RecoveryKept
    <2>4. TypeOK'
      BY <2>1, <2>2, <2>3 DEF Inv, TypeOK, Schedulers
    <2>5. cmd'.pc = "write" => cmd'.beat \in Beats /\ cmd'.want \in Wants
      BY <2>2 DEF Inv, WorkInv
    <2> QED  BY <2>2, <2>3, <2>4, <2>5, StoreKept
  <1>3. CASE Select(p)
    <2>1. Due \in SUBSET Beats /\ {h \in Beats : IsExpired(row[h])} \in SUBSET Beats
      BY DEF Due
    <2>2. proc' = [proc EXCEPT ![p].pc = "write", ![p].sel = Due,
                               ![p].exp = {h \in Beats : IsExpired(row[h])}]
      BY <1>3 DEF Select
    <2>3. proc' \in [Procs -> Schedulers]
      <3> DEFINE y == [proc[p] EXCEPT !.pc = "write", !.sel = Due,
                                      !.exp = {h \in Beats : IsExpired(row[h])}]
      <3>1. proc \in [Procs -> Schedulers]
        BY DEF Inv, TypeOK, Schedulers
      <3>2. y \in Schedulers
        BY <2>1, <3>1, ZenonT(30) DEF Schedulers
      <3>3. proc' = [proc EXCEPT ![p] = y]
        BY <2>2, <3>1
      <3> HIDE DEF y
      <3> QED  BY <3>1, <3>2, <3>3
    <2>4. UNCHANGED <<mix, row, run, w, turn, user, seen, journal, queue, qlock, cmd, count, hist>>
      BY <1>3 DEF Select
    <2>5. TypeOK'
      BY <2>3, <2>4 DEF Inv, TypeOK, Schedulers
    <2>6. cmd'.pc = "write" => cmd'.beat \in Beats /\ cmd'.want \in Wants
      BY <2>4 DEF Inv, WorkInv
    <2> QED  BY <2>4, <2>5, <2>6, OutsideKept
  <1> QED  BY <1>1, <1>2, <1>3

\* The counters of bounded events
LEMMA CountTyped ==
    ASSUME TypeOK
    PROVE  LET Counts == [claims: 0..MaxClaims, crashes: Nat, commands: Nat, user: Nat] IN
           /\ count \in Counts
           /\ [count EXCEPT !.crashes = count.crashes + 1] \in Counts
           /\ [count EXCEPT !.crashes = count.crashes + 1].claims = count.claims
           /\ [count EXCEPT !.commands = count.commands + 1] \in Counts
           /\ [count EXCEPT !.commands = count.commands + 1].claims = count.claims
           /\ [count EXCEPT !.user = count.user + 1] \in Counts
           /\ [count EXCEPT !.user = count.user + 1].claims = count.claims
  <1> DEFINE C == [claims: 0..MaxClaims, crashes: Nat, commands: Nat, user: Nat]
  <1>1. count \in C
    BY DEF TypeOK
  <1>2. count.crashes \in Nat /\ count.commands \in Nat /\ count.user \in Nat
    BY <1>1
  <1>3. count.crashes + 1 \in Nat /\ count.commands + 1 \in Nat /\ count.user + 1 \in Nat
    BY <1>2
  <1> QED  BY <1>1, <1>3, ZenonT(30)

\* claim_due's transaction: the new runs are beyond those claimed before
LEMMA WriteStep ==
    ASSUME Inv, NEW p \in Procs, Write(p)
    PROVE  Inv' /\ \A r \in RunIds : w[r].pc # "free" => w'[r] = w[r]
  <1> DEFINE S == proc[p].sel
             n == Cardinality(S)
  <1>1. S \subseteq Beats /\ n \in Nat
    <2>1. proc[p] \in Schedulers
      BY DEF Inv, TypeOK, Schedulers
    <2>2. S \subseteq Beats
      BY <2>1 DEF Schedulers
    <2>3. IsFiniteSet(S)
      BY <2>2, HeartbeatConstants, FS_Subset
    <2> QED  BY <2>2, <2>3, FS_CardinalityType
  <1>2. count.claims \in Nat /\ mix.claims \in 0..MaxClaims /\ MaxClaims \in Nat /\ count.claims + n <= mix.claims
    <2>1. count.claims + n <= mix.claims
      BY DEF Write
    <2>2. mix.claims \in 0..MaxClaims /\ MaxClaims \in Nat
      BY MixTyped DEF Inv
    <2>3. count.claims \in 0..MaxClaims
      BY DEF Inv, TypeOK
    <2> HIDE DEF n
    <2> QED  BY <2>1, <2>2, <2>3
  <1>3. PICK id \in Numbering(S) :
           /\ run' = [r \in RunIds |-> IF r \in {id[h] : h \in S}
                                        THEN [NoRun EXCEPT !.beat = CHOOSE h \in S : id[h] = r]
                                        ELSE run[r]]
           /\ w' = [r \in RunIds |-> IF r \in {id[h] : h \in S}
                                      THEN [NoWork EXCEPT !.pc = "claimed", !.proc = p] ELSE w[r]]
    BY DEF Write
  <1> DEFINE new == {id[h] : h \in S}
  <1>4. \A r \in new : r \in Nat /\ r > count.claims /\ r <= count.claims + n
    BY <1>1, <1>2 DEF Numbering
  <1>5. ASSUME NEW r \in RunIds, r \in new
        PROVE  /\ run'[r] \in Runs /\ run'[r].beat \in Beats
               /\ w'[r] \in Workers /\ w'[r].pc = "claimed"
               /\ w[r].pc = "free" /\ run[r].beat = 0
    <2>1. r > count.claims
      BY <1>4, <1>5
    <2>2. w[r].pc = "free" /\ run[r].beat = 0
      BY <2>1 DEF Inv, WorkInv
    <2>3. (CHOOSE h \in S : id[h] = r) \in Beats
      BY <1>1, <1>5
    <2>4. run'[r] = [NoRun EXCEPT !.beat = CHOOSE h \in S : id[h] = r]
      BY <1>3, <1>5
    <2>5. run'[r] \in Runs /\ run'[r].beat \in Beats
      BY <2>3, <2>4, Zenon DEF NoRun, Runs
    <2>6. w'[r] = [NoWork EXCEPT !.pc = "claimed", !.proc = p]
      BY <1>3, <1>5
    <2>7. w'[r] \in Workers /\ w'[r].pc = "claimed"
      BY <2>6, 0 \in Nat, ZenonT(30) DEF NoWork, Workers, Places, Waiting, Procs
    <2> QED  BY <2>2, <2>5, <2>7
  <1>6. \A r \in RunIds : r \notin new => run'[r] = run[r] /\ w'[r] = w[r]
    BY <1>3
  <1> HIDE DEF new
  <1>7. run' \in [RunIds -> Runs] /\ w' \in [RunIds -> Workers]
    <2>1. \A r \in RunIds : run'[r] \in Runs /\ w'[r] \in Workers
      BY <1>5, <1>6 DEF Inv, TypeOK
    <2> QED  BY <1>3, <2>1
  <1>8. ASSUME NEW h \in Beats
        PROVE  row'[h] \in Rows /\ SameTrigger(row[h], row'[h])
    <2>1. row[h] \in Rows
      BY DEF Inv, TypeOK
    <2>2. row'[h] \in {ExpiredRow(row[h]), AdvancedRow(row[h]), row[h]}
      BY DEF Write
    <2>3. 0 \in Nat /\ TRUE \in BOOLEAN
      OBVIOUS
    <2> QED  BY <2>1, <2>2, <2>3, ReceiptTyped DEF SameTrigger
  <1>9. row' \in [Beats -> Rows]
    BY <1>8 DEF Write
  <1>10. proc' \in [Procs -> Schedulers]
    <2> DEFINE y == [proc[p] EXCEPT !.pc = "idle", !.sel = {}, !.exp = {}]
    <2>1. proc \in [Procs -> Schedulers]
      BY DEF Inv, TypeOK, Schedulers
    <2>2. y \in Schedulers
      BY <2>1, ZenonT(30) DEF Schedulers
    <2>3. proc' = [proc EXCEPT ![p] = y]
      BY <2>1 DEF Write
    <2> HIDE DEF y
    <2> QED  BY <2>1, <2>2, <2>3
  <1>11. /\ count' \in [claims: 0..MaxClaims, crashes: Nat, commands: Nat, user: Nat]
         /\ count'.claims = count.claims + n
    <2>1. count.claims + n \in 0..MaxClaims
      BY <1>1, <1>2
    <2>2. count' = [count EXCEPT !.claims = count.claims + n]
      BY DEF Write
    <2> HIDE DEF n
    <2> QED  BY <2>1, <2>2 DEF Inv, TypeOK
  <1>12. UNCHANGED <<mix, turn, user, seen, journal, queue, qlock, cmd, hist>>
    BY DEF Write
  <1>13. TypeOK'
    BY <1>7, <1>9, <1>10, <1>11, <1>12 DEF Inv, TypeOK, Schedulers
  <1>14. HandoffInv'
    <2>1. Gains
      <3> SUFFICES ASSUME NEW r \in RunIds, run[r].beat \in Beats
                   PROVE  run'[r] = run[r]
        BY DEF Gains
      <3>1. run[r].beat # 0
        BY MixTyped DEF Inv
      <3> QED  BY <1>5, <1>6, <3>1
    <2> QED  BY <1>2, <1>8, <2>1, HandoffKept DEF Handed, Inv
  <1>15. WorkInv'
    <2>1. ASSUME NEW r \in RunIds
          PROVE  /\ w'[r].pc \in Active \cup Waiting => run'[r].beat \in Beats
                 /\ w'[r].pc = "settle" => w'[r].out \in Ends
                 /\ (AtTurn(w'[r]) /\ mix.kind[run'[r].beat] = "quota") => run'[r].turn
      <3>1. CASE r \in new
        BY <1>5, <3>1 DEF AtTurn
      <3>2. CASE r \notin new
        BY <1>6, <3>2 DEF Inv, WorkInv
      <3> QED  BY <3>1, <3>2
    <2>2. ASSUME NEW r \in RunIds, r > count'.claims
          PROVE  w'[r].pc = "free" /\ run'[r].beat = 0
      <3>1. r \in Nat /\ r > count.claims /\ r > count.claims + n
        BY <1>1, <1>2, <1>11, <2>2 DEF RunIds
      <3>2. r \notin new
        BY <1>1, <1>2, <1>4, <3>1
      <3> QED  BY <1>6, <3>1, <3>2 DEF Inv, WorkInv
    <2> QED  BY <1>12, <2>1, <2>2 DEF Inv, WorkInv
  <1>16. \A r \in RunIds : w[r].pc # "free" => w'[r] = w[r]
    BY <1>5, <1>6
  <1> QED  BY <1>13, <1>14, <1>15, <1>16 DEF Inv

\* A process dies
LEMMA CrashStep ==
    ASSUME Inv, NEW p \in Procs, Crash(p)
    PROVE  Inv' /\ row' = row
  <1>1. \A r \in RunIds : \/ w'[r] = w[r]
                          \/ w'[r] = [NoWork EXCEPT !.pc = "dead"] /\ w[r].pc # "free"
    BY DEF Crash, Active, Waiting
  <1>2. [NoWork EXCEPT !.pc = "dead"] \in Workers /\ [NoWork EXCEPT !.pc = "dead"].pc = "dead"
    BY 0 \in Nat, ZenonT(30) DEF NoWork, Workers, Places, Procs
  <1>3. UNCHANGED <<mix, row, run, turn, user, seen, journal, queue, cmd, hist>>
    BY DEF Crash
  <1>4. count' \in [claims: 0..MaxClaims, crashes: Nat, commands: Nat, user: Nat] /\ count'.claims = count.claims
    <2>1. count' = [count EXCEPT !.crashes = count.crashes + 1]
      BY DEF Crash
    <2> QED  BY <2>1, CountTyped DEF Inv
  <1>5. TypeOK'
    <2>1. w' \in [RunIds -> Workers]
      <3>1. \A r \in RunIds : w'[r] \in Workers
        BY <1>1, <1>2 DEF Inv, TypeOK
      <3> QED  BY <3>1 DEF Crash
    <2>2. qlock' \in BOOLEAN
      BY DEF Crash, Inv, TypeOK
    <2>3. proc' \in [Procs -> Schedulers]
      BY IdleTyped DEF Crash, Inv, TypeOK, Schedulers
    <2> QED  BY <1>3, <1>4, <2>1, <2>2, <2>3 DEF Inv, TypeOK, Schedulers
  <1>6. WorkInv'
    <2>1. "dead" \notin Active \cup Waiting
      BY DEF Active, Waiting
    <2>2. ASSUME NEW r \in RunIds
          PROVE  /\ w'[r].pc \in Active \cup Waiting => run'[r].beat \in Beats
                 /\ w'[r].pc = "settle" => w'[r].out \in Ends
                 /\ (AtTurn(w'[r]) /\ mix.kind[run'[r].beat] = "quota") => run'[r].turn
                 /\ r > count'.claims => w'[r].pc = "free" /\ run'[r].beat = 0
      BY <1>1, <1>2, <1>3, <1>4, <2>1 DEF Inv, WorkInv, AtTurn
    <2> QED  BY <1>3, <2>2 DEF Inv, WorkInv
  <1>7. HandoffInv'
    BY <1>3 DEF Inv, HandoffInv, Names
  <1> QED  BY <1>3, <1>5, <1>6, <1>7 DEF Inv

\* The commands: what they write over a trigger ends its handoff
LEMMA CommandSteps ==
    ASSUME Inv, NEW h \in Beats, NEW want \in Wants,
           CommandRead(h, want) \/ CommandWrite \/ CompleteDelivery(h)
    PROVE  Inv' /\ w' = w
  <1> DEFINE Cmds == [pc: {"idle", "write"}, beat: Beats \cup {0}, want: Wants \cup {""}, seen: Rows]
  <1>0. row[h] \in Rows /\ cmd \in Cmds
    BY DEF Inv, TypeOK
  <1>1. CASE CommandRead(h, want)
    <2>1. cmd' = [pc |-> "write", beat |-> h, want |-> want, seen |-> row[h]]
      BY <1>1 DEF CommandRead
    <2>2. cmd' \in Cmds /\ cmd'.beat = h /\ cmd'.want = want
      BY <1>0, <2>1, Zenon
    <2>3. UNCHANGED <<mix, row, run, proc, w, turn, user, seen, journal, queue, qlock, hist>>
          /\ count' = [count EXCEPT !.commands = count.commands + 1]
      BY <1>1 DEF CommandRead
    <2>4. TypeOK' /\ count'.claims = count.claims
      BY <2>2, <2>3, CountTyped DEF Inv, TypeOK
    <2> QED  BY <2>2, <2>3, <2>4, OutsideKept
  <1>2. CASE CommandWrite
    <2> DEFINE g == cmd.beat
               updates == cmd.want \in {"update", "reactivate"}
               x == IF updates THEN UpdatedRow(row[g], cmd.seen, Kind(g), cmd.want = "reactivate")
                               ELSE SetRow(row[g], cmd.seen, cmd.want)
    <2>1. g \in Beats /\ cmd.want \in Wants /\ cmd.seen \in Rows
      BY <1>0, <1>2 DEF CommandWrite, Inv, WorkInv
    <2>2. row[g] \in Rows /\ (cmd.want = "reactivate") \in BOOLEAN
      BY <2>1 DEF Inv, TypeOK
    <2>3. x \in Rows /\ (SameTrigger(row[g], x) \/ x.trigger \notin Open)
      <3>1. CASE updates
        <4>1. x = UpdatedRow(row[g], cmd.seen, Kind(g), cmd.want = "reactivate")
          BY <3>1
        <4>2. x \in Rows /\ x.trigger \in {"not_applicable", "monitoring"}
          BY <2>1, <2>2, <4>1, UpdatedTyped, Zenon
        <4> QED  BY <4>2 DEF Open
      <3>2. CASE ~updates
        <4>1. x = SetRow(row[g], cmd.seen, cmd.want)
          BY <3>2
        <4>2. cmd.want \in {"PAUSED", "ACTIVE", "CANCELLED"}
          BY <2>1, <3>2 DEF Wants
        <4> QED  BY <2>1, <2>2, <4>1, <4>2, SetTyped, Zenon
      <3> QED  BY <3>1, <3>2
    <2>4. row' = [row EXCEPT ![g] = x] /\ cmd' = NoCommand
      BY <1>2 DEF CommandWrite
    <2>5. hist' \in Hists
      <3> DEFINE handed == IF updates THEN hist.handed \ {g} ELSE hist.handed
                 raced == hist.raced \/ Raced(g)
      <3>1. handed \in SUBSET Beats /\ raced \in BOOLEAN
        BY HistTyped DEF Inv
      <3>2. hist' = [hist EXCEPT !.handed = handed, !.raced = raced]
        BY <1>2 DEF CommandWrite
      <3> HIDE DEF handed, raced
      <3> QED  BY <3>1, <3>2, HistTyped DEF Inv
    <2>6. UNCHANGED <<mix, run, proc, w, turn, user, seen, journal, queue, qlock, count>>
      BY <1>2 DEF CommandWrite
    <2> HIDE DEF x, g
    <2>7. row' \in [Beats -> Rows] /\ \A b \in Beats : Handed(b)
      BY <2>1, <2>3, <2>4, RowKept
    <2>8. NoCommand \in Cmds /\ NoCommand.pc = "idle"
      BY NewRowTyped DEF NoCommand
    <2>9. TypeOK'
      BY <2>4, <2>5, <2>6, <2>7, <2>8 DEF Inv, TypeOK, Hists
    <2> QED  BY <2>4, <2>6, <2>7, <2>8, <2>9, StoreKept
  <1>3. CASE CompleteDelivery(h)
    <2> DEFINE x == DeliveredRow(row[h])
    <2>1. x \in Rows /\ x.trigger \notin Open
      BY <1>0, DeliveredTyped DEF Open
    <2>2. row' = [row EXCEPT ![h] = x]
      BY <1>3 DEF CompleteDelivery
    <2>3. UNCHANGED <<mix, run, proc, w, turn, user, seen, journal, queue, qlock, cmd, hist>>
          /\ count' = [count EXCEPT !.commands = count.commands + 1]
      BY <1>3 DEF CompleteDelivery
    <2> HIDE DEF x
    <2>4. row' \in [Beats -> Rows] /\ \A b \in Beats : Handed(b)
      BY <2>1, <2>2, RowKept
    <2>5. TypeOK' /\ count'.claims = count.claims
      BY <2>3, <2>4, CountTyped DEF Inv, TypeOK
    <2>6. cmd'.pc = "write" => cmd'.beat \in Beats /\ cmd'.want \in Wants
      BY <2>3 DEF Inv, WorkInv
    <2> QED  BY <2>3, <2>4, <2>5, <2>6, StoreKept
  <1> QED  BY <1>1, <1>2, <1>3

\* Time, the user, the App Server and the workers of the queue
LEMMA OutsideSteps ==
    ASSUME Inv, \/ \E h \in Beats : Tick(h)
                \/ UserTurn
                \/ \E r \in RunIds : TurnEnds(r)
                \/ \E i \in Items : WorkerEnds(i)
    PROVE  Inv' /\ w' = w
  <1>0. ASSUME UNCHANGED cmd
        PROVE  cmd'.pc = "write" => cmd'.beat \in Beats /\ cmd'.want \in Wants
    BY <1>0 DEF Inv, WorkInv
  <1>1. ASSUME NEW h \in Beats, Tick(h)
        PROVE  Inv' /\ w' = w
    <2>1. row[h] \in Rows
      BY DEF Inv, TypeOK
    <2>2. PICK x \in {[row[h] EXCEPT !.next = "due"], [row[h] EXCEPT !.expired = TRUE]} :
             row' = [row EXCEPT ![h] = x]
      BY <1>1 DEF Tick
    <2>3. x \in Rows /\ SameTrigger(row[h], x)
      <3>1. [row[h] EXCEPT !.next = "due"] \in Rows /\ SameTrigger(row[h], [row[h] EXCEPT !.next = "due"])
        BY <2>1, ZenonT(30) DEF Rows, SameTrigger
      <3>2. [row[h] EXCEPT !.expired = TRUE] \in Rows /\ SameTrigger(row[h], [row[h] EXCEPT !.expired = TRUE])
        BY <2>1, ZenonT(30) DEF Rows, SameTrigger
      <3> QED  BY <2>2, <3>1, <3>2
    <2>4. row' \in [Beats -> Rows] /\ \A b \in Beats : Handed(b)
      BY <2>2, <2>3, RowKept
    <2>5. UNCHANGED <<mix, run, proc, w, turn, user, seen, journal, queue, qlock, cmd, count, hist>>
      BY <1>1 DEF Tick
    <2>6. TypeOK'
      BY <2>4, <2>5 DEF Inv, TypeOK
    <2> QED  BY <1>0, <2>4, <2>5, <2>6, StoreKept
  <1> DEFINE Users == [n: Nat, busy: BOOLEAN, ok: BOOLEAN, cold: BOOLEAN]
  <1>u. /\ user \in Users
        /\ [user EXCEPT !.busy = TRUE] \in Users /\ [user EXCEPT !.cold = ~user.cold] \in Users
        /\ \A ok \in BOOLEAN : /\ [user EXCEPT !.busy = FALSE, !.n = user.n + 1, !.ok = ok] \in Users
                               /\ [user EXCEPT !.n = user.n + 1, !.ok = ok] \in Users
    <2>1. user \in Users
      BY DEF Inv, TypeOK
    <2>2. user.n \in Nat /\ (~user.cold) \in BOOLEAN
      BY <2>1
    <2>3. user.n + 1 \in Nat
      BY <2>2
    <2> QED  BY <2>1, <2>2, <2>3, ZenonT(30)
  <1>2. ASSUME UserTurn
        PROVE  Inv' /\ w' = w
    <2>1. UNCHANGED <<mix, row, run, proc, w, turn, seen, journal, queue, qlock, cmd, hist>>
      BY <1>2 DEF UserTurn
    <2>2. user' \in Users
      <3>1. \/ user' = [user EXCEPT !.busy = TRUE]
            \/ \E ok \in BOOLEAN : user' = [user EXCEPT !.busy = FALSE, !.n = user.n + 1, !.ok = ok]
            \/ user' = [user EXCEPT !.cold = ~user.cold]
        BY <1>2, Zenon DEF UserTurn
      <3> QED  BY <1>u, <3>1, Zenon
    <2>3. count' = count \/ count' = [count EXCEPT !.user = count.user + 1]
      BY <1>2 DEF UserTurn
    <2>4. TypeOK' /\ count'.claims = count.claims
      BY <2>1, <2>2, <2>3, CountTyped DEF Inv, TypeOK
    <2> QED  BY <1>0, <2>1, <2>4, OutsideKept
  <1>3. ASSUME NEW r \in RunIds, TurnEnds(r)
        PROVE  Inv' /\ w' = w
    <2>1. UNCHANGED <<mix, row, run, proc, w, seen, journal, queue, qlock, cmd, count, hist>>
      BY <1>3 DEF TurnEnds
    <2>2. turn' \in [RunIds -> {"none", "running", "completed", "failed"}]
      BY <1>3 DEF TurnEnds, Inv, TypeOK
    <2>3. user' \in Users
      <3>1. \/ user' = user
            \/ \E ok \in BOOLEAN : user' = [user EXCEPT !.n = user.n + 1, !.ok = ok]
        BY <1>3 DEF TurnEnds
      <3> QED  BY <1>u, <3>1, Zenon
    <2>4. TypeOK'
      BY <2>1, <2>2, <2>3 DEF Inv, TypeOK
    <2> QED  BY <1>0, <2>1, <2>4, OutsideKept
  <1>4. ASSUME NEW i \in Items, WorkerEnds(i)
        PROVE  Inv' /\ w' = w
    <2>1. UNCHANGED <<mix, row, run, proc, w, turn, user, seen, journal, qlock, cmd, count, hist>>
      BY <1>4 DEF WorkerEnds
    <2>2. queue' \in Snaps
      <3>1. PICK st \in {"worked", "spoiled"} : queue' = [queue EXCEPT ![i].st = st]
        BY <1>4 DEF WorkerEnds
      <3>2. queue[i] \in QItems
        BY DEF Inv, TypeOK, Snaps, QItems
      <3>3. [queue[i] EXCEPT !.st = st] \in QItems
        <4>1. st \in {"pending", "claimed", "worked", "spoiled", "completed"}
          BY <3>1
        <4> QED  BY <3>2, <4>1, Zenon DEF QItems
      <3> QED  BY <3>1, <3>3 DEF Inv, TypeOK, Snaps, QItems
    <2>3. TypeOK'
      BY <2>1, <2>2 DEF Inv, TypeOK
    <2> QED  BY <1>0, <2>1, <2>3, OutsideKept
  <1> QED  BY <1>1, <1>2, <1>3, <1>4

-----------------------------------------------------------------------------
(* The theorems.                                                           *)

\* The invariant holds initially
LEMMA InitInv ==
    ASSUME Init
    PROVE  Inv
  <1>1. mix \in MixType
    BY HeartbeatConstants DEF Init
  <1>2. mix.ended \subseteq Items /\ mix.gone \subseteq Beats /\ mix.kind \in [Beats -> Kinds]
    BY <1>1, Zenon DEF MixType
  <1>3. ASSUME NEW h \in Beats
        PROVE  row[h] \in Rows /\ row[h].trigger \notin Open
    <2>1. NewRow(Kind(h)) \in Rows /\ NewRow(Kind(h)).trigger \notin Open
      BY NewRowTyped DEF Open
    <2>2. [NewRow(Kind(h)) EXCEPT !.status = "CANCELLED"] \in Rows
          /\ [NewRow(Kind(h)) EXCEPT !.status = "CANCELLED"].trigger = NewRow(Kind(h)).trigger
      BY <2>1, ZenonT(30) DEF Rows, Statuses, Terminal
    <2>3. row[h] \in {NewRow(Kind(h)), [NewRow(Kind(h)) EXCEPT !.status = "CANCELLED"]}
      BY DEF Init
    <2> QED  BY <2>1, <2>2, <2>3
  <1>4. row \in [Beats -> Rows]
    BY <1>3 DEF Init
  <1>5. NoRun \in Runs /\ NoRun.beat = 0 /\ run \in [RunIds -> Runs] /\ \A r \in RunIds : run[r] = NoRun
    BY DEF Init, NoRun, Runs
  <1>6. /\ NoWork \in Workers /\ NoWork.pc = "free" /\ w \in [RunIds -> Workers]
        /\ \A r \in RunIds : w[r] = NoWork
    <2>1. NoWork \in Workers /\ NoWork.pc = "free"
      BY 0 \in Nat, ZenonT(30) DEF NoWork, Workers, Places, Procs
    <2> QED  BY <2>1 DEF Init
  <1>7. proc \in [Procs -> Schedulers]
    BY IdleTyped DEF Init
  <1>8. queue \in Snaps
    <2>1. NewItem \in QItems /\ [NewItem EXCEPT !.st = "completed"] \in QItems
      BY Zenon DEF NewItem, QItems
    <2> QED  BY <2>1 DEF Init, Snaps, QItems
  <1>9. /\ cmd \in [pc: {"idle", "write"}, beat: Beats \cup {0}, want: Wants \cup {""}, seen: Rows]
        /\ cmd.pc = "idle"
    BY NewRowTyped DEF Init, NoCommand
  <1>10. /\ turn \in [RunIds -> {"none", "running", "completed", "failed"}]
         /\ user \in [n: Nat, busy: BOOLEAN, ok: BOOLEAN, cold: BOOLEAN]
         /\ seen \in [Beats -> Nat] /\ journal \in [Beats -> SUBSET Entries]
         /\ qlock \in BOOLEAN
    BY DEF Init, NoFile
  <1>11. count \in [claims: 0..MaxClaims, crashes: Nat, commands: Nat, user: Nat]
    <2>1. 0 \in 0..MaxClaims
      BY HeartbeatConstants
    <2> QED  BY <2>1 DEF Init
  <1>12. hist \in Hists
    BY DEF Init, Hists
  <1>13. TypeOK
    BY <1>4, <1>5, <1>6, <1>7, <1>8, <1>9, <1>10, <1>11, <1>12 DEF TypeOK, Hists, Init, Schedulers
  <1>14. WorkInv
    BY <1>5, <1>6, <1>9 DEF WorkInv, Active, Waiting, AtTurn
  <1>15. HandoffInv
    BY <1>3 DEF HandoffInv
  <1> QED  BY <1>13, <1>14, <1>15 DEF Inv

\* Each step keeps the invariant and, where it touches the worker of a run in
\* flight, the status of every heartbeat that has ended
LEMMA StepInv ==
    ASSUME Inv, [Next]_vars
    PROVE  /\ Inv'
           /\ Kept \/ \A r \in RunIds : w[r].pc # "free" => w'[r] = w[r]
  <1>1. ASSUME NEW r \in RunIds, WorkerStep(r)
        PROVE  Inv' /\ Kept
    BY <1>1, WorkerKeeps
  <1>2. ASSUME NEW p \in Procs, RecoverRead(p) \/ RecoverWrite(p) \/ Begin(p) \/ Select(p)
        PROVE  Inv' /\ w' = w
    BY <1>2, ServiceSteps
  <1>3. ASSUME NEW p \in Procs, Write(p)
        PROVE  Inv' /\ \A r \in RunIds : w[r].pc # "free" => w'[r] = w[r]
    BY <1>3, WriteStep
  <1>4. ASSUME NEW p \in Procs, Crash(p)
        PROVE  Inv' /\ Kept
    BY <1>4, CrashStep DEF Kept
  <1>5. ASSUME CommandWrite
        PROVE  Inv' /\ w' = w
    <2>1. cmd.beat \in Beats /\ cmd.want \in Wants
      BY <1>5 DEF CommandWrite, Inv, WorkInv
    <2> QED  BY <1>5, <2>1, CommandSteps
  <1>6. ASSUME NEW h \in Beats, NEW want \in Wants, CommandRead(h, want)
        PROVE  Inv' /\ w' = w
    BY <1>6, CommandSteps
  <1>7. ASSUME NEW h \in Beats, CompleteDelivery(h)
        PROVE  Inv' /\ w' = w
    <2>1. "update" \in Wants
      BY DEF Wants
    <2> QED  BY <1>7, <2>1, CommandSteps
  <1>8. ASSUME \/ \E h \in Beats : Tick(h)
               \/ UserTurn
               \/ \E r \in RunIds : TurnEnds(r)
               \/ \E i \in Items : WorkerEnds(i)
        PROVE  Inv' /\ w' = w
    BY <1>8, OutsideSteps
  <1>9. CASE UNCHANGED vars
    <2>1. Inv'
      BY <1>9 DEF vars, Inv, TypeOK, WorkInv, HandoffInv, Names
    <2> QED  BY <1>9, <2>1 DEF vars
  <1> QED  BY <1>1, <1>2, <1>3, <1>4, <1>5, <1>6, <1>7, <1>8, <1>9 DEF Next

\* The inductive invariant, in every reachable state
THEOREM HandoffInvariant == Spec => []Inv
  <1>1. Init => Inv
    BY InitInv
  <1>2. Inv /\ [Next]_vars => Inv'
    BY StepInv
  <1> QED  BY <1>1, <1>2, PTL DEF Spec

\* Every table, file and worker keeps its type, whatever dies or races.
THEOREM TypeCorrect == Spec => []TypeOK
  <1>1. Inv => TypeOK
    BY DEF Inv
  <1> QED  BY <1>1, HandoffInvariant, PTL

\* The completion of a run in flight never revives a heartbeat that was
\* cancelled, completed or failed in the meantime.
THEOREM NoRevival == Spec => NoRevivalByRun
  <1> DEFINE A == \A r \in RunIds, h \in Beats :
                    (w[r].pc \in Waiting \cup Active /\ w'[r] # w[r] /\ row[h].status \in Terminal)
                      => row'[h].status = row[h].status
  <1>1. Inv /\ [Next]_vars => A
    <2>1. "free" \notin Waiting \cup Active
      BY DEF Waiting, Active
    <2> QED  BY <2>1, StepInv DEF Kept
  <1>2. Inv /\ [Next]_vars => [A]_vars
    BY <1>1
  <1>3. NoRevivalByRun <=> [][A]_vars
    BY DEF NoRevivalByRun
  <1> HIDE DEF A
  <1> QED  BY <1>2, <1>3, HandoffInvariant, PTL DEF Spec

=============================================================================
