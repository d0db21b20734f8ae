------------------------ MODULE HeartbeatRuns_proofs ------------------------
(***************************************************************************)
(* The heartbeat scheduler, proved for any heartbeats, queue items, runs   *)
(* and mixes: what its runs may not do twice or too often, and what it     *)
(* must have on record.                                                    *)
(***************************************************************************)
EXTENDS Heartbeat_proofs

Busy == Waiting \cup Active

-----------------------------------------------------------------------------
(* What a worker's step does, as one of a few effects.                     *)

\* No table, turn, file or history changes
Still == row' = row /\ turn' = turn /\ queue' = queue /\ hist' = hist

\* Worker r keeps its process, fingerprint and item
Carries(r) == w'[r].proc = w[r].proc /\ w'[r].fp = w[r].fp /\ w'[r].item = w[r].item

\* The row of worker r becomes x
Writes(r, x) == row' = [row EXCEPT ![Beat(r)] = x]

Submits(r) == /\ w[r].pc = "claimed" /\ Still /\ Carries(r)
              /\ \/ w'[r].pc = "refused" /\ w'[r].out = "deferred_busy"
                 \/ w'[r].pc = "begin" /\ w'[r].out = w[r].out /\ ~Refused(r)

\* An outcome that record_run takes for nothing special
Common == Ends \cup {"probe_thread_status", "workbench_probe_completed"}

GoesToArm(r) == /\ w[r].pc = "begin" /\ w'[r].pc = "arm" /\ Kind(Beat(r)) = "quota"
                /\ Still /\ Carries(r)
GoesToRead(r) == /\ w[r].pc = "begin" /\ w'[r].pc = "read" /\ Kind(Beat(r)) = "prompt"
                 /\ Still /\ Carries(r)
GoesToStart(r) == /\ w[r].pc = "read" /\ w'[r].pc = "start" /\ ~ThreadBusy(Wakes(Beat(r)))
                  /\ Still /\ Carries(r)
GoesToEnd(r) == /\ w[r].pc \in {"read", "start", "note", "wait"} /\ w'[r].pc \in {"wait", "settle"}
                /\ w[r].pc # "note" => w'[r].pc = "settle"
                /\ Still /\ Carries(r)
GoesToRecord(r) == /\ w[r].pc \in {"begin", "arm", "observe", "claim", "read", "settle"}
                   /\ w'[r].pc = "record"
                   /\ w[r].pc \in {"observe", "claim"} => w'[r].out \in {w[r].out, "failed"}
                   /\ w[r].pc \notin {"observe", "claim"} => w'[r].out \in Common
                   /\ (Kind(Beat(r)) = "quota" /\ w[r].pc \in {"read", "settle"}) =>
                        ~MayFinishTrigger(row[Beat(r)], r)
                   /\ Still /\ Carries(r)
Inspects(r) == /\ w[r].pc = "begin" /\ w'[r].pc \in {"observe", "claim", "record"}
               /\ Kind(Beat(r)) \in {"terminal", "continue"} /\ w'[r].fp \in {0, user.n}
               /\ w'[r].pc = "claim" => w'[r].fp # 0 /\ Kind(Beat(r)) = "terminal"
               /\ w'[r].pc = "observe" => Kind(Beat(r)) = "continue"
               /\ w'[r].out = "probe_thread_status" /\ w'[r].proc = w[r].proc /\ Still
Changes(r) == /\ w[r].pc = "observe" /\ w'[r].pc = "claim" /\ w[r].fp # 0
              /\ w'[r].out = w[r].out /\ Still /\ Carries(r)
Arms(r) == /\ w[r].pc = "arm" /\ w'[r].pc = "read" /\ MayArm(row[Beat(r)]) /\ Carries(r)
           /\ Writes(r, ArmedRow(row[Beat(r)], r)) /\ turn' = turn /\ queue' = queue /\ hist' = hist
Claims(r) == /\ w[r].pc = "claim" /\ w'[r].pc \in {"read", "settle"} /\ Carries(r)
             /\ MayClaimReceipt(row[Beat(r)], w[r].fp)
             /\ w'[r].pc = "settle" => Kind(Beat(r)) = "continue"
             /\ Writes(r, ClaimedReceiptRow(row[Beat(r)], w[r].fp))
             /\ turn' = turn /\ queue' = queue /\ hist' = hist
Begins(r) == /\ w[r].pc = "start" /\ w'[r].pc \in {"note", "wait", "settle"} /\ Carries(r)
             /\ turn' = [turn EXCEPT ![r] = "running"] /\ hist' = Started(r)
             /\ row' = row /\ queue' = queue
Finishes(r) == /\ w[r].pc = "settle" /\ w'[r].pc = "record" /\ Kind(Beat(r)) = "quota" /\ Carries(r)
               /\ MayFinishTrigger(row[Beat(r)], r)
               /\ Writes(r, FinishedTriggerRow(row[Beat(r)], Woken(r)))
               /\ hist' = [hist EXCEPT !.handed = IF Woken(r) THEN @ \cup {Beat(r)} ELSE @]
               /\ w'[r].out = (IF Woken(r) THEN "probe_trigger_handoff" ELSE w[r].out)
               /\ turn' = turn /\ queue' = queue
Reports(r) == /\ w[r].pc = "settle" /\ w'[r].pc = "record" /\ Carries(r)
              /\ Kind(Beat(r)) \in {"terminal", "continue"}
              /\ Writes(r, FinishedReceiptRow(row[Beat(r)], Woken(r)))
              /\ hist' = [hist EXCEPT !.cont = IF Woken(r) THEN @ ELSE {c \in @ : c[3] # r}]
              /\ w'[r].out \in {"terminal_continuation_completed", "failed"}
                   \/ (Kind(Beat(r)) = "terminal" /\ Woken(r) /\ w'[r].out = "parent_terminal_receipt_delivered")
              /\ turn' = turn /\ queue' = queue
Takes(r) == /\ w[r].pc = "begin" /\ w'[r].pc = "read" /\ Kind(Beat(r)) = "queue"
            /\ Own(Beat(r), {"claimed"}) = {} /\ Pending # {}
            /\ w'[r].item = FirstOf(Pending) /\ w'[r].proc = w[r].proc
            /\ queue' = [Accepted(Beat(r)) EXCEPT ![FirstOf(Pending)] =
                            [st |-> "claimed", by |-> Beat(r), run |-> r, woken |-> FALSE]]
            /\ row' = row /\ turn' = turn /\ hist' = hist
Looks(r) == /\ w[r].pc = "begin" /\ w'[r].pc = "record" /\ Kind(Beat(r)) = "queue"
            /\ queue' = queue \/ queue' = Accepted(Beat(r))
            /\ w'[r].proc = w[r].proc
            /\ \/ w'[r].out \in {"failed", "queue_continuation_released"}
               \/ w'[r].out = "queue_no_change_silent" /\ w'[r].snap \in Snaps
            /\ row' = row /\ turn' = turn /\ hist' = hist
Marks(r) == /\ w[r].pc = "settle" /\ w'[r].pc = "begin" /\ Kind(Beat(r)) = "queue" /\ Carries(r)
            /\ queue' = [queue EXCEPT ![w[r].item].woken = TRUE]
            /\ row' = row /\ turn' = turn /\ hist' = hist
Records(r) == /\ w[r].pc \in {"record", "refused"} /\ w'[r].pc = "done"
              /\ \E left \in ReceiptsLeft(r) :
                    Writes(r, RecordedRow(row[Beat(r)], Kind(Beat(r)), mix.strict,
                                          Result(r, left[1], left[2])))
              /\ run' = [run EXCEPT ![r].done = TRUE]
              /\ turn' = turn /\ queue' = queue /\ hist' = hist

Effect(r) ==
    \/ Submits(r) \/ GoesToArm(r) \/ GoesToRead(r) \/ GoesToStart(r) \/ GoesToEnd(r)
    \/ GoesToRecord(r) \/ Inspects(r) \/ Changes(r) \/ Arms(r) \/ Claims(r) \/ Begins(r)
    \/ Finishes(r) \/ Reports(r) \/ Takes(r) \/ Looks(r) \/ Marks(r) \/ Records(r)

\* What every step of worker r leaves alone
Alone(r) == /\ UNCHANGED <<mix, proc, cmd, count, user>>
            /\ w[r].pc \in Busy /\ Beat(r) \in Beats
            /\ \A s \in RunIds : s # r => w'[s] = w[s]
            /\ \A s \in RunIds : run'[s].beat = run[s].beat /\ (run[s].turn => run'[s].turn)
            /\ w[r].pc \notin {"record", "refused"} => \A s \in RunIds : run'[s].done = run[s].done

\* The worker after a move
LEMMA Fields ==
    ASSUME Inv, NEW r \in RunIds, NEW pc, NEW out
    PROVE  /\ To(r, pc).pc = pc /\ To(r, pc).out = w[r].out /\ To(r, pc).proc = w[r].proc
           /\ To(r, pc).fp = w[r].fp /\ To(r, pc).item = w[r].item
           /\ Out(r, pc, out).pc = pc /\ Out(r, pc, out).out = out /\ Out(r, pc, out).proc = w[r].proc
           /\ Out(r, pc, out).fp = w[r].fp /\ Out(r, pc, out).item = w[r].item
           /\ \A v : Go(r, v) => w'[r] = v /\ \A s \in RunIds : s # r => w'[s] = w[s]
  <1>1. w[r] \in Workers /\ w \in [RunIds -> Workers]
    BY DEF Inv, TypeOK
  <1>2. /\ To(r, pc).pc = pc /\ To(r, pc).out = w[r].out /\ To(r, pc).proc = w[r].proc
        /\ To(r, pc).fp = w[r].fp /\ To(r, pc).item = w[r].item
    BY <1>1, Zenon DEF To, Workers
  <1>3. /\ Out(r, pc, out).pc = pc /\ Out(r, pc, out).out = out /\ Out(r, pc, out).proc = w[r].proc
        /\ Out(r, pc, out).fp = w[r].fp /\ Out(r, pc, out).item = w[r].item
    BY <1>1, Zenon DEF Out, Workers
  <1>4. \A v : Go(r, v) => w'[r] = v /\ \A s \in RunIds : s # r => w'[s] = w[s]
    BY <1>1 DEF Go
  <1> QED  BY <1>2, <1>3, <1>4

\* The steps that only move
LEMMA MovingEffects ==
    ASSUME Inv, NEW r \in RunIds,
           \/ Submit(r) \/ Fail(r) \/ BeginPrompt(r) \/ BeginPlain(r) \/ BeginQuota(r)
           \/ Read(r) \/ WaitTurn(r) \/ SettlePrompt(r) \/ NoteTurn(r)
    PROVE  Effect(r) /\ Alone(r)
  <1>0. /\ w[r].pc \in Busy => Beat(r) \in Beats
        /\ w[r].pc = "settle" => w[r].out \in Ends
    BY Works DEF Busy
  <1>1. CASE Submit(r)
    <2>1. w[r].pc = "claimed" /\ Still /\ UNCHANGED <<mix, proc, cmd, count, user, run>>
      BY <1>1 DEF Submit, At, Still
    <2>2. Submits(r) /\ \A s \in RunIds : s # r => w'[s] = w[s]
      <3>1. CASE Refused(r)
        BY <1>1, <2>1, <3>1, Fields DEF Submit, Submits, Carries
      <3>2. CASE ~Refused(r)
        <4>1. Go(r, To(r, "begin"))
          BY <1>1, <3>2, Zenon DEF Submit
        <4> QED  BY <2>1, <3>2, <4>1, Fields DEF Submits, Carries
      <3> QED  BY <3>1, <3>2
    <2> QED  BY <1>0, <2>1, <2>2 DEF Effect, Alone, Busy, Waiting
  <1>2. CASE Fail(r)
    <2>1. w[r].pc \in {"begin", "observe", "read"} /\ Still /\ UNCHANGED <<mix, proc, cmd, count, user, run>>
      BY <1>2 DEF Fail, Still
    <2>2. (GoesToEnd(r) \/ GoesToRecord(r)) /\ \A s \in RunIds : s # r => w'[s] = w[s]
      <3>1. CASE At(r, "read") /\ Kind(Beat(r)) # "continue"
        BY <1>2, <2>1, <3>1, Fields DEF Fail, At, GoesToEnd, Carries
      <3>2. CASE ~(At(r, "read") /\ Kind(Beat(r)) # "continue")
        BY <1>2, <2>1, <3>2, Fields DEF Fail, At, GoesToRecord, Carries, Active, Common, Ends
      <3> QED  BY <3>1, <3>2
    <2> QED  BY <1>0, <2>1, <2>2 DEF Effect, Alone, Busy, Active
  <1>3. CASE BeginPrompt(r)
    <2>1. w[r].pc = "begin" /\ Still /\ UNCHANGED <<mix, proc, cmd, count, user, run>>
      BY <1>3 DEF BeginPrompt, At, Still
    <2>2. GoesToRead(r) /\ \A s \in RunIds : s # r => w'[s] = w[s]
      BY <1>3, <2>1, Fields DEF BeginPrompt, GoesToRead, Carries
    <2> QED  BY <1>0, <2>1, <2>2 DEF Effect, Alone, Busy, Active
  <1>4. CASE BeginPlain(r)
    <2>1. w[r].pc = "begin" /\ Still /\ UNCHANGED <<mix, proc, cmd, count, user, run>>
      BY <1>4 DEF BeginPlain, At, Still
    <2>2. PICK out \in {"probe_thread_status", "workbench_probe_completed"} : Go(r, Out(r, "record", out))
      BY <1>4 DEF BeginPlain
    <2>3. GoesToRecord(r) /\ \A s \in RunIds : s # r => w'[s] = w[s]
      BY <2>1, <2>2, Fields DEF GoesToRecord, Carries, Active, Common
    <2> QED  BY <1>0, <2>1, <2>3 DEF Effect, Alone, Busy, Active
  <1>5. CASE BeginQuota(r)
    <2>1. w[r].pc = "begin" /\ Still /\ UNCHANGED <<mix, proc, cmd, count, user, run>>
      BY <1>5 DEF BeginQuota, At, Still
    <2>2. (GoesToArm(r) \/ GoesToRecord(r)) /\ \A s \in RunIds : s # r => w'[s] = w[s]
      BY <1>5, <2>1, Fields DEF BeginQuota, GoesToArm, GoesToRecord, Carries, Active, Common
    <2> QED  BY <1>0, <2>1, <2>2 DEF Effect, Alone, Busy, Active
  <1>6. CASE Read(r)
    <2>1. w[r].pc = "read" /\ Still /\ UNCHANGED <<mix, proc, cmd, count, user, run>>
      BY <1>6 DEF Read, At, Still
    <2>2. (GoesToStart(r) \/ GoesToEnd(r)) /\ \A s \in RunIds : s # r => w'[s] = w[s]
      BY <1>6, <2>1, Fields DEF Read, GoesToStart, GoesToEnd, Carries
    <2> QED  BY <1>0, <2>1, <2>2 DEF Effect, Alone, Busy, Active
  <1>7. CASE WaitTurn(r)
    <2>1. w[r].pc = "wait" /\ Still /\ UNCHANGED <<mix, proc, cmd, count, user, run>>
      BY <1>7 DEF WaitTurn, At, Still
    <2>2. GoesToEnd(r) /\ \A s \in RunIds : s # r => w'[s] = w[s]
      BY <1>7, <2>1, Fields DEF WaitTurn, GoesToEnd, Carries
    <2> QED  BY <1>0, <2>1, <2>2 DEF Effect, Alone, Busy, Active
  <1>8. CASE SettlePrompt(r)
    <2>1. w[r].pc = "settle" /\ Still /\ UNCHANGED <<mix, proc, cmd, count, user, run>>
      BY <1>8 DEF SettlePrompt, At, Still
    <2>2. GoesToRecord(r) /\ \A s \in RunIds : s # r => w'[s] = w[s]
      BY <1>0, <1>8, <2>1, Fields DEF SettlePrompt, GoesToRecord, Carries, Active, Common
    <2> QED  BY <1>0, <2>1, <2>2 DEF Effect, Alone, Busy, Active
  <1>9. CASE NoteTurn(r)
    <2>1. w[r].pc = "note" /\ Still /\ UNCHANGED <<mix, proc, cmd, count, user>>
      BY <1>9 DEF NoteTurn, At, Still
    <2>2. GoesToEnd(r) /\ \A s \in RunIds : s # r => w'[s] = w[s]
      <3>1. CASE run[r].done
        BY <1>9, <2>1, <3>1, Fields DEF NoteTurn, GoesToEnd, Carries
      <3>2. CASE ~run[r].done
        BY <1>9, <2>1, <3>2, Fields DEF NoteTurn, GoesToEnd, Carries
      <3> QED  BY <3>1, <3>2
    <2>3. \A s \in RunIds : /\ run'[s].beat = run[s].beat /\ run'[s].done = run[s].done
                            /\ run[s].turn => run'[s].turn
      <3>1. run \in [RunIds -> Runs] /\ (run' = run \/ run' = [run EXCEPT ![r].turn = TRUE])
        BY <1>9 DEF NoteTurn, Inv, TypeOK
      <3>2. \A x \in Runs : /\ [x EXCEPT !.turn = TRUE].beat = x.beat /\ [x EXCEPT !.turn = TRUE].done = x.done
                            /\ [x EXCEPT !.turn = TRUE].turn
        BY Zenon DEF Runs
      <3> QED  BY <3>1, <3>2
    <2>4. w[r].pc \in Busy
      BY <2>1 DEF Busy, Active
    <2>5. \A s \in RunIds : run'[s].beat = run[s].beat /\ (run[s].turn => run'[s].turn)
      BY <2>3, Zenon
    <2>6. w[r].pc \notin {"record", "refused"} => \A s \in RunIds : run'[s].done = run[s].done
      BY <2>3, Zenon
    <2>7. UNCHANGED <<mix, proc, cmd, count, user>> /\ Beat(r) \in Beats /\ \A s \in RunIds : s # r => w'[s] = w[s]
      BY <1>0, <2>1, <2>2, <2>4, Zenon
    <2>8. Alone(r)
      BY <2>4, <2>5, <2>6, <2>7, Zenon DEF Alone
    <2> QED  BY <2>2, <2>8 DEF Effect
  <1> QED  BY <1>1, <1>2, <1>3, <1>4, <1>5, <1>6, <1>7, <1>8, <1>9

\* The steps of a handoff, an observed thread and a wake
LEMMA WakingEffects ==
    ASSUME Inv, NEW r \in RunIds,
           \/ Arm(r) \/ Inspect(r) \/ Observe(r) \/ ClaimReceipt(r) \/ StartTurn(r)
           \/ SettleQuota(r) \/ SettleTerminal(r) \/ SettleContinue(r)
    PROVE  Effect(r) /\ Alone(r)
  <1>0. /\ w[r].pc \in Busy => Beat(r) \in Beats
        /\ w[r].pc = "settle" => w[r].out \in Ends
        /\ w[r] \in Workers /\ w[r].fp \in Nat
    BY Works DEF Busy
  <1>1. CASE Arm(r)
    <2>1. w[r].pc = "arm" /\ UNCHANGED <<mix, proc, cmd, count, user, run, turn, queue, hist>>
      BY <1>1 DEF Arm, At
    <2>2. (Arms(r) \/ GoesToRecord(r)) /\ \A s \in RunIds : s # r => w'[s] = w[s]
      <3>1. CASE MayArm(row[Beat(r)])
        BY <1>1, <2>1, <3>1, Fields DEF Arm, Arms, Writes, Carries
      <3>2. CASE ~MayArm(row[Beat(r)])
        BY <1>1, <2>1, <3>2, Fields DEF Arm, GoesToRecord, Carries, Active, Common, Ends, Still
      <3> QED  BY <3>1, <3>2
    <2> QED  BY <1>0, <2>1, <2>2 DEF Effect, Alone, Busy, Active
  <1>2. CASE Inspect(r)
    <2>1. w[r].pc = "begin" /\ Still /\ UNCHANGED <<mix, proc, cmd, count, user, run>>
      BY <1>2 DEF Inspect, At, Still
    <2> DEFINE fp == IF Kind(Beat(r)) = "continue" /\ ~user.ok THEN 0 ELSE TerminalFp
               pc == IF Kind(Beat(r)) = "continue" THEN "observe" ELSE IF fp = 0 THEN "record" ELSE "claim"
               v == [w[r] EXCEPT !.fp = fp, !.out = "probe_thread_status", !.pc = pc]
    <2>2. Go(r, v) /\ Kind(Beat(r)) \in {"terminal", "continue"}
      BY <1>2, Zenon DEF Inspect
    <2>3. fp \in {0, user.n}
      BY DEF TerminalFp
    <2>4. v.fp = fp /\ v.pc = pc /\ v.out = "probe_thread_status" /\ v.proc = w[r].proc
      <3> HIDE DEF fp, pc
      <3> QED  BY <1>0, Zenon DEF Workers
    <2>5. /\ pc \in {"observe", "claim", "record"}
          /\ pc = "claim" => fp # 0 /\ Kind(Beat(r)) # "continue"
          /\ pc = "observe" => Kind(Beat(r)) = "continue"
      OBVIOUS
    <2> HIDE DEF v, pc, fp
    <2>6. w'[r] = v /\ \A s \in RunIds : s # r => w'[s] = w[s]
      BY <2>2, Fields
    <2>7. Inspects(r)
      BY <2>1, <2>2, <2>3, <2>4, <2>5, <2>6 DEF Inspects
    <2> QED  BY <1>0, <2>1, <2>6, <2>7 DEF Effect, Alone, Busy, Active
  <1>3. CASE Observe(r)
    <2>1. w[r].pc = "observe" /\ Still /\ UNCHANGED <<mix, proc, cmd, count, user, run>>
      BY <1>3 DEF Observe, At, Still
    <2> DEFINE ch == seen[Beat(r)] \notin {NoFile, MonitorFp} /\ TerminalFp # 0
               pc == IF ch /\ w[r].fp # 0 THEN "claim" ELSE "record"
               v == [w[r] EXCEPT !.key = MonitorFp, !.pc = pc]
    <2>2. Go(r, v)
      BY <1>3, Zenon DEF Observe
    <2>3. v.pc = pc /\ v.out = w[r].out /\ v.proc = w[r].proc /\ v.fp = w[r].fp /\ v.item = w[r].item
      <3> HIDE DEF pc
      <3> QED  BY <1>0, Zenon DEF Workers
    <2>4. pc \in {"claim", "record"} /\ (pc = "claim" => w[r].fp # 0)
      OBVIOUS
    <2> HIDE DEF v, pc
    <2>5. w'[r] = v /\ \A s \in RunIds : s # r => w'[s] = w[s]
      BY <2>2, Fields
    <2>6. Changes(r) \/ GoesToRecord(r)
      BY <2>1, <2>3, <2>4, <2>5 DEF Changes, GoesToRecord, Carries, Active
    <2> QED  BY <1>0, <2>1, <2>5, <2>6 DEF Effect, Alone, Busy, Active
  <1>4. CASE ClaimReceipt(r)
    <2>1. w[r].pc = "claim" /\ UNCHANGED <<mix, proc, cmd, count, user, run, turn, queue, hist>>
      BY <1>4 DEF ClaimReceipt, At
    <2>2. (Claims(r) \/ GoesToRecord(r)) /\ \A s \in RunIds : s # r => w'[s] = w[s]
      <3>1. CASE ~MayClaimReceipt(row[Beat(r)], w[r].fp)
        BY <1>4, <2>1, <3>1, Fields DEF ClaimReceipt, GoesToRecord, Carries, Active, Still
      <3>2. CASE MayClaimReceipt(row[Beat(r)], w[r].fp)
        <4>1. Writes(r, ClaimedReceiptRow(row[Beat(r)], w[r].fp))
          BY <1>4, <3>2 DEF ClaimReceipt, Writes
        <4>2. CASE Kind(Beat(r)) = "continue" /\ Replayed(Beat(r), w[r].key) # {}
          <5>1. PICK e : Go(r, Out(r, "settle", e))
            BY <1>4, <3>2, <4>2 DEF ClaimReceipt
          <5> QED  BY <2>1, <3>2, <4>1, <4>2, <5>1, Fields DEF Claims, Carries
        <4>3. CASE ~(Kind(Beat(r)) = "continue" /\ Replayed(Beat(r), w[r].key) # {})
          <5>1. Go(r, To(r, "read"))
            BY <1>4, <3>2, <4>3 DEF ClaimReceipt
          <5> QED  BY <2>1, <3>2, <4>1, <5>1, Fields DEF Claims, Carries
        <4> QED  BY <4>2, <4>3
      <3> QED  BY <3>1, <3>2
    <2> QED  BY <1>0, <2>1, <2>2 DEF Effect, Alone, Busy, Active
  <1>5. CASE StartTurn(r)
    <2>1. w[r].pc = "start" /\ UNCHANGED <<mix, proc, cmd, count, user, run, row, queue>>
      BY <1>5 DEF StartTurn, At
    <2>2. (Begins(r) \/ GoesToEnd(r)) /\ \A s \in RunIds : s # r => w'[s] = w[s]
      <3>1. CASE UNCHANGED <<turn, hist>> /\ Go(r, Out(r, "settle", "failed"))
        BY <2>1, <3>1, Fields DEF GoesToEnd, Carries, Still
      <3>2. CASE /\ turn' = [turn EXCEPT ![r] = "running"] /\ hist' = Started(r)
                 /\ Go(r, Out(r, "settle", "failed"))
        BY <2>1, <3>2, Fields DEF Begins, Carries
      <3>3. CASE /\ turn' = [turn EXCEPT ![r] = "running"] /\ hist' = Started(r)
                 /\ Go(r, To(r, IF Kind(Beat(r)) \in {"prompt", "quota", "queue"} THEN "note" ELSE "wait"))
        BY <2>1, <3>3, Fields DEF Begins, Carries
      <3> QED  BY <1>5, <3>1, <3>2, <3>3 DEF StartTurn
    <2> QED  BY <1>0, <2>1, <2>2 DEF Effect, Alone, Busy, Active
  <1>6. CASE SettleQuota(r)
    <2>1. w[r].pc = "settle" /\ UNCHANGED <<mix, proc, cmd, count, user, run, turn, queue>>
      BY <1>6 DEF SettleQuota, At
    <2>2. (Finishes(r) \/ GoesToRecord(r)) /\ \A s \in RunIds : s # r => w'[s] = w[s]
      <3>1. CASE MayFinishTrigger(row[Beat(r)], r)
        BY <1>6, <2>1, <3>1, Fields DEF SettleQuota, Finishes, Writes, Carries
      <3>2. CASE ~MayFinishTrigger(row[Beat(r)], r)
        BY <1>6, <2>1, <3>2, Fields DEF SettleQuota, GoesToRecord, Carries, Active, Common, Ends, Still
      <3> QED  BY <3>1, <3>2
    <2> QED  BY <1>0, <2>1, <2>2 DEF Effect, Alone, Busy, Active
  <1>7. CASE SettleTerminal(r)
    <2>1. w[r].pc = "settle" /\ UNCHANGED <<mix, proc, cmd, count, user, run, turn, queue>>
      BY <1>7 DEF SettleTerminal, At
    <2>2. Reports(r) /\ \A s \in RunIds : s # r => w'[s] = w[s]
      <3>1. CASE Woken(r)
        BY <1>7, <2>1, <3>1, Fields DEF SettleTerminal, Reports, Writes, Carries
      <3>2. CASE ~Woken(r)
        BY <1>7, <2>1, <3>2, Fields DEF SettleTerminal, Reports, Writes, Carries
      <3> QED  BY <3>1, <3>2
    <2> QED  BY <1>0, <2>1, <2>2 DEF Effect, Alone, Busy, Active
  <1>8. CASE SettleContinue(r)
    <2>1. w[r].pc = "settle" /\ UNCHANGED <<mix, proc, cmd, count, user, run, turn, queue>>
      BY <1>8 DEF SettleContinue, At
    <2>2. Reports(r) /\ \A s \in RunIds : s # r => w'[s] = w[s]
      <3>1. CASE Woken(r)
        BY <1>8, <2>1, <3>1, Fields DEF SettleContinue, Reports, Writes, Carries
      <3>2. CASE ~Woken(r)
        BY <1>8, <2>1, <3>2, Fields DEF SettleContinue, Reports, Writes, Carries
      <3> QED  BY <3>1, <3>2
    <2> QED  BY <1>0, <2>1, <2>2 DEF Effect, Alone, Busy, Active
  <1> QED  BY <1>1, <1>2, <1>3, <1>4, <1>5, <1>6, <1>7, <1>8

\* The steps of a queue probe, and the end of a run
LEMMA QueueEffects ==
    ASSUME Inv, NEW r \in RunIds, BeginQueue(r) \/ SettleQueue(r) \/ Record(r)
    PROVE  Effect(r) /\ Alone(r)
  <1>0. /\ w[r].pc \in Busy => Beat(r) \in Beats
        /\ w[r] \in Workers /\ w \in [RunIds -> Workers] /\ run \in [RunIds -> Runs]
    BY Works DEF Busy, Inv, TypeOK
  <1>1. CASE BeginQueue(r)
    <2>1. /\ w[r].pc = "begin" /\ Kind(Beat(r)) = "queue"
          /\ UNCHANGED <<mix, proc, cmd, count, user, run, row, turn, hist>>
      BY <1>1 DEF BeginQueue, At
    <2>2. Beat(r) \in Beats
      BY <1>0, <2>1 DEF Busy, Active
    <2> DEFINE quiet == IF Woken(r) THEN "queue_continuation_released" ELSE "queue_no_change_silent"
               i == FirstOf(Pending)
               q == [Accepted(Beat(r)) EXCEPT ![i] = [st |-> "claimed", by |-> Beat(r), run |-> r,
                                                      woken |-> FALSE]]
    <2>3. quiet \in {"queue_continuation_released", "queue_no_change_silent"}
      OBVIOUS
    <2>4. \/ queue' = queue /\ Go(r, [Out(r, "record", "failed") EXCEPT !.snap = NoQueue])
          \/ queue' = queue /\ Go(r, [Out(r, "record", quiet) EXCEPT !.snap = queue])
          \/ /\ Own(Beat(r), {"claimed"}) = {} /\ Pending # {} /\ queue' = q
             /\ Go(r, [To(r, "read") EXCEPT !.item = i, !.snap = q])
          \/ /\ queue' = Accepted(Beat(r))
             /\ Go(r, [Out(r, "record", quiet) EXCEPT !.snap = Accepted(Beat(r))])
      BY <1>1, Zenon DEF BeginQueue
    <2>5. queue \in Snaps /\ Accepted(Beat(r)) \in Snaps
      BY <2>2, QueueTyped
    <2>6. \A out, snap : /\ [Out(r, "record", out) EXCEPT !.snap = snap].pc = "record"
                         /\ [Out(r, "record", out) EXCEPT !.snap = snap].out = out
                         /\ [Out(r, "record", out) EXCEPT !.snap = snap].snap = snap
                         /\ [Out(r, "record", out) EXCEPT !.snap = snap].proc = w[r].proc
      BY <1>0, Zenon DEF Out, Workers
    <2>7. \A item, snap : /\ [To(r, "read") EXCEPT !.item = item, !.snap = snap].pc = "read"
                          /\ [To(r, "read") EXCEPT !.item = item, !.snap = snap].item = item
                          /\ [To(r, "read") EXCEPT !.item = item, !.snap = snap].proc = w[r].proc
      BY <1>0, Zenon DEF To, Workers
    <2> HIDE DEF quiet
    <2>8. Takes(r) \/ Looks(r)
      <3>1. ASSUME NEW out \in {"failed", "queue_continuation_released", "queue_no_change_silent"},
                   NEW snap \in Snaps \cup {NoQueue}, out # "failed" => snap \in Snaps,
                   Go(r, [Out(r, "record", out) EXCEPT !.snap = snap]),
                   queue' = queue \/ queue' = Accepted(Beat(r))
            PROVE  Looks(r)
        <4> DEFINE v == [Out(r, "record", out) EXCEPT !.snap = snap]
        <4>1. v.pc = "record" /\ v.out = out /\ v.snap = snap /\ v.proc = w[r].proc /\ Go(r, v)
          BY <2>6, <3>1, Zenon
        <4> HIDE DEF v
        <4>2. w'[r] = v
          BY <4>1, Fields
        <4> QED  BY <2>1, <3>1, <4>1, <4>2 DEF Looks
      <3>2. ASSUME Own(Beat(r), {"claimed"}) = {}, Pending # {}, queue' = q,
                   Go(r, [To(r, "read") EXCEPT !.item = i, !.snap = q])
            PROVE  Takes(r)
        <4> DEFINE v == [To(r, "read") EXCEPT !.item = i, !.snap = q]
        <4>1. v.pc = "read" /\ v.item = i /\ v.proc = w[r].proc /\ Go(r, v)
          BY <2>7, <3>2, Zenon
        <4> HIDE DEF v
        <4>2. w'[r] = v
          BY <4>1, Fields
        <4> QED  BY <2>1, <3>2, <4>1, <4>2 DEF Takes
      <3> HIDE DEF i, q
      <3> QED  BY <2>3, <2>4, <2>5, <3>1, <3>2
    <2>9. \A s \in RunIds : s # r => w'[s] = w[s]
      BY <2>4, Fields
    <2> QED  BY <1>0, <2>1, <2>8, <2>9 DEF Effect, Alone, Busy, Active
  <1>2. CASE SettleQueue(r)
    <2>1. /\ w[r].pc = "settle" /\ Kind(Beat(r)) = "queue"
          /\ UNCHANGED <<mix, proc, cmd, count, user, run, row, turn, hist>>
      BY <1>2 DEF SettleQueue, At
    <2> DEFINE x == [Out(r, "record", "failed") EXCEPT !.snap = NoQueue]
    <2>2. \/ queue' = queue /\ Go(r, Out(r, "record", "failed"))
          \/ queue' = queue /\ Go(r, x)
          \/ queue' = [queue EXCEPT ![w[r].item].woken = TRUE] /\ Go(r, To(r, "begin"))
      BY <1>2, Zenon DEF SettleQueue
    <2>3. x.pc = "record" /\ x.out = "failed" /\ x.proc = w[r].proc /\ x.fp = w[r].fp /\ x.item = w[r].item
      BY <1>0, Zenon DEF Out, Workers
    <2> HIDE DEF x
    <2>4. Marks(r) \/ GoesToRecord(r)
      <3>1. CASE queue' = queue /\ Go(r, Out(r, "record", "failed"))
        BY <2>1, <3>1, Fields DEF GoesToRecord, Carries, Still, Active, Common, Ends
      <3>2. CASE queue' = queue /\ Go(r, x)
        BY <2>1, <2>3, <3>2, Fields DEF GoesToRecord, Carries, Still, Active, Common, Ends
      <3>3. CASE queue' = [queue EXCEPT ![w[r].item].woken = TRUE] /\ Go(r, To(r, "begin"))
        <4>1. w'[r] = To(r, "begin")
          BY <3>3, Fields
        <4>2. Carries(r) /\ w'[r].pc = "begin"
          BY <4>1, Fields DEF Carries
        <4> QED  BY <2>1, <3>3, <4>2, Zenon DEF Marks
      <3> QED  BY <2>2, <3>1, <3>2, <3>3
    <2>5. \A s \in RunIds : s # r => w'[s] = w[s]
      BY <2>2, Fields
    <2> QED  BY <1>0, <2>1, <2>4, <2>5 DEF Effect, Alone, Busy, Active
  <1>3. CASE Record(r)
    <2>1. /\ w[r].pc \in {"record", "refused"} /\ run' = [run EXCEPT ![r].done = TRUE]
          /\ Go(r, [NoWork EXCEPT !.pc = "done"])
          /\ UNCHANGED <<mix, proc, turn, user, queue, cmd, count, hist>>
      BY <1>3 DEF Record, At
    <2>2. [NoWork EXCEPT !.pc = "done"].pc = "done"
      BY DEF NoWork
    <2>3. w'[r].pc = "done" /\ \A s \in RunIds : s # r => w'[s] = w[s]
      BY <2>1, <2>2, Fields
    <2>4. Records(r)
      BY <1>3, <2>1, <2>3 DEF Record, Records, Writes
    <2>5. \A s \in RunIds : run'[s].beat = run[s].beat /\ (run[s].turn => run'[s].turn)
      <3>1. \A y \in Runs : [y EXCEPT !.done = TRUE].beat = y.beat /\ [y EXCEPT !.done = TRUE].turn = y.turn
        BY Zenon DEF Runs
      <3> QED  BY <1>0, <2>1, <3>1
    <2> QED  BY <1>0, <2>1, <2>3, <2>4, <2>5 DEF Effect, Alone, Busy, Active, Waiting
  <1> QED  BY <1>1, <1>2, <1>3

\* Every step of a worker has one of the effects
LEMMA WorkerEffects ==
    ASSUME Inv, NEW r \in RunIds, WorkerStep(r)
    PROVE  Effect(r) /\ Alone(r)
  BY MovingEffects, WakingEffects, QueueEffects DEF WorkerStep

-----------------------------------------------------------------------------
(* What the other steps do to the workers and the processes.               *)

\* A run that claim_due has just made
Fresh(r, p) == /\ w[r].pc = "free" /\ run[r].beat = 0
               /\ w'[r].pc = "claimed" /\ w'[r].proc = p
               /\ ~run'[r].done /\ run'[r].beat \in proc[p].sel

LEMMA ProcTyped ==
    ASSUME Inv, NEW p \in Procs
    PROVE  proc \in [Procs -> Schedulers] /\ proc[p] \in Schedulers /\ proc[p].sel \subseteq Beats
  <1>1. proc \in [Procs -> Schedulers]
    BY DEF Inv, TypeOK, Schedulers
  <1> QED  BY <1>1, Zenon DEF Schedulers

LEMMA WriteEffects ==
    ASSUME Inv, NEW p \in Procs, Write(p)
    PROVE  /\ \A r \in RunIds : (w'[r] = w[r] /\ run'[r] = run[r]) \/ Fresh(r, p)
           /\ proc[p].up /\ proc[p].pc = "write"
           /\ proc'[p].up = proc[p].up /\ proc'[p].pc = "idle"
           /\ proc'[p].sel = {} /\ proc'[p].rec = proc[p].rec
           /\ \A q \in Procs : q # p => proc'[q] = proc[q]
           /\ UNCHANGED <<mix, turn, user, queue, cmd, hist>>
           /\ \A h \in Beats : row'[h] = IF h \in proc[p].exp THEN ExpiredRow(row[h])
                                ELSE IF h \in proc[p].sel THEN AdvancedRow(row[h]) ELSE row[h]
  <1> DEFINE S == proc[p].sel
             n == Cardinality(S)
  <1>1. S \subseteq Beats
    BY ProcTyped
  <1>2. PICK id \in Numbering(S) :
           /\ run' = [r \in RunIds |-> IF r \in {id[h] : h \in S}
                                        THEN [NoRun EXCEPT !.beat = CHOOSE h \in S : id[h] = r]
                                        ELSE run[r]]
           /\ w' = [r \in RunIds |-> IF r \in {id[h] : h \in S}
                                      THEN [NoWork EXCEPT !.pc = "claimed", !.proc = p] ELSE w[r]]
    BY DEF Write
  <1> DEFINE new == {id[h] : h \in S}
  <1>3. n \in Nat /\ count.claims \in Nat
    <2>1. IsFiniteSet(S)
      BY <1>1, HeartbeatConstants, FS_Subset
    <2>2. n \in Nat
      BY <2>1, FS_CardinalityType
    <2>3. count.claims \in 0..MaxClaims
      BY DEF Inv, TypeOK
    <2> HIDE DEF n
    <2> QED  BY <2>2, <2>3, HeartbeatConstants
  <1>4. \A r \in new : r \in Nat /\ r > count.claims
    BY <1>3 DEF Numbering
  <1>5. ASSUME NEW r \in RunIds, r \in new
        PROVE  Fresh(r, p)
    <2>1. w[r].pc = "free" /\ run[r].beat = 0
      BY <1>4, <1>5 DEF Inv, WorkInv
    <2>2. (CHOOSE h \in S : id[h] = r) \in S
      BY <1>5
    <2>3. run'[r] = [NoRun EXCEPT !.beat = CHOOSE h \in S : id[h] = r]
      BY <1>2, <1>5
    <2>4. w'[r] = [NoWork EXCEPT !.pc = "claimed", !.proc = p]
      BY <1>2, <1>5
    <2>5. ~run'[r].done /\ run'[r].beat \in S
      BY <2>2, <2>3, Zenon DEF NoRun
    <2>6. w'[r].pc = "claimed" /\ w'[r].proc = p
      BY <2>4, Zenon DEF NoWork
    <2> QED  BY <2>1, <2>5, <2>6 DEF Fresh
  <1>6. \A r \in RunIds : r \notin new => run'[r] = run[r] /\ w'[r] = w[r]
    BY <1>2
  <1>7. /\ proc[p].up /\ proc[p].pc = "write"
        /\ proc'[p].up = proc[p].up /\ proc'[p].pc = "idle"
        /\ proc'[p].sel = {} /\ proc'[p].rec = proc[p].rec
        /\ \A q \in Procs : q # p => proc'[q] = proc[q]
    <2> DEFINE y == [proc[p] EXCEPT !.pc = "idle", !.sel = {}, !.exp = {}]
    <2>1. proc' = [proc EXCEPT ![p] = y] /\ proc[p].up /\ proc[p].pc = "write"
      BY ProcTyped DEF Write
    <2>2. y.up = proc[p].up /\ y.pc = "idle" /\ y.sel = {} /\ y.rec = proc[p].rec
      BY ProcTyped, Zenon DEF Schedulers
    <2> HIDE DEF y
    <2> QED  BY <2>1, <2>2, ProcTyped
  <1>8. UNCHANGED <<mix, turn, user, queue, cmd, hist>>
    BY DEF Write
  <1>9. \A h \in Beats : row'[h] = IF h \in proc[p].exp THEN ExpiredRow(row[h])
                            ELSE IF h \in proc[p].sel THEN AdvancedRow(row[h]) ELSE row[h]
    BY DEF Write
  <1> QED  BY <1>5, <1>6, <1>7, <1>8, <1>9

\* A process that has nothing in hand
LEMMA IdleProc == ~NoProc.up /\ NoProc.pc = "idle" /\ NoProc.sel = {} /\ NoProc.rec = {}
  BY IdleTyped

\* The steps of a process that move no worker
LEMMA ProcEffects ==
    ASSUME Inv, NEW p \in Procs, RecoverRead(p) \/ RecoverWrite(p) \/ Begin(p) \/ Select(p)
    PROVE  /\ \A q \in Procs : q # p => proc'[q] = proc[q]
           /\ UNCHANGED <<mix, w, turn, user, queue, cmd, hist>>
           /\ RecoverRead(p) =>
                /\ p = "service" \/ p \in mix.others
                /\ ~proc[p].up /\ ~proc'[p].up /\ proc'[p].pc = "recover" /\ proc'[p].sel = {}
                /\ proc'[p].rec = {[beat |-> h, run |-> row[h].triggerRun,
                                    turn |-> run[row[h].triggerRun].turn] :
                                     h \in {g \in Beats : NeedsRecovery(row[g])}}
           /\ RecoverWrite(p) =>
                /\ proc[p].pc = "recover" /\ ~proc'[p].up /\ proc'[p].pc = "lock"
                /\ proc'[p].sel = {} /\ proc'[p].rec = {}
           /\ Begin(p) => /\ proc[p].pc = "lock" /\ proc'[p].pc = "idle"
                          /\ proc'[p].sel = {} /\ proc'[p].rec = {}
           /\ Select(p) => /\ proc[p].up /\ proc'[p].up = proc[p].up /\ proc[p].pc = "idle"
                           /\ proc'[p].pc = "write" /\ proc'[p].rec = proc[p].rec
                           /\ proc'[p].sel = Due
  <1>0. proc \in [Procs -> Schedulers] /\ proc[p] \in Schedulers
    BY ProcTyped
  <1>1. CASE RecoverRead(p)
    <2> DEFINE rec == {[beat |-> h, run |-> row[h].triggerRun, turn |-> run[row[h].triggerRun].turn] :
                         h \in {g \in Beats : NeedsRecovery(row[g])}}
    <2>1. rec \in SUBSET Reads
      BY ReadTyped
    <2>2. proc' = [proc EXCEPT ![p] = [NoProc EXCEPT !.pc = "recover", !.rec = rec]]
          /\ ~proc[p].up /\ (p = "service" \/ p \in mix.others) /\ proc[p].pc = "idle"
      BY <1>1 DEF RecoverRead
    <2>3. UNCHANGED <<mix, w, turn, user, queue, cmd, hist>>
      BY <1>1 DEF RecoverRead
    <2> HIDE DEF rec
    <2>4. proc'[p] = [NoProc EXCEPT !.pc = "recover", !.rec = rec]
          /\ \A q \in Procs : q # p => proc'[q] = proc[q]
      BY <1>0, <2>2
    <2>5. ~proc'[p].up /\ proc'[p].pc = "recover" /\ proc'[p].sel = {} /\ proc'[p].rec = rec
      <3> DEFINE y == [NoProc EXCEPT !.pc = "recover", !.rec = rec]
      <3>1. ~y.up /\ y.pc = "recover" /\ y.sel = {} /\ y.rec = rec
        BY <2>1, IdleTyped, Zenon
      <3>2. proc'[p] = y
        BY <2>4
      <3> HIDE DEF y
      <3> QED  BY <3>1, <3>2
    <2> QED  BY <2>2, <2>3, <2>4, <2>5 DEF RecoverWrite, Begin, Select, rec
  <1>2. CASE RecoverWrite(p)
    <2>1. proc'[p] = [NoProc EXCEPT !.pc = "lock"] /\ \A q \in Procs : q # p => proc'[q] = proc[q]
      BY <1>0, <1>2 DEF RecoverWrite
    <2>2. proc[p].pc = "recover" /\ UNCHANGED <<mix, w, turn, user, queue, cmd, hist>>
      BY <1>2 DEF RecoverWrite
    <2> QED  BY <2>1, <2>2, IdleTyped DEF RecoverRead, Begin, Select
  <1>3. CASE Begin(p)
    <2> DEFINE flag == p = "once" \/ \A q \in Procs \ {"once"} : ~proc[q].up
    <2>1. flag \in BOOLEAN /\ proc' = [proc EXCEPT ![p] = [NoProc EXCEPT !.up = flag]]
      BY <1>3 DEF Begin
    <2> HIDE DEF flag
    <2>2. proc'[p] = [NoProc EXCEPT !.up = flag] /\ \A q \in Procs : q # p => proc'[q] = proc[q]
      BY <1>0, <2>1
    <2>3. proc[p].pc = "lock" /\ UNCHANGED <<mix, w, turn, user, queue, cmd, hist>>
      BY <1>3 DEF Begin
    <2> QED  BY <2>1, <2>2, <2>3, IdleTyped DEF RecoverRead, RecoverWrite, Select
  <1>4. CASE Select(p)
    <2> DEFINE y == [proc[p] EXCEPT !.pc = "write", !.sel = Due, !.exp = {h \in Beats : IsExpired(row[h])}]
    <2>1. proc' = [proc EXCEPT ![p] = y]
      BY <1>0, <1>4 DEF Select
    <2>2. y.up = proc[p].up /\ y.pc = "write" /\ y.sel = Due /\ y.rec = proc[p].rec
      BY <1>0, Zenon DEF Schedulers
    <2> HIDE DEF y
    <2>3. proc'[p] = y /\ \A q \in Procs : q # p => proc'[q] = proc[q]
      BY <1>0, <2>1
    <2>4. proc[p].up /\ proc[p].pc = "idle" /\ UNCHANGED <<mix, w, turn, user, queue, cmd, hist>>
      BY <1>4 DEF Select
    <2> QED  BY <2>2, <2>3, <2>4 DEF RecoverRead, RecoverWrite, Begin
  <1> QED  BY <1>1, <1>2, <1>3, <1>4

LEMMA CrashEffects ==
    ASSUME Inv, NEW p \in Procs, Crash(p)
    PROVE  /\ \A r \in RunIds : \/ w'[r] = w[r] /\ ~(w[r].proc = p /\ w[r].pc \in Busy)
                                \/ w[r].pc \in Busy /\ w[r].proc = p /\ w'[r].pc = "dead"
           /\ proc[p] # NoProc /\ proc'[p] = NoProc
           /\ \A q \in Procs : q # p => proc'[q] = proc[q]
           /\ UNCHANGED <<mix, row, run, turn, user, queue, cmd, hist>>
  <1>1. [NoWork EXCEPT !.pc = "dead"].pc = "dead"
    BY DEF NoWork
  <1>2. \A r \in RunIds : \/ w'[r] = w[r] /\ ~(w[r].proc = p /\ w[r].pc \in Busy)
                          \/ w[r].pc \in Busy /\ w[r].proc = p /\ w'[r].pc = "dead"
    BY <1>1 DEF Crash, Busy
  <1>3. /\ proc[p] # NoProc /\ proc'[p] = NoProc
        /\ \A q \in Procs : q # p => proc'[q] = proc[q]
    BY ProcTyped DEF Crash
  <1> QED  BY <1>2, <1>3 DEF Crash

\* What any step but a worker's leaves of the workers
Others(r) ==
    \/ w'[r] = w[r] /\ run'[r].beat = run[r].beat
    \/ w[r].pc \in Busy /\ w'[r].pc = "dead" /\ run'[r].beat = run[r].beat
    \/ \E p \in Procs : Fresh(r, p)

\* The steps of the processes, the CLI and the environment
Outside ==
    \/ \E p \in Procs : \/ RecoverRead(p) \/ RecoverWrite(p) \/ Begin(p)
                        \/ Select(p) \/ Write(p) \/ Crash(p)
    \/ CommandWrite \/ UserTurn
    \/ \E h \in Beats : Tick(h) \/ CompleteDelivery(h)
    \/ \E h \in Beats, want \in Wants : CommandRead(h, want)
    \/ \E i \in Items : WorkerEnds(i)
    \/ \E r \in RunIds : TurnEnds(r)
    \/ UNCHANGED vars

\* What __init__ writes: it closes the runs it has read, and moves their rows
LEMMA RecoveryEffects ==
    ASSUME Inv, NEW p \in Procs, RecoverWrite(p)
    PROVE  /\ \A r \in RunIds : run'[r].beat = run[r].beat /\ run'[r].turn = run[r].turn
           /\ \A r \in RunIds : run'[r].done = run[r].done \/ \E x \in proc[p].rec : x.run = r
           /\ \A h \in Beats : row'[h] = IF \E x \in proc[p].rec : x.beat = h
                                          THEN RecoveredRow(row[h], \E x \in proc[p].rec : x.beat = h /\ x.turn)
                                          ELSE row[h]
  <1>1. \A x \in Runs : [x EXCEPT !.done = TRUE].beat = x.beat /\ [x EXCEPT !.done = TRUE].turn = x.turn
    BY Zenon DEF Runs
  <1>2. run \in [RunIds -> Runs]
    BY DEF Inv, TypeOK
  <1> QED  BY <1>1, <1>2 DEF RecoverWrite

LEMMA OtherEffects ==
    ASSUME Inv, Outside
    PROVE  /\ mix' = mix
           /\ \A r \in RunIds : Others(r)
  <1>1. ASSUME NEW p \in Procs, RecoverWrite(p)
        PROVE  mix' = mix /\ \A r \in RunIds : Others(r)
    <2>1. w' = w /\ mix' = mix
      BY <1>1 DEF RecoverWrite
    <2> QED  BY <1>1, <2>1, RecoveryEffects DEF Others
  <1>2. ASSUME NEW p \in Procs, Write(p)
        PROVE  mix' = mix /\ \A r \in RunIds : Others(r)
    BY <1>2, WriteEffects DEF Others
  <1>3. ASSUME NEW p \in Procs, Crash(p)
        PROVE  mix' = mix /\ \A r \in RunIds : Others(r)
    BY <1>3, CrashEffects DEF Others
  <1>4. ASSUME \/ \E p \in Procs : RecoverRead(p) \/ Begin(p) \/ Select(p)
               \/ CommandWrite \/ UserTurn
               \/ \E h \in Beats : Tick(h) \/ CompleteDelivery(h)
               \/ \E h \in Beats, want \in Wants : CommandRead(h, want)
               \/ \E i \in Items : WorkerEnds(i)
               \/ \E r \in RunIds : TurnEnds(r)
               \/ UNCHANGED vars
        PROVE  mix' = mix /\ \A r \in RunIds : Others(r)
    <2>1. w' = w /\ run' = run /\ mix' = mix
      BY <1>4 DEF RecoverRead, Begin, Select, CommandWrite, UserTurn, Tick, CompleteDelivery, CommandRead, WorkerEnds,
                  TurnEnds, vars
    <2> QED  BY <2>1 DEF Others
  <1> QED  BY <1>1, <1>2, <1>3, <1>4 DEF Outside

\* Only claim_due makes runs, and only a recovery closes them
LEMMA RunsOutside ==
    ASSUME Inv, Outside, NEW r \in RunIds, run[r].beat \in Beats
    PROVE  /\ run'[r].beat = run[r].beat /\ run'[r].turn = run[r].turn
           /\ run'[r].done = run[r].done
                \/ \E p \in Procs : RecoverWrite(p) /\ \E x \in proc[p].rec : x.run = r
           /\ w'[r] = w[r] \/ w'[r].pc = "dead"
  <1>1. \A p \in Procs : ~Fresh(r, p)
    BY MixTyped DEF Fresh, Inv
  <1>2. ASSUME NEW p \in Procs, RecoverWrite(p)
        PROVE  /\ run'[r].beat = run[r].beat /\ run'[r].turn = run[r].turn
               /\ run'[r].done = run[r].done \/ \E x \in proc[p].rec : x.run = r
    BY <1>2, RecoveryEffects
  <1>3. ASSUME NEW p \in Procs, Write(p)
        PROVE  run'[r] = run[r]
    BY <1>1, <1>3, WriteEffects
  <1>4. CASE ~\E p \in Procs : RecoverWrite(p) \/ Write(p)
    <2>1. run' = run
      BY <1>4 DEF Outside, RecoverRead, Begin, Select, Crash, CommandWrite, UserTurn, Tick, CompleteDelivery,
                  CommandRead, WorkerEnds, TurnEnds, vars
    <2> QED  BY <1>1, <2>1, OtherEffects DEF Others
  <1> QED  BY <1>1, <1>2, <1>3, <1>4, OtherEffects DEF Others

\* A step is a worker's, with one of its effects, or of the rest
LEMMA StepKinds ==
    ASSUME Inv, [Next]_vars
    PROVE  Outside \/ \E r \in RunIds : Effect(r) /\ Alone(r)
  BY WorkerEffects DEF Next, Outside

-----------------------------------------------------------------------------
(* Where the workers of each kind are, and what they have there.           *)

Placed(r) ==
    /\ w[r].pc = "arm" => Kind(Beat(r)) = "quota"
    /\ w[r].pc = "observe" => Kind(Beat(r)) = "continue" /\ w[r].out = "probe_thread_status"
    /\ w[r].pc = "claim" => /\ Kind(Beat(r)) \in {"terminal", "continue"} /\ w[r].fp # 0
                            /\ w[r].out = "probe_thread_status"
    /\ turn[r] # "none" => Beat(r) # 0

PlaceInv == \A r \in RunIds : Placed(r)

\* Only a wake and the end of a turn change turns
LEMMA TurnKept ==
    ASSUME Inv, Outside
    PROVE  \/ turn' = turn /\ user'.n \in {user.n, user.n + 1}
           \/ \E r \in RunIds : /\ turn[r] = "running" /\ turn'[r] # "running"
                                /\ \A s \in RunIds : s # r => turn'[s] = turn[s]
                                /\ user'.n \in {user.n, user.n + 1}
  <1>1. \A n \in Nat, ok \in BOOLEAN :
          /\ [user EXCEPT !.n = n, !.ok = ok].n = n
          /\ [user EXCEPT !.busy = FALSE, !.n = n, !.ok = ok].n = n
    BY Zenon DEF Inv, TypeOK
  <1>2. [user EXCEPT !.busy = TRUE].n = user.n /\ [user EXCEPT !.cold = ~@].n = user.n
        /\ user.n \in Nat /\ user.n + 1 \in Nat
    <2>1. user \in [n: Nat, busy: BOOLEAN, ok: BOOLEAN, cold: BOOLEAN]
      BY DEF Inv, TypeOK
    <2>2. [user EXCEPT !.busy = TRUE].n = user.n /\ [user EXCEPT !.cold = ~@].n = user.n /\ user.n \in Nat
      BY <2>1, Zenon
    <2> QED  BY <2>2
  <1>3. CASE UserTurn
    <2>1. \/ user' = [user EXCEPT !.busy = TRUE] \/ user' = [user EXCEPT !.cold = ~@]
          \/ \E ok \in BOOLEAN : user' = [user EXCEPT !.busy = FALSE, !.n = user.n + 1, !.ok = ok]
      BY <1>3, Zenon DEF UserTurn
    <2>2. user'.n \in {user.n, user.n + 1}
      BY <1>1, <1>2, <2>1, Zenon
    <2> QED  BY <1>3, <2>2 DEF UserTurn
  <1>4. ASSUME NEW r \in RunIds, TurnEnds(r)
        PROVE  /\ turn[r] = "running" /\ turn'[r] # "running"
               /\ \A s \in RunIds : s # r => turn'[s] = turn[s]
               /\ user'.n \in {user.n, user.n + 1}
    <2>1. PICK res \in {"completed", "failed"} :
            /\ turn' = [turn EXCEPT ![r] = res]
            /\ \/ user' = user
               \/ user' = [user EXCEPT !.n = user.n + 1, !.ok = (res = "completed")]
      BY <1>4, Zenon DEF TurnEnds
    <2>2. (res = "completed") \in BOOLEAN
      OBVIOUS
    <2>3. user'.n \in {user.n, user.n + 1}
      BY <1>1, <1>2, <2>1, <2>2, Zenon
    <2> QED  BY <1>4, <2>1, <2>3 DEF TurnEnds, Inv, TypeOK
  <1>5. ASSUME \/ \E p \in Procs : \/ RecoverRead(p) \/ RecoverWrite(p) \/ Begin(p)
                                    \/ Select(p) \/ Write(p) \/ Crash(p)
               \/ CommandWrite
               \/ \E h \in Beats : Tick(h) \/ CompleteDelivery(h)
               \/ \E h \in Beats, want \in Wants : CommandRead(h, want)
               \/ \E i \in Items : WorkerEnds(i)
               \/ UNCHANGED vars
        PROVE  turn' = turn /\ user' = user
    BY <1>5 DEF RecoverRead, RecoverWrite, Begin, Select, Write, Crash, CommandWrite, Tick, CompleteDelivery,
                CommandRead, WorkerEnds, vars
  <1> QED  BY <1>3, <1>4, <1>5 DEF Outside

LEMMA PlaceStep ==
    ASSUME Inv, PlaceInv, [Next]_vars
    PROVE  PlaceInv'
  <1>1. ASSUME NEW r \in RunIds, Effect(r), Alone(r), NEW s \in RunIds
        PROVE  Placed(s)'
    <2>1. mix' = mix /\ run'[s].beat = run[s].beat /\ Beat(r) \in Beats /\ 0 \notin Beats
      BY <1>1, MixTyped DEF Alone, Inv
    <2>2. turn'[s] = turn[s] \/ s = r
      BY <1>1 DEF Effect, Submits, GoesToArm, GoesToRead, GoesToStart, GoesToEnd, GoesToRecord, Inspects,
           Changes, Arms, Claims, Begins, Finishes, Reports, Takes, Looks, Marks, Records, Still, Inv, TypeOK
    <2>3. CASE s # r
      BY <1>1, <2>1, <2>2, <2>3 DEF Alone, PlaceInv, Placed, Kind, Beat
    <2>4. CASE s = r
      <3>1. w'[r].pc \in {"arm", "observe", "claim"} => GoesToArm(r) \/ Inspects(r) \/ Changes(r)
        BY <1>1 DEF Effect, Submits, GoesToArm, GoesToRead, GoesToStart, GoesToEnd, GoesToRecord, Inspects,
             Changes, Arms, Claims, Begins, Finishes, Reports, Takes, Looks, Marks, Records
      <3>2. CASE GoesToArm(r)
        BY <1>1, <2>1, <2>4, <3>2 DEF GoesToArm, Still, PlaceInv, Placed, Kind, Beat
      <3>3. CASE Inspects(r)
        BY <1>1, <2>1, <2>4, <3>3 DEF Inspects, Still, PlaceInv, Placed, Kind, Beat
      <3>4. CASE Changes(r)
        BY <1>1, <2>1, <2>4, <3>4 DEF Changes, Carries, Still, PlaceInv, Placed, Kind, Beat
      <3>5. CASE w'[r].pc \notin {"arm", "observe", "claim"}
        BY <2>1, <2>4, <3>5 DEF Placed, Beat
      <3> QED  BY <3>1, <3>2, <3>3, <3>4, <3>5
    <2> QED  BY <2>3, <2>4
  <1>2. ASSUME Outside, NEW s \in RunIds
        PROVE  Placed(s)'
    <2>1. mix' = mix /\ Others(s)
      BY <1>2, OtherEffects
    <2>2. turn'[s] # "none" => turn[s] # "none"
      BY <1>2, TurnKept
    <2>3. CASE w'[s] = w[s] /\ run'[s].beat = run[s].beat
      BY <2>1, <2>2, <2>3 DEF PlaceInv, Placed, Kind, Beat
    <2>4. CASE w'[s].pc = "dead" /\ run'[s].beat = run[s].beat
      BY <2>2, <2>4 DEF PlaceInv, Placed, Beat
    <2>5. ASSUME NEW p \in Procs, Fresh(s, p)
          PROVE  Placed(s)'
      BY <2>2, <2>5 DEF Fresh, PlaceInv, Placed, Beat
    <2> QED  BY <2>1, <2>3, <2>4, <2>5 DEF Others
  <1> QED  BY <1>1, <1>2, StepKinds DEF PlaceInv

-----------------------------------------------------------------------------
(* One process: its workers are alive, their runs are open, and no two of  *)
(* them wake one target.                                                   *)

SoloInv ==
    /\ proc["second"] = NoProc /\ proc["once"] = NoProc
    /\ proc["service"].pc \in {"recover", "lock"} => ~proc["service"].up
    /\ proc["service"].rec # {} => proc["service"].pc = "recover"
    /\ \A r \in RunIds : w[r].pc \in Busy =>
         w[r].proc = "service" /\ proc["service"].up /\ ~run[r].done
    /\ \A r, s \in RunIds : (w[r].pc \in Active /\ w[s].pc \in Active
                             /\ Target(Beat(r)) = Target(Beat(s))) => r = s

LEMMA SoloStep ==
    ASSUME Inv, mix.others = {}, SoloInv, [Next]_vars
    PROVE  SoloInv'
  <1>0. Active \subseteq Busy /\ {"claimed", "refused"} \cap Active = {} /\ "done" \notin Busy
        /\ "dead" \notin Busy /\ "claimed" \in Busy
    BY DEF Busy, Active, Waiting
  <1>1. ASSUME NEW r \in RunIds, Effect(r), Alone(r)
        PROVE  SoloInv'
    <2>1. \/ w[r].pc \in {"record", "refused"} /\ w'[r].pc = "done"
             /\ \A s \in RunIds : s # r => run'[s].done = run[s].done
          \/ Submits(r)
          \/ w[r].pc \in Active \ {"record"} /\ w'[r].proc = w[r].proc
      <3>1. CASE Records(r)
        BY <3>1 DEF Records, Inv, TypeOK
      <3> QED  BY <1>1, <3>1 DEF Effect, GoesToArm, GoesToRead, GoesToStart, GoesToEnd, GoesToRecord, Inspects,
             Changes, Arms, Claims, Begins, Finishes, Reports, Takes, Looks, Marks, Carries, Active
    <2>2. /\ proc' = proc /\ mix' = mix /\ \A s \in RunIds : Beat(s)' = Beat(s)
          /\ \A h : Target(h)' = Target(h)
          /\ \A s \in RunIds : s # r => w'[s] = w[s]
          /\ w[r].pc \in Busy
      BY <1>1 DEF Alone, Beat, Target
    <2>3. ASSUME NEW s \in RunIds, w'[s].pc \in Busy
          PROVE  w'[s].proc = "service" /\ proc'["service"].up /\ ~run'[s].done
      <3>1. CASE s = r
        <4>1. w'[r].proc = w[r].proc /\ w[r].pc \notin {"record", "refused"}
          BY <1>0, <2>1, <2>3, <3>1 DEF Submits, Carries
        <4> QED  BY <1>1, <2>2, <3>1, <4>1 DEF SoloInv, Alone
      <3>2. CASE s # r
        <4>1. run'[s].done = run[s].done
          BY <1>0, <1>1, <2>1, <3>2 DEF Alone, Submits
        <4> QED  BY <2>2, <2>3, <3>2, <4>1 DEF SoloInv
      <3> QED  BY <3>1, <3>2
    <2>4. ASSUME NEW s \in RunIds, s # r, w'[r].pc \in Active, w'[s].pc \in Active,
                 Target(Beat(r)) = Target(Beat(s))
          PROVE  FALSE
      <3>1. CASE Submits(r)
        <4>1. ~Refused(r)
          BY <1>0, <2>4, <3>1 DEF Submits
        <4>2. w[s].proc = w[r].proc /\ w[s].pc \in Active
          BY <1>0, <2>2, <2>4 DEF SoloInv
        <4>3. s \in InPool(w[r].proc)
          BY <4>2 DEF InPool
        <4> QED  BY <2>4, <4>1, <4>3 DEF Refused
      <3>2. CASE w[r].pc \in Active
        BY <2>2, <2>4, <3>2 DEF SoloInv
      <3> QED  BY <1>0, <2>1, <2>4, <3>1, <3>2
    <2>5. ASSUME NEW s \in RunIds, NEW t \in RunIds, w'[s].pc \in Active, w'[t].pc \in Active,
                 Target(Beat(s)) = Target(Beat(t))
          PROVE  s = t
      BY <2>2, <2>4, <2>5 DEF SoloInv
    <2> QED  BY <2>2, <2>3, <2>5 DEF SoloInv
  <1>2. ASSUME Outside
        PROVE  SoloInv'
    <2>0. mix' = mix /\ (\A r \in RunIds : Others(r)) /\ \A h : Target(h)' = Target(h)
      BY <1>2, OtherEffects DEF Target
    <2>1. ASSUME NEW s \in RunIds, w'[s].pc \in Active
          PROVE  w'[s] = w[s] /\ Beat(s)' = Beat(s)
      BY <1>0, <2>0, <2>1 DEF Others, Fresh, Beat
    <2>2. ASSUME NEW s \in RunIds, NEW t \in RunIds, w'[s].pc \in Active, w'[t].pc \in Active,
                 Target(Beat(s))' = Target(Beat(t))'
          PROVE  s = t
      <3>1. Target(Beat(s)) = Target(Beat(t))
        BY <2>0, <2>1, <2>2 DEF Target
      <3> QED  BY <2>1, <2>2, <3>1 DEF SoloInv
    <2>3. {"service", "second", "once"} \subseteq Procs /\ \A p \in Procs : p \in {"service", "second", "once"}
      BY DEF Procs
    <2> DEFINE Alive == /\ proc'["second"] = NoProc /\ proc'["once"] = NoProc
                        /\ proc'["service"].pc \in {"recover", "lock"} => ~proc'["service"].up
                        /\ proc'["service"].rec # {} => proc'["service"].pc = "recover"
                        /\ \A r \in RunIds : w'[r].pc \in Busy =>
                             w'[r].proc = "service" /\ proc'["service"].up /\ ~run'[r].done
    <2>4. Alive
      <3>1. ASSUME NEW p \in Procs, RecoverRead(p) \/ RecoverWrite(p) \/ Begin(p)
            PROVE  Alive
        <4>1. p = "service" /\ ~proc["service"].up
          BY <2>3, <3>1, ProcEffects, IdleProc DEF SoloInv
        <4>2. w' = w /\ \A r \in RunIds : w[r].pc \notin Busy
          BY <3>1, <4>1, ProcEffects DEF SoloInv
        <4> QED  BY <2>3, <3>1, <4>1, <4>2, ProcEffects DEF SoloInv
      <3>2. ASSUME NEW p \in Procs, Select(p)
            PROVE  Alive
        <4>1. p = "service" /\ w' = w /\ run' = run
          BY <2>3, <3>2, IdleProc DEF SoloInv, Select
        <4> QED  BY <2>3, <3>2, <4>1, ProcEffects DEF SoloInv
      <3>3. ASSUME NEW p \in Procs, Write(p)
            PROVE  Alive
        <4>1. p = "service" /\ proc["service"].up
          BY <2>3, <3>3, WriteEffects, IdleProc DEF SoloInv
        <4>2. ASSUME NEW r \in RunIds, w'[r].pc \in Busy
              PROVE  w'[r].proc = "service" /\ ~run'[r].done
          BY <3>3, <4>1, <4>2, WriteEffects DEF SoloInv, Fresh
        <4> QED  BY <2>3, <3>3, <4>1, <4>2, WriteEffects DEF SoloInv
      <3>4. ASSUME NEW p \in Procs, Crash(p)
            PROVE  Alive
        <4>1. p = "service"
          BY <2>3, <3>4, CrashEffects DEF SoloInv
        <4>2. \A r \in RunIds : w'[r].pc \notin Busy
          BY <1>0, <3>4, <4>1, CrashEffects DEF SoloInv
        <4> QED  BY <2>3, <3>4, <4>1, <4>2, CrashEffects, IdleProc DEF SoloInv
      <3>5. ASSUME \/ CommandWrite \/ UserTurn
                   \/ \E h \in Beats : Tick(h) \/ CompleteDelivery(h)
                   \/ \E h \in Beats, want \in Wants : CommandRead(h, want)
                   \/ \E i \in Items : WorkerEnds(i)
                   \/ \E r \in RunIds : TurnEnds(r)
                   \/ UNCHANGED vars
            PROVE  Alive
        <4>1. w' = w /\ run' = run /\ proc' = proc
          BY <3>5 DEF CommandWrite, UserTurn, Tick, CompleteDelivery, CommandRead, WorkerEnds,
                      TurnEnds, vars
        <4> QED  BY <4>1 DEF SoloInv
      <3> QED  BY <1>2, <3>1, <3>2, <3>3, <3>4, <3>5 DEF Outside
    <2> QED  BY <2>2, <2>4 DEF SoloInv
  <1> QED  BY <1>1, <1>2, StepKinds

\* Only the service recovers, while no worker is alive; what it has read, it
\* keeps until it writes
LEMMA ReadKept ==
    ASSUME Inv, SoloInv
    PROVE  /\ \A p \in Procs : proc[p].pc = "recover" => p = "service"
           /\ \A r \in RunIds : w[r].pc \in Busy =>
                proc["service"].rec = {} /\ \A p \in Procs : ~RecoverWrite(p)
           /\ Outside => \A x \in proc'["service"].rec :
                \/ RecoverRead("service")
                \/ x \in proc["service"].rec /\ \A p \in Procs : ~RecoverWrite(p)
  <1>0. {"service", "second", "once"} \subseteq Procs /\ \A p \in Procs : p \in {"service", "second", "once"}
    BY DEF Procs
  <1>1. \A p \in Procs : proc[p].pc = "recover" => p = "service"
    BY <1>0, IdleTyped DEF SoloInv
  <1>2. \A r \in RunIds : w[r].pc \in Busy =>
          proc["service"].rec = {} /\ \A p \in Procs : ~RecoverWrite(p)
    BY <1>1 DEF SoloInv, RecoverWrite
  <1>3. ASSUME Outside, NEW x \in proc'["service"].rec, ~RecoverRead("service")
        PROVE  x \in proc["service"].rec /\ \A p \in Procs : ~RecoverWrite(p)
    <2>1. ASSUME NEW p \in Procs, RecoverWrite(p)
          PROVE  FALSE
      <3>1. p = "service"
        BY <1>1, <2>1 DEF RecoverWrite
      <3> QED  BY <1>3, <2>1, <3>1, ProcEffects
    <2>2. ASSUME NEW p \in Procs, RecoverRead(p) \/ Begin(p) \/ Select(p)
          PROVE  x \in proc["service"].rec
      BY <1>0, <1>3, <2>2, ProcEffects
    <2>3. ASSUME NEW p \in Procs, Write(p)
          PROVE  x \in proc["service"].rec
      BY <1>0, <1>3, <2>3, WriteEffects
    <2>4. ASSUME NEW p \in Procs, Crash(p)
          PROVE  x \in proc["service"].rec
      BY <1>0, <1>3, <2>4, CrashEffects, IdleProc
    <2>5. ASSUME proc' = proc
          PROVE  x \in proc["service"].rec
      BY <1>3, <2>5
    <2> QED  BY <1>3, <2>1, <2>2, <2>3, <2>4, <2>5 DEF Outside, CommandWrite, UserTurn, Tick,
               CompleteDelivery, CommandRead, WorkerEnds, TurnEnds, vars
  <1> QED  BY <1>1, <1>2, <1>3

-----------------------------------------------------------------------------
(* What the steps write in the histories and the queue.                    *)

LEMMA HistEffects ==
    ASSUME Inv, NEW r \in RunIds
    PROVE  /\ Begins(r) =>
                /\ hist'.woke = IF Kind(Beat(r)) # "queue" THEN hist.woke
                                ELSE [i \in Items |-> hist.woke[i] + (IF i = w[r].item THEN 1 ELSE 0)]
                /\ hist'.cont = IF Kind(Beat(r)) \in {"terminal", "continue"}
                                  THEN hist.cont \cup {<<Beat(r), w[r].fp, r>>} ELSE hist.cont
                /\ hist'.handed = hist.handed /\ hist'.raced = hist.raced
           /\ Finishes(r) =>
                /\ hist'.handed = IF Woken(r) THEN hist.handed \cup {Beat(r)} ELSE hist.handed
                /\ hist'.woke = hist.woke /\ hist'.cont = hist.cont /\ hist'.raced = hist.raced
           /\ Reports(r) =>
                /\ hist'.cont = IF Woken(r) THEN hist.cont ELSE {c \in hist.cont : c[3] # r}
                /\ hist'.woke = hist.woke /\ hist'.handed = hist.handed /\ hist'.raced = hist.raced
           /\ (Effect(r) /\ ~Begins(r) /\ ~Finishes(r) /\ ~Reports(r)) => hist' = hist
  <1>0. hist \in Hists
    BY HistTyped DEF Inv
  <1>1. ASSUME Begins(r)
        PROVE  /\ hist'.woke = IF Kind(Beat(r)) # "queue" THEN hist.woke
                                ELSE [i \in Items |-> hist.woke[i] + (IF i = w[r].item THEN 1 ELSE 0)]
               /\ hist'.cont = IF Kind(Beat(r)) \in {"terminal", "continue"}
                                  THEN hist.cont \cup {<<Beat(r), w[r].fp, r>>} ELSE hist.cont
               /\ hist'.handed = hist.handed /\ hist'.raced = hist.raced
    <2>1. hist' = Started(r)
      BY <1>1 DEF Begins
    <2> QED  BY <1>0, <2>1, Zenon DEF Started, Hists
  <1>2. ASSUME Finishes(r)
        PROVE  /\ hist'.handed = IF Woken(r) THEN hist.handed \cup {Beat(r)} ELSE hist.handed
               /\ hist'.woke = hist.woke /\ hist'.cont = hist.cont /\ hist'.raced = hist.raced
    BY <1>0, <1>2, Zenon DEF Finishes, Hists
  <1>3. ASSUME Reports(r)
        PROVE  /\ hist'.cont = IF Woken(r) THEN hist.cont ELSE {c \in hist.cont : c[3] # r}
               /\ hist'.woke = hist.woke /\ hist'.handed = hist.handed /\ hist'.raced = hist.raced
    BY <1>0, <1>3, Zenon DEF Reports, Hists
  <1>4. (Effect(r) /\ ~Begins(r) /\ ~Finishes(r) /\ ~Reports(r)) => hist' = hist
    BY DEF Effect, Submits, GoesToArm, GoesToRead, GoesToStart, GoesToEnd, GoesToRecord, Inspects,
           Changes, Arms, Claims, Takes, Looks, Marks, Records, Still
  <1> QED  BY <1>1, <1>2, <1>3, <1>4

\* The CLI's part of the histories
LEMMA HistOutside ==
    ASSUME Inv, Outside
    PROVE  /\ hist'.woke = hist.woke /\ hist'.cont = hist.cont
           /\ hist'.handed \subseteq hist.handed
           /\ hist.raced => hist'.raced
           /\ ~CommandWrite => hist' = hist
  <1>0. hist \in Hists
    BY HistTyped DEF Inv
  <1>1. CASE CommandWrite
    <2> DEFINE ups == cmd.want \in {"update", "reactivate"}
    <2>1. hist' = [hist EXCEPT !.handed = IF ups THEN hist.handed \ {cmd.beat} ELSE hist.handed,
                               !.raced = hist.raced \/ Raced(cmd.beat)]
      BY <1>1, Zenon DEF CommandWrite
    <2> HIDE DEF ups
    <2>2. /\ hist'.woke = hist.woke /\ hist'.cont = hist.cont
          /\ hist'.handed = (IF ups THEN hist.handed \ {cmd.beat} ELSE hist.handed)
          /\ hist'.raced = (hist.raced \/ Raced(cmd.beat))
      BY <1>0, <2>1, Zenon DEF Hists
    <2> QED  BY <1>1, <2>2
  <1>2. CASE ~CommandWrite
    <2>1. hist' = hist
      BY <1>2 DEF Outside, RecoverRead, RecoverWrite, Begin, Select, Write, Crash, UserTurn, Tick, CompleteDelivery,
                  CommandRead, WorkerEnds, TurnEnds, vars
    <2> QED  BY <1>2, <2>1
  <1> QED  BY <1>1, <1>2

\* An item as it was, or no longer out
ItemGoes(i) ==
    /\ queue'[i].by = queue[i].by /\ queue'[i].run = queue[i].run
    /\ \/ queue'[i].st = queue[i].st
       \/ queue[i].st # "pending" /\ queue'[i].st \notin {"pending", "claimed"}

LEMMA AcceptedEffects ==
    ASSUME Inv, NEW h \in Beats, NEW i \in Items
    PROVE  /\ Accepted(h)[i].by = queue[i].by /\ Accepted(h)[i].run = queue[i].run
           /\ \/ Accepted(h)[i].st = queue[i].st
              \/ queue[i].st # "pending" /\ Accepted(h)[i].st = "completed"
           /\ [queue EXCEPT ![i].woken = TRUE][i].st = queue[i].st
           /\ [queue EXCEPT ![i].woken = TRUE][i].by = queue[i].by
           /\ [queue EXCEPT ![i].woken = TRUE][i].run = queue[i].run
  <1>1. queue \in [Items -> QItems] /\ queue[i] \in QItems
    BY DEF Inv, TypeOK, Snaps, QItems
  <1>2. \A x \in QItems : /\ [x EXCEPT !.st = "completed"].by = x.by
                          /\ [x EXCEPT !.st = "completed"].run = x.run
                          /\ [x EXCEPT !.st = "completed"].st = "completed"
                          /\ [x EXCEPT !.woken = TRUE].st = x.st /\ [x EXCEPT !.woken = TRUE].by = x.by
                          /\ [x EXCEPT !.woken = TRUE].run = x.run
    BY Zenon DEF QItems
  <1>3. Accepted(h)[i] = IF i \in Own(h, {"worked"}) THEN [queue[i] EXCEPT !.st = "completed"] ELSE queue[i]
    BY DEF Accepted
  <1>4. [queue EXCEPT ![i].woken = TRUE][i] = [queue[i] EXCEPT !.woken = TRUE]
    BY <1>1
  <1> QED  BY <1>1, <1>2, <1>3, <1>4 DEF Own

LEMMA ItemsGo ==
    ASSUME Inv, Outside \/ \E r \in RunIds : Effect(r) /\ Alone(r) /\ ~Takes(r)
    PROVE  \A i \in Items : ItemGoes(i)
  <1>1. CASE Outside
    <2>1. CASE \E i \in Items : WorkerEnds(i)
      <3>1. PICK i \in Items, st \in {"worked", "spoiled"} :
               queue[i].st = "claimed" /\ queue' = [queue EXCEPT ![i].st = st]
        BY <2>1 DEF WorkerEnds
      <3>2. queue \in [Items -> QItems]
        BY DEF Inv, TypeOK, Snaps, QItems
      <3>3. \A x \in QItems : [x EXCEPT !.st = st].by = x.by /\ [x EXCEPT !.st = st].run = x.run
                              /\ [x EXCEPT !.st = st].st = st
        BY Zenon DEF QItems
      <3>4. queue'[i] = [queue[i] EXCEPT !.st = st] /\ \A j \in Items : j # i => queue'[j] = queue[j]
        BY <3>1, <3>2
      <3> QED  BY <3>1, <3>2, <3>3, <3>4 DEF ItemGoes
    <2>2. CASE ~\E i \in Items : WorkerEnds(i)
      <3>1. queue' = queue
        BY <1>1, <2>2 DEF Outside, RecoverRead, RecoverWrite, Begin, Select, Write, Crash, CommandWrite, UserTurn, Tick,
                    CompleteDelivery, CommandRead, TurnEnds, vars
      <3> QED  BY <3>1 DEF ItemGoes
    <2> QED  BY <2>1, <2>2
  <1>2. ASSUME NEW r \in RunIds, Effect(r), Alone(r), ~Takes(r)
        PROVE  \A i \in Items : ItemGoes(i)
    <2>1. \/ queue' = queue \/ queue' = Accepted(Beat(r))
          \/ queue' = [queue EXCEPT ![w[r].item].woken = TRUE]
      BY <1>2, Zenon DEF Effect, Submits, GoesToArm, GoesToRead, GoesToStart, GoesToEnd, GoesToRecord, Inspects,
           Changes, Arms, Claims, Begins, Finishes, Reports, Looks, Marks, Records, Still
    <2> TAKE i \in Items
    <2>2. CASE queue' = queue
      BY <2>2 DEF ItemGoes
    <2>3. CASE queue' = Accepted(Beat(r))
      BY <1>2, <2>3, AcceptedEffects DEF Alone, ItemGoes
    <2>4. CASE queue' = [queue EXCEPT ![w[r].item].woken = TRUE]
      <3>1. CASE w[r].item = i
        <4>1. queue' = [queue EXCEPT ![i].woken = TRUE]
          BY <2>4, <3>1
        <4> QED  BY <1>2, <4>1, AcceptedEffects, Zenon DEF Alone, ItemGoes
      <3>2. CASE w[r].item # i
        <4>1. queue'[i] = queue[i]
          BY <2>4, <3>2 DEF Inv, TypeOK, Snaps
        <4> QED  BY <4>1 DEF ItemGoes
      <3> QED  BY <3>1, <3>2
    <2> QED  BY <2>1, <2>2, <2>3, <2>4
  <1> QED  BY <1>1, <1>2

-----------------------------------------------------------------------------
(* An item is woken by the run that claimed it, once.                      *)

Waking(r) == w[r].pc \in {"read", "start"} /\ Kind(Beat(r)) = "queue"

ItemInv ==
    /\ \A i \in Items : hist.woke[i] <= 1 /\ (queue[i].st = "pending" => hist.woke[i] = 0)
    /\ \A r \in RunIds : Waking(r) => /\ w[r].item \in Items
                                      /\ queue[w[r].item].run = r
                                      /\ queue[w[r].item].st # "pending"
                                      /\ hist.woke[w[r].item] = 0
    /\ \A i, j \in Items : (queue[i].st = "claimed" /\ queue[j].st = "claimed"
                            /\ queue[i].by = queue[j].by) => i = j

LEMMA ItemStep ==
    ASSUME Inv, PlaceInv, ItemInv, [Next]_vars
    PROVE  ItemInv'
  <1>0. hist.woke \in [Items -> Nat]
    BY HistTyped DEF Inv
  \* What a worker that is about to wake the lane still is
  <1>1. ASSUME NEW r \in RunIds, Effect(r), Alone(r), ~Takes(r), NEW s \in RunIds, Waking(s)'
        PROVE  Waking(s) /\ w'[s].item = w[s].item /\ (s = r => ~Begins(r))
    <2>1. Kind(Beat(s))' = Kind(Beat(s))
      BY <1>1 DEF Alone, Kind, Beat
    <2>2. CASE s = r
      <3>1. GoesToStart(r)
        BY <1>1, <2>1, <2>2 DEF Effect, Submits, GoesToArm, GoesToRead, GoesToStart, GoesToEnd, GoesToRecord,
             Inspects, Changes, Arms, Claims, Begins, Finishes, Reports, Looks, Marks, Records,
             PlaceInv, Placed, Waking
      <3> QED  BY <1>1, <2>1, <2>2, <3>1 DEF GoesToStart, Carries, Waking, Begins
    <2>3. CASE s # r
      BY <1>1, <2>1, <2>3 DEF Alone, Waking
    <2> QED  BY <2>2, <2>3
  <1>2. ASSUME Outside, NEW s \in RunIds, Waking(s)'
        PROVE  Waking(s) /\ w'[s].item = w[s].item
    <2>1. mix' = mix /\ Others(s)
      BY <1>2, OtherEffects
    <2>2. w'[s] = w[s] /\ run'[s].beat = run[s].beat
      BY <1>2, <2>1 DEF Others, Fresh, Waking
    <2> QED  BY <1>2, <2>1, <2>2 DEF Waking, Kind, Beat
  \* All but a claim and a wake
  <1>3. ASSUME \A i \in Items : ItemGoes(i),
               hist'.woke = hist.woke,
               \A s \in RunIds : Waking(s)' => Waking(s) /\ w'[s].item = w[s].item
        PROVE  ItemInv'
    BY <1>3 DEF ItemInv, ItemGoes
  <1>4. CASE Outside
    BY <1>2, <1>3, <1>4, ItemsGo, HistOutside
  <1>5. ASSUME NEW r \in RunIds, Effect(r), Alone(r), ~Takes(r), ~Begins(r)
        PROVE  ItemInv'
    <2>1. hist'.woke = hist.woke
      BY <1>5, HistEffects
    <2> QED  BY <1>1, <1>3, <1>5, <2>1, ItemsGo
  <1>6. ASSUME NEW r \in RunIds, Begins(r), Alone(r)
        PROVE  ItemInv'
    <2>1. Effect(r) /\ ~Takes(r) /\ queue' = queue
      BY <1>6 DEF Effect, Begins, Takes
    <2>2. CASE Kind(Beat(r)) # "queue"
      <3>1. hist'.woke = hist.woke
        BY <1>6, <2>2, HistEffects
      <3> QED  BY <1>1, <1>3, <1>6, <2>1, <3>1, ItemsGo
    <2>3. CASE Kind(Beat(r)) = "queue"
      <3>1. \A i \in Items : hist'.woke[i] = hist.woke[i] + (IF i = w[r].item THEN 1 ELSE 0)
        BY <1>6, <2>3, HistEffects
      <3>2. Waking(r)
        BY <1>6, <2>3 DEF Waking, Begins
      <3>3. \A i \in Items : hist'.woke[i] <= 1 /\ (queue'[i].st = "pending" => hist'.woke[i] = 0)
        BY <1>0, <2>1, <3>1, <3>2 DEF ItemInv
      <3>4. ASSUME NEW s \in RunIds, Waking(s)'
            PROVE  /\ w'[s].item \in Items
                   /\ queue'[w'[s].item].run = s
                   /\ queue'[w'[s].item].st # "pending"
                   /\ hist'.woke[w'[s].item] = 0
        <4>1. Waking(s) /\ w'[s].item = w[s].item /\ s # r
          BY <1>1, <1>6, <2>1, <3>4
        <4>2. w[s].item # w[r].item
          BY <3>2, <4>1 DEF ItemInv
        <4> QED  BY <1>0, <2>1, <3>1, <4>1, <4>2 DEF ItemInv
      <3> QED  BY <2>1, <3>3, <3>4 DEF ItemInv
    <2> QED  BY <2>2, <2>3
  <1>7. ASSUME NEW r \in RunIds, Takes(r), Alone(r)
        PROVE  ItemInv'
    <2> DEFINE f == FirstOf(Pending)
               x == [st |-> "claimed", by |-> Beat(r), run |-> r, woken |-> FALSE]
    <2>1. f \in Items /\ queue[f].st = "pending"
      <3>1. Pending \subseteq Items /\ Items \subseteq Nat /\ Pending # {}
        BY <1>7, HeartbeatConstants DEF Pending, Takes
      <3>2. PICK i \in Pending : \A j \in Pending : i <= j
        BY <3>1, Least
      <3>3. FirstOf(Pending) \in Pending
        BY <3>2, Zenon DEF FirstOf
      <3> QED  BY <3>3 DEF Pending
    <2>2. Beat(r) \in Beats /\ Accepted(Beat(r)) \in [Items -> QItems]
      <3>1. Beat(r) \in Beats
        BY <1>7 DEF Alone
      <3> QED  BY <3>1, QueueTyped DEF Snaps, QItems
    <2>3. /\ queue'[f] = x
          /\ \A i \in Items : i # f => queue'[i] = Accepted(Beat(r))[i]
      BY <1>7, <2>1, <2>2 DEF Takes
    <2>4. queue'[f].st = "claimed" /\ queue'[f].by = Beat(r) /\ queue'[f].run = r
      BY <2>3
    <2> HIDE DEF f, x
    <2>5. \A i \in Items : i # f => ItemGoes(i)
      BY <2>2, <2>3, AcceptedEffects DEF ItemGoes
    <2>6. hist' = hist /\ w'[r].item = f
      BY <1>7 DEF Takes, f
    <2>7. \A i \in Items : hist'.woke[i] <= 1 /\ (queue'[i].st = "pending" => hist'.woke[i] = 0)
      BY <2>4, <2>5, <2>6 DEF ItemInv, ItemGoes
    <2>8. ASSUME NEW s \in RunIds, Waking(s)'
          PROVE  /\ w'[s].item \in Items
                 /\ queue'[w'[s].item].run = s
                 /\ queue'[w'[s].item].st # "pending"
                 /\ hist'.woke[w'[s].item] = 0
      <3>1. CASE s = r
        BY <2>1, <2>4, <2>6, <3>1 DEF ItemInv
      <3>2. CASE s # r
        <4>1. Waking(s) /\ w'[s] = w[s]
          BY <1>7, <2>8, <3>2 DEF Alone, Waking, Kind, Beat
        <4>2. w[s].item # f /\ w[s].item \in Items
          BY <2>1, <4>1 DEF ItemInv
        <4> QED  BY <2>5, <2>6, <4>1, <4>2 DEF ItemInv, ItemGoes
      <3> QED  BY <3>1, <3>2
    <2>9. ASSUME NEW i \in Items, NEW j \in Items, queue'[i].st = "claimed", queue'[j].st = "claimed",
                 queue'[i].by = queue'[j].by
          PROVE  i = j
      <3>1. \A k \in Items : ~(queue[k].by = Beat(r) /\ queue[k].st = "claimed")
        BY <1>7 DEF Takes, Own
      <3>2. \A k \in Items : k # f => (queue'[k].st = "claimed" => queue[k].st = "claimed")
                                       /\ queue'[k].by = queue[k].by
        BY <2>5 DEF ItemGoes
      <3> QED  BY <2>4, <2>9, <3>1, <3>2 DEF ItemInv
    <2> QED  BY <2>7, <2>8, <2>9 DEF ItemInv
  <1> QED  BY <1>4, <1>5, <1>6, <1>7, StepKinds

\* A set without two elements
LEMMA AtMostOne ==
    ASSUME NEW S, \A x, y \in S : x = y
    PROVE  Cardinality(S) <= 1
  <1>1. CASE S = {}
    BY <1>1, FS_EmptySet
  <1>2. ASSUME NEW x \in S
        PROVE  Cardinality(S) <= 1
    <2>1. S = {x}
      OBVIOUS
    <2> QED  BY <2>1, FS_Singleton
  <1> QED  BY <1>1, <1>2

LEMMA PlaceItemInit ==
    ASSUME Init
    PROVE  PlaceInv /\ ItemInv
  <1>1. \A r \in RunIds : w[r].pc = "free" /\ turn[r] = "none"
    BY DEF Init, NoWork
  <1>2. PlaceInv
    BY <1>1 DEF PlaceInv, Placed
  <1>3. \A i \in Items : queue[i].st # "claimed" /\ hist.woke[i] = 0
    BY DEF Init, NewItem
  <1>4. ItemInv
    BY <1>1, <1>3 DEF ItemInv, Waking
  <1> QED  BY <1>2, <1>4

\* The places of the workers, and what the queue and its wakes have in
\* common, in every state.
THEOREM PlacesAndItems == Spec => [](Inv /\ PlaceInv /\ ItemInv)
  <1>1. Init => Inv /\ PlaceInv /\ ItemInv
    BY InitInv, PlaceItemInit
  <1>2. Inv /\ PlaceInv /\ ItemInv /\ [Next]_vars => (Inv /\ PlaceInv /\ ItemInv)'
    <2> SUFFICES ASSUME Inv, PlaceInv, ItemInv, [Next]_vars
                 PROVE  (Inv /\ PlaceInv /\ ItemInv)'
      OBVIOUS
    <2> QED  BY StepInv, PlaceStep, ItemStep
  <1> QED  BY <1>1, <1>2, PTL DEF Spec

\* Whatever crashes or fails after the claim, and whichever processes run,
\* no queue item is woken twice and no heartbeat has two items out.
THEOREM ItemsWokenOnce == Spec => []ItemWokenOnce
  <1>1. ItemInv => ItemWokenOnce
    <2>1. ASSUME ItemInv, NEW h \in Beats
          PROVE  Cardinality(Own(h, {"claimed"})) <= 1
      <3>1. \A i, j \in Own(h, {"claimed"}) : i = j
        BY <2>1 DEF ItemInv, Own
      <3> QED  BY <3>1, AtMostOne
    <2> QED  BY <2>1 DEF ItemInv, ItemWokenOnce
  <1> QED  BY <1>1, PlacesAndItems, PTL

-----------------------------------------------------------------------------
(* What the statements of the store leave of a row.                        *)

\* Only a worker counts runs, reports on a receipt or raises the alert
Alike(x, y) == y.runs = x.runs /\ y.fp = x.fp /\ y.receipt = x.receipt /\ y.alert = x.alert

\* A tick of the clock
DueRow(x)  == [x EXCEPT !.next = "due"]
PastRow(x) == [x EXCEPT !.expired = TRUE]

LEMMA ServiceRows ==
    ASSUME NEW x \in Rows
    PROVE  /\ Alike(x, ExpiredRow(x)) /\ ExpiredRow(x).status = "COMPLETED"
           /\ ExpiredRow(x).trigger = x.trigger /\ ExpiredRow(x).next = x.next
           /\ Alike(x, AdvancedRow(x)) /\ AdvancedRow(x).status = x.status
           /\ AdvancedRow(x).trigger = x.trigger
           /\ x.status = "ACTIVE" => AdvancedRow(x).next = "later"
           /\ Alike(x, DueRow(x)) /\ DueRow(x).status = x.status
           /\ DueRow(x).trigger = x.trigger /\ DueRow(x).next = "due"
           /\ Alike(x, PastRow(x)) /\ PastRow(x).status = x.status
           /\ PastRow(x).trigger = x.trigger /\ PastRow(x).next = x.next
           /\ Alike(x, DeliveredRow(x)) /\ DeliveredRow(x).status = "CANCELLED"
           /\ DeliveredRow(x).trigger = "delivered_cancelled"
           /\ \A b \in BOOLEAN :
                /\ Alike(x, RecoveredRow(x, b)) /\ RecoveredRow(x, b).status = x.status
                /\ b => RecoveredRow(x, b).trigger = "handoff_pending_delivery"
                /\ ~b => RecoveredRow(x, b).next = "later"
  <1>1. /\ Alike(x, ExpiredRow(x)) /\ ExpiredRow(x).status = "COMPLETED"
        /\ ExpiredRow(x).trigger = x.trigger /\ ExpiredRow(x).next = x.next
    BY Zenon DEF Alike, ExpiredRow, Rows
  <1>2. /\ Alike(x, AdvancedRow(x)) /\ AdvancedRow(x).status = x.status
        /\ AdvancedRow(x).trigger = x.trigger
        /\ x.status = "ACTIVE" => AdvancedRow(x).next = "later"
    BY Zenon DEF Alike, AdvancedRow, Rows
  <1>3. /\ Alike(x, DueRow(x)) /\ DueRow(x).status = x.status
        /\ DueRow(x).trigger = x.trigger /\ DueRow(x).next = "due"
    BY Zenon DEF Alike, DueRow, Rows
  <1>4. /\ Alike(x, PastRow(x)) /\ PastRow(x).status = x.status
        /\ PastRow(x).trigger = x.trigger /\ PastRow(x).next = x.next
    BY Zenon DEF Alike, PastRow, Rows
  <1>5. /\ Alike(x, DeliveredRow(x)) /\ DeliveredRow(x).status = "CANCELLED"
        /\ DeliveredRow(x).trigger = "delivered_cancelled"
    BY Zenon DEF Alike, DeliveredRow, Rows
  <1>6. ASSUME NEW b \in BOOLEAN
        PROVE  /\ Alike(x, RecoveredRow(x, b)) /\ RecoveredRow(x, b).status = x.status
               /\ b => RecoveredRow(x, b).trigger = "handoff_pending_delivery"
               /\ ~b => RecoveredRow(x, b).next = "later"
    <2>1. /\ Alike(x, RecoveredRow(x, TRUE)) /\ RecoveredRow(x, TRUE).status = x.status
          /\ RecoveredRow(x, TRUE).trigger = "handoff_pending_delivery"
      BY Zenon DEF Alike, RecoveredRow, Rows
    <2> DEFINE n == x.fails + 1
               z == [x EXCEPT !.trigger = "monitoring", !.triggerRun = 0, !.next = "later", !.fails = n]
    <2>2. RecoveredRow(x, FALSE) = z
      BY Zenon DEF RecoveredRow
    <2> HIDE DEF n
    <2>3. Alike(x, z) /\ z.status = x.status /\ z.next = "later"
      BY Zenon DEF Alike, Rows
    <2> QED  BY <2>1, <2>2, <2>3
  <1> QED  BY <1>1, <1>2, <1>3, <1>4, <1>5, <1>6

LEMMA SetRows ==
    ASSUME NEW x \in Rows, NEW y \in Rows, NEW want
    PROVE  /\ Alike(x, SetRow(x, y, want)) /\ SetRow(x, y, want).status = want
           /\ SetRow(x, y, want).trigger = x.trigger
           /\ want = "ACTIVE" => SetRow(x, y, want).next = "later"
  BY ZenonT(30) DEF Alike, SetRow, Rows

LEMMA UpdateRows ==
    ASSUME NEW x \in Rows, NEW y \in Rows, NEW kind, NEW b \in BOOLEAN
    PROVE  /\ Alike(x, UpdatedRow(x, y, kind, b))
           /\ UpdatedRow(x, y, kind, b).status = IF b THEN "ACTIVE" ELSE y.status
           /\ UpdatedRow(x, y, kind, b).status = "ACTIVE" =>
                UpdatedRow(x, y, kind, b).next = "later"
  <1> DEFINE d == IF b THEN "ACTIVE" ELSE y.status
             n == IF d = "ACTIVE" THEN "later" ELSE y.next
             t == NewRow(kind).trigger
             z == [x EXCEPT !.status = d, !.next = n, !.expired = FALSE, !.fails = 0,
                            !.trigger = t, !.triggerRun = 0]
  <1>1. UpdatedRow(x, y, kind, b) = z
    BY Zenon DEF UpdatedRow
  <1>2. d = "ACTIVE" => n = "later"
    OBVIOUS
  <1> HIDE DEF d, n, t
  <1>3. Alike(x, z) /\ z.status = d /\ z.next = n
    BY Zenon DEF Alike, Rows
  <1> HIDE DEF z
  <1>4. d = IF b THEN "ACTIVE" ELSE y.status
    BY DEF d
  <1> QED  BY <1>1, <1>2, <1>3, <1>4

LEMMA WorkerRows ==
    ASSUME NEW x \in Rows, NEW r \in RunIds, NEW fp \in Nat, NEW b \in BOOLEAN
    PROVE  /\ Alike(x, ArmedRow(x, r)) /\ ArmedRow(x, r).status = x.status
           /\ ArmedRow(x, r).trigger = "handoff_inflight"
           /\ Alike(x, FinishedTriggerRow(x, b)) /\ FinishedTriggerRow(x, b).status = x.status
           /\ b => FinishedTriggerRow(x, b).trigger = "handoff_pending_delivery"
           /\ ClaimedReceiptRow(x, fp).status = x.status /\ ClaimedReceiptRow(x, fp).runs = x.runs
           /\ ClaimedReceiptRow(x, fp).trigger = x.trigger
           /\ ClaimedReceiptRow(x, fp).fp = fp /\ ClaimedReceiptRow(x, fp).receipt = "inflight"
           /\ FinishedReceiptRow(x, b).status = x.status /\ FinishedReceiptRow(x, b).runs = x.runs
           /\ FinishedReceiptRow(x, b).trigger = x.trigger
           /\ b => FinishedReceiptRow(x, b).fp = x.fp
           /\ (b /\ x.receipt = "inflight") => FinishedReceiptRow(x, b).receipt = "delivered"
  <1>1. /\ Alike(x, ArmedRow(x, r)) /\ ArmedRow(x, r).status = x.status
        /\ ArmedRow(x, r).trigger = "handoff_inflight"
    BY Zenon DEF Alike, ArmedRow, Rows
  <1>2. /\ Alike(x, FinishedTriggerRow(x, b)) /\ FinishedTriggerRow(x, b).status = x.status
        /\ b => FinishedTriggerRow(x, b).trigger = "handoff_pending_delivery"
    BY Zenon DEF Alike, FinishedTriggerRow, Rows
  <1>3. /\ ClaimedReceiptRow(x, fp).status = x.status /\ ClaimedReceiptRow(x, fp).runs = x.runs
        /\ ClaimedReceiptRow(x, fp).trigger = x.trigger
        /\ ClaimedReceiptRow(x, fp).fp = fp /\ ClaimedReceiptRow(x, fp).receipt = "inflight"
    BY Zenon DEF ClaimedReceiptRow, Rows
  <1>4. /\ FinishedReceiptRow(x, b).status = x.status /\ FinishedReceiptRow(x, b).runs = x.runs
        /\ FinishedReceiptRow(x, b).trigger = x.trigger
        /\ b => FinishedReceiptRow(x, b).fp = x.fp
        /\ (b /\ x.receipt = "inflight") => FinishedReceiptRow(x, b).receipt = "delivered"
    BY ZenonT(30) DEF FinishedReceiptRow, Rows
  <1> QED  BY <1>1, <1>2, <1>3, <1>4

\* record_run's update of a row that is still ACTIVE
LEMMA RecordRows ==
    ASSUME NEW x \in Rows, NEW kind, NEW strict, NEW res
    PROVE  LET y == RecordedRow(x, kind, strict, res) IN
           /\ SameTrigger(x, y) /\ y.trigger = x.trigger /\ y.fp = x.fp /\ y.receipt = x.receipt
           /\ x.status # "ACTIVE" => y = x
           /\ x.status = "ACTIVE" =>
                /\ y.status = NextStatus(x, kind, strict, res)
                /\ y.runs = NextRuns(x, kind, strict, res)
                /\ y.next = NextEpoch(x, kind, strict, res)
                /\ y.alert = IF res.queue = NoQueue THEN x.alert ELSE res.quiet /\ res.same
  <1>1. CASE x.status # "ACTIVE"
    BY <1>1 DEF RecordedRow, SameTrigger
  <1>2. CASE x.status = "ACTIVE"
    <2> DEFINE s == NextStatus(x, kind, strict, res)
               n == NextRuns(x, kind, strict, res)
               f == NextFailures(x, kind, strict, res)
               e == NextEpoch(x, kind, strict, res)
               p == IF Guarded(kind, strict) /\ res.progress # 0 THEN res.progress ELSE x.progress
               u == NextUnchanged(x, kind, strict, res)
               q == IF res.queue = NoQueue THEN x.quiet ELSE IF res.quiet THEN res.queue ELSE NoQueue
               a == IF res.queue = NoQueue THEN x.alert ELSE res.quiet /\ res.same
               z == [x EXCEPT !.status = s, !.runs = n, !.fails = f, !.next = e, !.progress = p,
                              !.unchanged = u, !.quiet = q, !.alert = a]
    <2>1. RecordedRow(x, kind, strict, res) = z
      BY <1>2, Zenon DEF RecordedRow
    <2> HIDE DEF s, n, f, e, p, u, q, a
    <2>2. /\ SameTrigger(x, z) /\ z.trigger = x.trigger /\ z.fp = x.fp /\ z.receipt = x.receipt
          /\ z.status = s /\ z.runs = n /\ z.next = e /\ z.alert = a
      BY Zenon DEF Rows, SameTrigger
    <2> HIDE DEF z
    <2> QED  BY <1>2, <2>1, <2>2 DEF s, n, e, a
  <1> QED  BY <1>1, <1>2

-----------------------------------------------------------------------------
(* The steps of the processes, the CLI and the environment on one row.     *)

Commanded(h) == CommandWrite /\ cmd.beat = h
Recovered(h) == \E p \in Procs : RecoverWrite(p) /\ \E x \in proc[p].rec : x.beat = h

OutsideRow(h) ==
    \/ row'[h] = row[h]
    \/ row'[h] = ExpiredRow(row[h]) \/ row'[h] = AdvancedRow(row[h])
    \/ Recovered(h) /\ \E b \in BOOLEAN : row'[h] = RecoveredRow(row[h], b)
    \/ MayDeliver(row[h]) /\ row'[h] = DeliveredRow(row[h])
    \/ row'[h] = DueRow(row[h]) \/ row'[h] = PastRow(row[h])
    \/ /\ Commanded(h) /\ cmd.seen \in Rows
       /\ \/ cmd.want \in {"PAUSED", "ACTIVE", "CANCELLED"} /\ row'[h] = SetRow(row[h], cmd.seen, cmd.want)
          \/ /\ cmd.want \in {"update", "reactivate"}
             /\ \E b \in BOOLEAN : /\ b <=> cmd.want = "reactivate"
                                   /\ row'[h] = UpdatedRow(row[h], cmd.seen, Kind(h), b)

LEMMA OutsideRows ==
    ASSUME Inv, Outside, NEW h \in Beats
    PROVE  OutsideRow(h)
  <1>0. row \in [Beats -> Rows]
    BY DEF Inv, TypeOK
  <1>1. ASSUME NEW p \in Procs, RecoverWrite(p)
        PROVE  OutsideRow(h)
    <2> DEFINE flag == \E x \in proc[p].rec : x.beat = h /\ x.turn
    <2>1. row'[h] = IF \E x \in proc[p].rec : x.beat = h THEN RecoveredRow(row[h], flag) ELSE row[h]
      BY <1>1, RecoveryEffects
    <2>2. flag \in BOOLEAN
      OBVIOUS
    <2> HIDE DEF flag
    <2> QED  BY <1>1, <2>1, <2>2 DEF OutsideRow, Recovered
  <1>2. ASSUME NEW p \in Procs, Write(p)
        PROVE  OutsideRow(h)
    BY <1>2, WriteEffects DEF OutsideRow
  <1>3. ASSUME NEW i \in Beats, Tick(i)
        PROVE  OutsideRow(h)
    <2>1. row' = [row EXCEPT ![i] = DueRow(row[i])] \/ row' = [row EXCEPT ![i] = PastRow(row[i])]
      BY <1>0, <1>3 DEF Tick, DueRow, PastRow
    <2> QED  BY <1>0, <2>1 DEF OutsideRow
  <1>4. ASSUME NEW i \in Beats, CompleteDelivery(i)
        PROVE  OutsideRow(h)
    BY <1>0, <1>4 DEF CompleteDelivery, OutsideRow
  <1>5. CASE CommandWrite
    <2>1. cmd.beat \in Beats /\ cmd.want \in Wants /\ cmd.seen \in Rows
      <3>1. cmd.seen \in Rows
        BY Zenon DEF Inv, TypeOK
      <3> QED  BY <1>5, <3>1 DEF CommandWrite, Inv, WorkInv
    <2>2. CASE cmd.beat # h
      BY <1>0, <1>5, <2>2 DEF CommandWrite, OutsideRow
    <2>3. CASE cmd.beat = h
      <3>1. row'[h] = IF cmd.want \in {"update", "reactivate"}
                        THEN UpdatedRow(row[h], cmd.seen, Kind(h), cmd.want = "reactivate")
                        ELSE SetRow(row[h], cmd.seen, cmd.want)
        BY <1>0, <1>5, <2>3 DEF CommandWrite
      <3> DEFINE b == cmd.want = "reactivate"
      <3>2. b \in BOOLEAN /\ (b <=> cmd.want = "reactivate")
        OBVIOUS
      <3>3. cmd.want \in {"update", "reactivate"} => row'[h] = UpdatedRow(row[h], cmd.seen, Kind(h), b)
        BY <3>1
      <3> HIDE DEF b
      <3> QED  BY <1>5, <2>1, <2>3, <3>1, <3>2, <3>3 DEF OutsideRow, Commanded, Wants
    <2> QED  BY <2>2, <2>3
  <1>6. ASSUME \/ \E p \in Procs : RecoverRead(p) \/ Begin(p) \/ Select(p) \/ Crash(p)
               \/ UserTurn
               \/ \E i \in Beats, want \in Wants : CommandRead(i, want)
               \/ \E i \in Items : WorkerEnds(i)
               \/ \E r \in RunIds : TurnEnds(r)
               \/ UNCHANGED vars
        PROVE  OutsideRow(h)
    <2>1. row' = row
      BY <1>6 DEF RecoverRead, Begin, Select, Crash, UserTurn, CommandRead, WorkerEnds, TurnEnds, vars
    <2> QED  BY <2>1 DEF OutsideRow
  <1> QED  BY <1>0, <1>1, <1>2, <1>3, <1>4, <1>5, <1>6 DEF Outside

\* A command that raced is on record
LEMMA RacedNot ==
    ASSUME Inv, NEW h, Commanded(h), ~hist'.raced
    PROVE  ~Raced(h)
  <1> DEFINE hd == IF cmd.want \in {"update", "reactivate"} THEN hist.handed \ {h} ELSE hist.handed
             rc == hist.raced \/ Raced(h)
  <1>1. hist' = [hist EXCEPT !.handed = hd, !.raced = rc] /\ hist \in Hists
    BY HistTyped, Zenon DEF CommandWrite, Commanded, Inv
  <1> HIDE DEF hd, rc
  <1>2. hist'.raced = rc
    BY <1>1, Zenon DEF Hists
  <1> QED  BY <1>2 DEF rc

\* No such step counts a run or reports on a receipt
LEMMA OutsideAlike ==
    ASSUME Inv, Outside, NEW h \in Beats
    PROVE  Alike(row[h], row'[h])
  <1>1. row[h] \in Rows
    BY DEF Inv, TypeOK
  <1>2. TRUE \in BOOLEAN /\ FALSE \in BOOLEAN /\ Alike(row[h], row[h])
    BY DEF Alike
  <1>3. ASSUME Commanded(h), cmd.seen \in Rows,
               \/ row'[h] = SetRow(row[h], cmd.seen, cmd.want)
               \/ \E b \in BOOLEAN : row'[h] = UpdatedRow(row[h], cmd.seen, Kind(h), b)
        PROVE  Alike(row[h], row'[h])
    <2>1. CASE row'[h] = SetRow(row[h], cmd.seen, cmd.want)
      <3>1. Alike(row[h], SetRow(row[h], cmd.seen, cmd.want))
        BY <1>1, <1>3, SetRows
      <3> QED  BY <2>1, <3>1
    <2>2. ASSUME NEW b \in BOOLEAN, row'[h] = UpdatedRow(row[h], cmd.seen, Kind(h), b)
          PROVE  Alike(row[h], row'[h])
      <3>1. Alike(row[h], UpdatedRow(row[h], cmd.seen, Kind(h), b))
        BY <1>1, <1>3, UpdateRows
      <3> QED  BY <2>2, <3>1
    <2> QED  BY <1>3, <2>1, <2>2
  <1>4. CASE \E b \in BOOLEAN : row'[h] = RecoveredRow(row[h], b)
    BY <1>1, <1>4, ServiceRows
  <1>5. ASSUME \/ row'[h] = row[h] \/ row'[h] = ExpiredRow(row[h]) \/ row'[h] = AdvancedRow(row[h])
               \/ row'[h] = DeliveredRow(row[h]) \/ row'[h] = DueRow(row[h]) \/ row'[h] = PastRow(row[h])
        PROVE  Alike(row[h], row'[h])
    BY <1>1, <1>2, <1>5, ServiceRows
  <1> QED  BY <1>2, <1>3, <1>4, <1>5, OutsideRows DEF OutsideRow

\* A worker's step is on its own row
LEMMA OwnRow ==
    ASSUME Inv, NEW r \in RunIds, Effect(r), Alone(r), NEW h \in Beats, h # Beat(r)
    PROVE  row'[h] = row[h]
  <1>1. row' = row \/ \E x : row' = [row EXCEPT ![Beat(r)] = x]
    BY DEF Effect, Submits, GoesToArm, GoesToRead, GoesToStart, GoesToEnd, GoesToRecord, Inspects,
           Changes, Arms, Claims, Begins, Finishes, Reports, Takes, Looks, Marks, Records, Still, Writes
  <1> QED  BY <1>1 DEF Inv, TypeOK

\* What a worker's step does to the trigger of a row
LEMMA WorkerTrigger ==
    ASSUME Inv, NEW r \in RunIds, Effect(r), Alone(r), NEW h \in Beats
    PROVE  \/ ~Arms(r) /\ SameTrigger(row[h], row'[h])
           \/ h # Beat(r) /\ SameTrigger(row[h], row'[h])
           \/ /\ h = Beat(r) /\ Arms(r)
              /\ row'[h].trigger = "handoff_inflight" /\ row'[h].triggerRun = r
           \/ h = Beat(r) /\ Finishes(r) /\ row'[h] = FinishedTriggerRow(row[h], Woken(r))
  <1>0. /\ row \in [Beats -> Rows] /\ row[h] \in Rows /\ w[r].fp \in Nat /\ Woken(r) \in BOOLEAN
        /\ SameTrigger(row[h], row[h])
    BY Works DEF Woken, Inv, TypeOK, SameTrigger
  <1>1. CASE h # Beat(r)
    BY <1>0, <1>1, OwnRow
  <1>2. CASE h = Beat(r) /\ Arms(r)
    <2>1. row'[h] = ArmedRow(row[h], r)
      BY <1>0, <1>2 DEF Arms, Writes
    <2> QED  BY <1>0, <1>2, <2>1, HandoffTyped
  <1>3. CASE h = Beat(r) /\ Finishes(r)
    BY <1>0, <1>3 DEF Finishes, Writes
  <1>4. CASE h = Beat(r) /\ ~Arms(r) /\ ~Finishes(r)
    <2>1. CASE Claims(r) \/ Reports(r)
      <3>1. row'[h] \in {ClaimedReceiptRow(row[h], w[r].fp), FinishedReceiptRow(row[h], Woken(r))}
        BY <1>0, <1>4, <2>1 DEF Claims, Reports, Writes
      <3> QED  BY <1>0, <1>4, <3>1, ReceiptTyped
    <2>2. CASE Records(r)
      <3>1. PICK left \in ReceiptsLeft(r) :
              row'[h] = RecordedRow(row[h], Kind(h), mix.strict, Result(r, left[1], left[2]))
        BY <1>0, <1>4, <2>2 DEF Records, Writes
      <3> QED  BY <1>0, <1>4, <3>1, RecordRows
    <2>3. CASE ~Claims(r) /\ ~Reports(r) /\ ~Records(r)
      BY <1>0, <1>4, <2>3 DEF Effect, Submits, GoesToArm, GoesToRead, GoesToStart, GoesToEnd,
           GoesToRecord, Inspects, Changes, Begins, Takes, Looks, Marks, Still
    <2> QED  BY <2>1, <2>2, <2>3
  <1> QED  BY <1>1, <1>2, <1>3, <1>4

\* What the other steps do to the trigger of a row
LEMMA OutsideTrigger ==
    ASSUME Inv, Outside, NEW h \in Beats
    PROVE  \/ /\ row'[h].trigger \in {row[h].trigger, "delivered_cancelled"}
              /\ row'[h].triggerRun = row[h].triggerRun
           \/ Recovered(h) /\ \E b \in BOOLEAN : row'[h] = RecoveredRow(row[h], b)
           \/ /\ Commanded(h) /\ cmd.want \in {"update", "reactivate"}
              /\ row'[h].trigger \in {"not_applicable", "monitoring"}
  <1>0. row[h] \in Rows /\ OutsideRow(h)
    BY OutsideRows DEF Inv, TypeOK
  <1>1. /\ DeliveredRow(row[h]).trigger = "delivered_cancelled"
        /\ DeliveredRow(row[h]).triggerRun = row[h].triggerRun
        /\ SameTrigger(row[h], DueRow(row[h])) /\ SameTrigger(row[h], PastRow(row[h]))
        /\ SameTrigger(row[h], row[h])
    BY <1>0, Zenon DEF DeliveredRow, DueRow, PastRow, SameTrigger, Rows
  <1>2. SameTrigger(row[h], ExpiredRow(row[h])) /\ SameTrigger(row[h], AdvancedRow(row[h]))
    <2>1. 0 \in Nat /\ TRUE \in BOOLEAN
      OBVIOUS
    <2> QED  BY <1>0, <2>1, ReceiptTyped
  <1>3. ASSUME cmd.seen \in Rows, cmd.want \in {"PAUSED", "ACTIVE", "CANCELLED"},
               row'[h] = SetRow(row[h], cmd.seen, cmd.want)
        PROVE  SameTrigger(row[h], row'[h])
    BY <1>0, <1>3, SetTyped
  <1>4. ASSUME cmd.seen \in Rows, NEW b \in BOOLEAN, row'[h] = UpdatedRow(row[h], cmd.seen, Kind(h), b)
        PROVE  row'[h].trigger \in {"not_applicable", "monitoring"}
    BY <1>0, <1>4, UpdatedTyped
  <1> QED  BY <1>0, <1>1, <1>2, <1>3, <1>4 DEF OutsideRow, SameTrigger

-----------------------------------------------------------------------------
(* One process: no two turns in one target.                                *)

Shares(r, s) == Wakes(Beat(r)) = Wakes(Beat(s)) /\ Wakes(Beat(r))[1] = "target"

ThreadInv ==
    \A r, s \in RunIds : (Shares(r, s) /\ turn[s] = "running") =>
        /\ w[r].pc # "start"
        /\ turn[r] = "running" => r = s

LEMMA SharesTarget ==
    ASSUME NEW r, NEW s, Shares(r, s)
    PROVE  Target(Beat(r)) = Target(Beat(s))
  <1>1. ASSUME NEW h, Wakes(h)[1] = "target"
        PROVE  Wakes(h) = <<"target", Target(h)>>
    BY <1>1 DEF Wakes
  <1> QED  BY <1>1 DEF Shares

LEMMA ThreadStep ==
    ASSUME Inv, PlaceInv, SoloInv, ThreadInv, [Next]_vars
    PROVE  ThreadInv'
  <1>1. ASSUME NEW r \in RunIds, Effect(r), Alone(r)
        PROVE  ThreadInv'
    <2>1. \A s, t \in RunIds : Shares(s, t)' = Shares(s, t)
      BY <1>1 DEF Alone, Shares, Wakes, Target, Kind, Beat
    <2>2. turn \in [RunIds -> {"none", "running", "completed", "failed"}]
      BY DEF Inv, TypeOK
    <2>3. CASE Begins(r)
      <3>1. turn'[r] = "running" /\ \A s \in RunIds : s # r => turn'[s] = turn[s]
        BY <2>2, <2>3 DEF Begins
      <3>2. w[r].pc = "start" /\ w'[r].pc # "start"
        BY <2>3 DEF Begins
      <3>3. ASSUME NEW s \in RunIds, w'[s].pc = "start"
            PROVE  ~Shares(s, r) /\ w[s].pc = "start" /\ s # r
        <4>1. s # r /\ w[s].pc = "start"
          BY <1>1, <3>2, <3>3 DEF Alone
        <4>2. "start" \in Active
          BY DEF Active
        <4> QED  BY <3>2, <4>1, <4>2, SharesTarget DEF SoloInv
      <3>4. \A s, t \in RunIds : Shares(s, t) => Shares(t, s)
        BY DEF Shares
      <3> QED  BY <2>1, <3>1, <3>2, <3>3, <3>4 DEF ThreadInv
    <2>4. CASE ~Begins(r)
      <3>1. turn' = turn /\ (w'[r].pc = "start" => GoesToStart(r))
        BY <1>1, <2>4 DEF Effect, Submits, GoesToArm, GoesToRead, GoesToStart, GoesToEnd, GoesToRecord,
             Inspects, Changes, Arms, Claims, Finishes, Reports, Takes, Looks, Marks, Records, Still
      <3>2. ASSUME GoesToStart(r), NEW s \in RunIds, turn[s] = "running"
            PROVE  ~Shares(r, s)
        BY <3>2 DEF GoesToStart, ThreadBusy, Running, Shares
      <3> QED  BY <1>1, <2>1, <3>1, <3>2 DEF ThreadInv, Alone
    <2> QED  BY <2>3, <2>4
  <1>2. ASSUME Outside
        PROVE  ThreadInv'
    <2>1. mix' = mix /\ \A s \in RunIds : Others(s)
      BY <1>2, OtherEffects
    <2>2. \A s \in RunIds : turn'[s] = "running" => turn[s] = "running"
      BY <1>2, TurnKept
    <2>3. ASSUME NEW s \in RunIds, turn'[s] = "running" \/ w'[s].pc = "start"
          PROVE  Beat(s)' = Beat(s) /\ (w'[s].pc = "start" => w[s].pc = "start")
      <3>1. CASE \E p \in Procs : Fresh(s, p)
        BY <2>2, <2>3, <3>1 DEF Fresh, PlaceInv, Placed, Beat
      <3>2. CASE ~\E p \in Procs : Fresh(s, p)
        BY <2>1, <3>2 DEF Others, Beat
      <3> QED  BY <3>1, <3>2
    <2>4. ASSUME NEW s \in RunIds, NEW t \in RunIds, Beat(s)' = Beat(s), Beat(t)' = Beat(t), Shares(s, t)'
          PROVE  Shares(s, t)
      BY <2>1, <2>4 DEF Shares, Wakes, Target, Kind
    <2> QED  BY <2>2, <2>3, <2>4 DEF ThreadInv
  <1> QED  BY <1>1, <1>2, StepKinds

-----------------------------------------------------------------------------
(* One process: a completed handoff stays, none of its heartbeat's workers *)
(* is about to wake the target, and no recovery has read it.               *)

Delivered == {"handoff_pending_delivery", "delivered_cancelled"}

TrigInv ==
    /\ \A h \in hist.handed :
         /\ Kind(h) = "quota" /\ row[h].trigger \in Delivered
         /\ \A r \in RunIds : Beat(r) = h => w[r].pc \notin {"read", "start"}
    /\ \A x \in proc["service"].rec : x.beat \notin hist.handed

LEMMA TrigStep ==
    ASSUME Inv, PlaceInv, SoloInv, TrigInv, [Next]_vars
    PROVE  TrigInv'
  <1>0. /\ row \in [Beats -> Rows] /\ row' \in [Beats -> Rows] /\ hist.handed \subseteq Beats
        /\ w \in [RunIds -> Workers] /\ \A r \in RunIds : w[r].fp \in Nat
        /\ \A r \in RunIds : Woken(r) \in BOOLEAN
    <2>1. row \in [Beats -> Rows] /\ hist.handed \subseteq Beats /\ w \in [RunIds -> Workers]
      BY HistTyped DEF Inv, TypeOK
    <2>2. row' \in [Beats -> Rows]
      BY StepInv DEF Inv, TypeOK
    <2>3. \A v \in Workers : v.fp \in Nat
      BY Zenon DEF Workers
    <2> QED  BY <2>1, <2>2, <2>3 DEF Woken
  <1>1. ASSUME NEW r \in RunIds, Effect(r), Alone(r)
        PROVE  TrigInv'
    <2>1. /\ \A s \in RunIds : Beat(s)' = Beat(s)
          /\ \A h : Kind(h)' = Kind(h)
          /\ \A s \in RunIds : s # r => w'[s] = w[s]
          /\ Beat(r) \in Beats /\ row[Beat(r)] \in Rows
          /\ proc'["service"].rec = {}
      BY <1>0, <1>1, ReadKept DEF Alone, Beat, Kind
    <2>2. CASE Finishes(r) /\ Woken(r)
      <3>1. /\ hist'.handed = hist.handed \cup {Beat(r)} /\ Kind(Beat(r)) = "quota"
            /\ w[r].pc = "settle" /\ w'[r].pc = "record"
        BY <2>2, HistEffects DEF Finishes
      <3>2. row'[Beat(r)].trigger = "handoff_pending_delivery"
        <4>1. row'[Beat(r)] = FinishedTriggerRow(row[Beat(r)], TRUE)
          BY <1>0, <2>1, <2>2 DEF Finishes, Writes
        <4>2. FinishedTriggerRow(row[Beat(r)], TRUE).trigger = "handoff_pending_delivery"
          BY <1>0, <2>1, WorkerRows
        <4> QED  BY <4>1, <4>2
      <3>3. ASSUME NEW s \in RunIds, Beat(s) = Beat(r)
            PROVE  w'[s].pc \notin {"read", "start"}
        <4>1. {"read", "start", "settle"} \subseteq Active
          BY DEF Active
        <4>2. s # r => w[s].pc \notin Active
          BY <3>1, <3>3, <4>1 DEF SoloInv
        <4> QED  BY <2>1, <3>1, <4>1, <4>2
      <3>4. \A h \in hist.handed : h # Beat(r) => row'[h] = row[h]
        BY <1>0, <1>1, OwnRow
      <3> QED  BY <2>1, <3>1, <3>2, <3>3, <3>4 DEF TrigInv, Delivered
    <2>3. CASE ~(Finishes(r) /\ Woken(r))
      <3>1. hist'.handed = hist.handed
        BY <1>1, <2>3, HistEffects
      <3>2. ASSUME NEW h \in hist.handed
            PROVE  row'[h].trigger = row[h].trigger
        <4>1. CASE h # Beat(r)
          BY <1>0, <1>1, <4>1, OwnRow
        <4>2. CASE h = Beat(r)
          <5>1. row[Beat(r)].trigger \in Delivered /\ row[Beat(r)] \in Rows
            BY <2>1, <3>2, <4>2 DEF TrigInv
          <5>2. ~Arms(r) /\ ~Finishes(r)
            BY <5>1 DEF Arms, Finishes, MayArm, MayFinishTrigger, Delivered
          <5>3. CASE Claims(r)
            <6>1. row'[Beat(r)] = ClaimedReceiptRow(row[Beat(r)], w[r].fp)
              BY <1>0, <2>1, <5>3 DEF Claims, Writes
            <6> QED  BY <1>0, <4>2, <5>1, <6>1, WorkerRows
          <5>4. CASE Reports(r)
            <6>1. row'[Beat(r)] = FinishedReceiptRow(row[Beat(r)], Woken(r))
              BY <1>0, <2>1, <5>4 DEF Reports, Writes
            <6> QED  BY <1>0, <4>2, <5>1, <6>1, WorkerRows
          <5>5. CASE Records(r)
            <6>1. PICK left \in ReceiptsLeft(r) :
                    row'[Beat(r)] = RecordedRow(row[Beat(r)], Kind(Beat(r)), mix.strict, Result(r, left[1], left[2]))
              BY <1>0, <2>1, <5>5 DEF Records, Writes
            <6> QED  BY <4>2, <5>1, <6>1, RecordRows
          <5>6. CASE ~Claims(r) /\ ~Reports(r) /\ ~Records(r)
            BY <1>1, <5>2, <5>6 DEF Effect, Submits, GoesToArm, GoesToRead, GoesToStart, GoesToEnd,
                 GoesToRecord, Inspects, Changes, Begins, Takes, Looks, Marks, Still
          <5> QED  BY <5>3, <5>4, <5>5, <5>6
        <4> QED  BY <4>1, <4>2
      <3>3. ASSUME NEW h \in hist.handed, Beat(r) = h
            PROVE  w'[r].pc \notin {"read", "start"}
        <4>1. Kind(Beat(r)) = "quota" /\ w[r].pc \notin {"read", "start"} /\ row[Beat(r)].trigger \in Delivered
          BY <3>3 DEF TrigInv
        <4>2. ~Arms(r) /\ (w[r].pc # "claim")
          BY <4>1 DEF Arms, MayArm, Delivered, PlaceInv, Placed
        <4> QED  BY <1>1, <4>1, <4>2 DEF Effect, Submits, GoesToArm, GoesToRead, GoesToStart, GoesToEnd,
                 GoesToRecord, Inspects, Changes, Claims, Begins, Finishes, Reports, Takes, Looks, Marks, Records
      <3> QED  BY <2>1, <3>1, <3>2, <3>3 DEF TrigInv
    <2> QED  BY <2>2, <2>3
  <1>2. ASSUME Outside
        PROVE  TrigInv'
    <2>1. mix' = mix /\ hist'.handed \subseteq hist.handed /\ \A s \in RunIds : Others(s)
      BY <1>2, OtherEffects, HistOutside
    <2>2. ASSUME NEW h \in hist'.handed, NEW r \in RunIds, Beat(r)' = h
          PROVE  w'[r].pc \notin {"read", "start"}
      BY <2>1, <2>2 DEF TrigInv, Others, Fresh, Beat
    <2>3. ASSUME NEW h \in hist'.handed
          PROVE  row'[h].trigger \in Delivered
      <3>1. h \in Beats /\ h \in hist.handed /\ row[h] \in Rows /\ row[h].trigger \in Delivered
        BY <1>0, <2>1, <2>3 DEF TrigInv
      <3>2. OutsideRow(h)
        BY <1>2, <3>1, OutsideRows
      <3>3. ~Recovered(h)
        <4>1. \A p \in Procs : RecoverWrite(p) => p = "service"
          BY ReadKept DEF RecoverWrite
        <4> QED  BY <3>1, <4>1 DEF Recovered, TrigInv
      <3>6. /\ ExpiredRow(row[h]).trigger = row[h].trigger /\ AdvancedRow(row[h]).trigger = row[h].trigger
            /\ DueRow(row[h]).trigger = row[h].trigger /\ PastRow(row[h]).trigger = row[h].trigger
            /\ DeliveredRow(row[h]).trigger = "delivered_cancelled"
        BY <3>1, ServiceRows
      <3>4. CASE Commanded(h)
        <4>1. cmd.want \notin {"update", "reactivate"}
          <5> DEFINE ups == cmd.want \in {"update", "reactivate"}
          <5>1. hist' = [hist EXCEPT !.handed = IF ups THEN hist.handed \ {h} ELSE hist.handed,
                                     !.raced = hist.raced \/ Raced(h)] /\ hist \in Hists
            BY <3>4, HistTyped, Zenon DEF CommandWrite, Commanded, Inv
          <5> HIDE DEF ups
          <5>2. hist'.handed = IF ups THEN hist.handed \ {h} ELSE hist.handed
            BY <5>1, Zenon DEF Hists
          <5>3. ~ups
            BY <2>3, <5>2
          <5> QED  BY <5>3 DEF ups
        <4>2. CASE cmd.seen \in Rows /\ row'[h] = SetRow(row[h], cmd.seen, cmd.want)
          <5>1. SetRow(row[h], cmd.seen, cmd.want).trigger = row[h].trigger
            <6>1. cmd.seen \in Rows /\ row[h] \in Rows
              BY <3>1, <4>2
            <6> QED  BY <6>1, SetRows
          <5> QED  BY <3>1, <4>2, <5>1
        <4>3. CASE ~(cmd.seen \in Rows /\ row'[h] = SetRow(row[h], cmd.seen, cmd.want))
          BY <3>1, <3>2, <3>3, <3>6, <4>1, <4>3 DEF OutsideRow, Delivered
        <4> QED  BY <4>2, <4>3
      <3>5. CASE ~Commanded(h)
        BY <3>1, <3>2, <3>3, <3>5, <3>6 DEF OutsideRow, Delivered
      <3> QED  BY <3>4, <3>5
    <2>4. ASSUME NEW x \in proc'["service"].rec
          PROVE  x.beat \notin hist'.handed
      <3>1. CASE RecoverRead("service")
        <4>1. PICK h \in Beats : /\ NeedsRecovery(row[h])
                                 /\ x = [beat |-> h, run |-> row[h].triggerRun,
                                         turn |-> run[row[h].triggerRun].turn]
          BY <2>4, <3>1, ProcEffects DEF Procs
        <4>2. x.beat = h /\ row[h].trigger = "handoff_inflight"
          BY <4>1 DEF NeedsRecovery
        <4> QED  BY <2>1, <4>2 DEF TrigInv, Delivered
      <3>2. CASE x \in proc["service"].rec
        BY <2>1, <3>2 DEF TrigInv
      <3> QED  BY <1>2, <2>4, <3>1, <3>2, ReadKept
    <2> QED  BY <2>1, <2>2, <2>3, <2>4 DEF TrigInv, Kind
  <1> QED  BY <1>1, <1>2, StepKinds

-----------------------------------------------------------------------------
(* One process: a state of the observed thread that was reported, or is    *)
(* being reported, is the last one claimed, or an older one than any       *)
(* worker still holds.                                                     *)

Before(r) == w[r].pc \in {"observe", "claim"}
During(r) == /\ w[r].pc \in {"read", "start", "note", "wait", "settle"}
             /\ Kind(Beat(r)) \in {"terminal", "continue"}

\* The report c is of the last state claimed, or of an older one
Behind(c) ==
    \/ row[c[1]].fp = c[2]
    \/ /\ c[2] < user.n
       /\ \A r \in RunIds : (Before(r) /\ Beat(r) = c[1]) => w[r].fp = 0 \/ w[r].fp > c[2]

ContInv ==
    /\ \A c \in hist.cont : c[2] <= user.n /\ Behind(c)
    /\ \A r \in RunIds : Before(r) =>
         /\ w[r].fp <= user.n
         /\ \A c \in hist.cont : c[1] = Beat(r) => w[r].fp = 0 \/ w[r].fp >= c[2]
    /\ \A r \in RunIds : During(r) =>
         /\ w[r].fp <= user.n /\ w[r].fp # 0 /\ row[Beat(r)].fp = w[r].fp
         /\ \A c \in hist.cont : (c[1] = Beat(r) /\ c[3] # r) => c[2] < w[r].fp
    /\ \A c, d \in hist.cont : (c[1] = d[1] /\ c[2] = d[2]) => c[3] = d[3]

\* The numbers that the invariant compares
LEMMA ContTyped ==
    ASSUME Inv
    PROVE  /\ user.n \in Nat
           /\ \A r \in RunIds : w[r].fp \in Nat
           /\ \A c \in hist.cont : c[1] \in Beats /\ c[2] \in Nat /\ c[3] \in RunIds
           /\ \A h \in Beats : row[h] \in Rows /\ row[h].fp \in Nat
           /\ \A r \in RunIds : Woken(r) \in BOOLEAN
  <1>1. /\ user \in [n: Nat, busy: BOOLEAN, ok: BOOLEAN, cold: BOOLEAN] /\ w \in [RunIds -> Workers]
        /\ hist.cont \subseteq Beats \X Nat \X RunIds /\ row \in [Beats -> Rows]
    BY HistTyped DEF Inv, TypeOK
  <1>2. user.n \in Nat
    BY <1>1, Zenon
  <1>3. (\A v \in Workers : v.fp \in Nat) /\ \A x \in Rows : x.fp \in Nat
    BY Zenon DEF Workers, Rows
  <1>4. \A c \in hist.cont : c[1] \in Beats /\ c[2] \in Nat /\ c[3] \in RunIds
    BY <1>1
  <1> QED  BY <1>1, <1>2, <1>3, <1>4 DEF Woken

\* A step that reports nothing and claims nothing
LEMMA ContKept ==
    ASSUME Inv, Inv', ContInv, mix' = mix, hist'.cont = hist.cont, user'.n >= user.n,
           \A h \in Beats : row'[h].fp = row[h].fp,
           \A r \in RunIds : Before(r)' =>
             \/ Before(r) /\ w'[r].fp = w[r].fp /\ Beat(r)' = Beat(r)
             \/ w'[r].fp \in {0, user.n} /\ user'.n = user.n,
           \A r \in RunIds : During(r)' => During(r) /\ w'[r].fp = w[r].fp /\ Beat(r)' = Beat(r)
    PROVE  ContInv'
  <1>0. /\ user.n \in Nat /\ user'.n \in Nat
        /\ \A r \in RunIds : w[r].fp \in Nat /\ w'[r].fp \in Nat
        /\ \A c \in hist.cont : c[1] \in Beats /\ c[2] \in Nat
    <2>1. user' \in [n: Nat, busy: BOOLEAN, ok: BOOLEAN, cold: BOOLEAN] /\ w' \in [RunIds -> Workers]
      BY DEF Inv, TypeOK
    <2>2. (\A v \in Workers : v.fp \in Nat) /\ user'.n \in Nat
      BY <2>1, Zenon DEF Workers
    <2> QED  BY <2>1, <2>2, ContTyped
  <1>1. ASSUME NEW c \in hist.cont
        PROVE  c[2] <= user'.n /\ Behind(c)'
    <2>1. c[2] <= user.n /\ Behind(c) /\ row'[c[1]].fp = row[c[1]].fp /\ c[2] \in Nat
      BY <1>0 DEF ContInv
    <2>2. CASE row[c[1]].fp = c[2]
      BY <1>0, <2>1, <2>2 DEF Behind
    <2>3. CASE row[c[1]].fp # c[2]
      <3>1. c[2] < user.n /\ c[2] < user'.n
        BY <1>0, <2>1, <2>3 DEF Behind
      <3>2. ASSUME NEW r \in RunIds, Before(r)', Beat(r)' = c[1]
            PROVE  w'[r].fp = 0 \/ w'[r].fp > c[2]
        <4>1. CASE Before(r) /\ w'[r].fp = w[r].fp /\ Beat(r)' = Beat(r)
          BY <2>1, <2>3, <3>2, <4>1 DEF Behind
        <4>2. CASE w'[r].fp \in {0, user.n}
          BY <1>0, <2>1, <3>1, <4>2
        <4> QED  BY <3>2, <4>1, <4>2
      <3> QED  BY <1>0, <2>1, <3>1, <3>2 DEF Behind
    <2> QED  BY <2>2, <2>3
  <1>2. ASSUME NEW r \in RunIds, Before(r)'
        PROVE  /\ w'[r].fp <= user'.n
               /\ \A c \in hist.cont : c[1] = Beat(r)' => w'[r].fp = 0 \/ w'[r].fp >= c[2]
    <2>1. CASE Before(r) /\ w'[r].fp = w[r].fp /\ Beat(r)' = Beat(r)
      BY <1>0, <2>1 DEF ContInv
    <2>2. CASE w'[r].fp \in {0, user.n} /\ user'.n = user.n
      BY <1>0, <2>2 DEF ContInv
    <2> QED  BY <1>2, <2>1, <2>2
  <1>3. ASSUME NEW r \in RunIds, During(r)'
        PROVE  /\ w'[r].fp <= user'.n /\ w'[r].fp # 0 /\ row'[Beat(r)'].fp = w'[r].fp
               /\ \A c \in hist.cont : (c[1] = Beat(r)' /\ c[3] # r) => c[2] < w'[r].fp
    <2>1. During(r) /\ w'[r].fp = w[r].fp /\ Beat(r)' = Beat(r)
      BY <1>3
    <2>2. Beat(r) \in Beats
      <3>1. w[r].pc \in Active
        BY <2>1 DEF During, Active
      <3> QED  BY <3>1, Works DEF Busy
    <2> QED  BY <1>0, <2>1, <2>2 DEF ContInv
  <1> QED  BY <1>1, <1>2, <1>3 DEF ContInv

\* A claim: the state is newer than all that were reported
LEMMA ContClaims ==
    ASSUME Inv, PlaceInv, SoloInv, ContInv, NEW r \in RunIds, Claims(r), Alone(r)
    PROVE  ContInv'
  <1> DEFINE h == Beat(r)
  <1>0. /\ user.n \in Nat /\ \A s \in RunIds : w[s].fp \in Nat
        /\ \A c \in hist.cont : c[1] \in Beats /\ c[2] \in Nat
        /\ h \in Beats /\ row[h] \in Rows /\ row \in [Beats -> Rows]
    BY ContTyped DEF Alone, Inv, TypeOK
  <1>1. /\ user' = user /\ hist' = hist /\ w[r].pc = "claim"
        /\ \A s \in RunIds : Beat(s)' = Beat(s) /\ (s # r => w'[s] = w[s])
        /\ \A g : Kind(g)' = Kind(g)
        /\ w'[r].pc \in {"read", "settle"} /\ w'[r].fp = w[r].fp
    BY DEF Claims, Alone, Carries, Beat, Kind
  <1>2. w[r].fp # 0 /\ Kind(h) \in {"terminal", "continue"} /\ row[h].fp # w[r].fp
    BY <1>1 DEF PlaceInv, Placed, Claims, MayClaimReceipt
  <1>3. /\ row'[h].fp = w[r].fp
        /\ \A g \in Beats : g # h => row'[g] = row[g]
    <2>1. row'[h] = ClaimedReceiptRow(row[h], w[r].fp) /\ \A g \in Beats : g # h => row'[g] = row[g]
      BY <1>0 DEF Claims, Writes
    <2>2. ClaimedReceiptRow(row[h], w[r].fp).fp = w[r].fp
      BY <1>0, Zenon DEF ClaimedReceiptRow, Rows
    <2> QED  BY <2>1, <2>2
  <1>4. \A s \in RunIds : (s # r /\ Beat(s) = h) => w[s].pc \notin Active
    <2>1. w[r].pc \in Active
      BY <1>1 DEF Active
    <2> QED  BY <2>1 DEF SoloInv
  <1>5. {"observe", "claim", "read", "start", "note", "wait", "settle"} \subseteq Active
    BY DEF Active
  <1>6. \A c \in hist.cont : c[1] = h => c[2] < w[r].fp
    BY <1>0, <1>1, <1>2 DEF ContInv, Behind, Before
  <1>7. ~Before(r)' /\ Before(r) /\ w[r].fp <= user.n
    BY <1>1 DEF Before, ContInv
  <1>8. ASSUME NEW c \in hist.cont
        PROVE  c[2] <= user'.n /\ Behind(c)'
    <2>1. CASE c[1] = h
      <3>1. c[2] < user.n
        BY <1>0, <1>6, <1>7, <2>1
      <3>2. \A s \in RunIds : Before(s)' => Beat(s)' # h
        BY <1>1, <1>4, <1>5, <1>7 DEF Before
      <3> QED  BY <1>0, <1>1, <2>1, <3>1, <3>2 DEF Behind
    <2>2. CASE c[1] # h
      <3>1. \A s \in RunIds : (Before(s)' /\ Beat(s)' = c[1]) => Before(s) /\ w'[s] = w[s] /\ Beat(s) = c[1]
        BY <1>1, <2>2 DEF Before
      <3> QED  BY <1>0, <1>1, <1>3, <2>2, <3>1 DEF Behind, ContInv
    <2> QED  BY <2>1, <2>2
  <1>9. ASSUME NEW s \in RunIds, Before(s)'
        PROVE  /\ w'[s].fp <= user'.n
               /\ \A c \in hist.cont : c[1] = Beat(s)' => w'[s].fp = 0 \/ w'[s].fp >= c[2]
    <2>1. Before(s) /\ w'[s] = w[s] /\ Beat(s)' = Beat(s)
      BY <1>1, <1>7, <1>9 DEF Before
    <2> QED  BY <1>1, <2>1 DEF ContInv
  <1>10. ASSUME NEW s \in RunIds, During(s)'
         PROVE  /\ w'[s].fp <= user'.n /\ w'[s].fp # 0 /\ row'[Beat(s)'].fp = w'[s].fp
                /\ \A c \in hist.cont : (c[1] = Beat(s)' /\ c[3] # s) => c[2] < w'[s].fp
    <2>1. CASE s = r
      BY <1>1, <1>2, <1>3, <1>6, <1>7, <2>1
    <2>2. CASE s # r
      <3>1. During(s) /\ w'[s] = w[s] /\ Beat(s)' = Beat(s)
        BY <1>1, <1>10, <2>2 DEF During
      <3>2. w[s].pc \in Active
        BY <1>5, <3>1 DEF During
      <3>3. Beat(s) # h /\ Beat(s) \in Beats
        BY <1>4, <2>2, <3>2, Works DEF Busy
      <3> QED  BY <1>1, <1>3, <3>1, <3>3 DEF ContInv
    <2> QED  BY <2>1, <2>2
  <1> QED  BY <1>1, <1>8, <1>9, <1>10 DEF ContInv

\* A wake: the run reports the state it claimed
LEMMA ContBegins ==
    ASSUME Inv, PlaceInv, SoloInv, ContInv, NEW r \in RunIds, Begins(r), Alone(r),
           Kind(Beat(r)) \in {"terminal", "continue"}
    PROVE  ContInv'
  <1> DEFINE h == Beat(r)
             e == <<h, w[r].fp, r>>
  <1>0. /\ user.n \in Nat /\ \A s \in RunIds : w[s].fp \in Nat
        /\ \A c \in hist.cont : c[1] \in Beats /\ c[2] \in Nat
        /\ h \in Beats
    BY ContTyped DEF Alone
  <1>1. /\ user' = user /\ row' = row /\ w[r].pc = "start"
        /\ \A s \in RunIds : Beat(s)' = Beat(s) /\ (s # r => w'[s] = w[s])
        /\ \A g : Kind(g)' = Kind(g)
        /\ w'[r].pc \in {"note", "wait", "settle"} /\ w'[r].fp = w[r].fp
        /\ hist'.cont = hist.cont \cup {e}
    BY HistEffects DEF Begins, Alone, Carries, Beat, Kind
  <1>2. \A s \in RunIds : (s # r /\ Beat(s) = h) => w[s].pc \notin Active
    <2>1. w[r].pc \in Active
      BY <1>1 DEF Active
    <2> QED  BY <2>1 DEF SoloInv
  <1>3. {"observe", "claim", "read", "start", "note", "wait", "settle"} \subseteq Active
    BY DEF Active
  <1>4. /\ w[r].fp <= user.n /\ w[r].fp # 0 /\ row[h].fp = w[r].fp
        /\ \A c \in hist.cont : (c[1] = h /\ c[3] # r) => c[2] < w[r].fp
    BY <1>1 DEF ContInv, During
  <1>5. e[1] = h /\ e[2] = w[r].fp /\ e[3] = r
    OBVIOUS
  <1>6. \A s \in RunIds : Before(s)' => Before(s) /\ w'[s] = w[s] /\ s # r /\ Beat(s) # h
    BY <1>1, <1>2, <1>3 DEF Before
  <1> HIDE DEF e
  <1>7. ASSUME NEW c \in hist'.cont
        PROVE  c[2] <= user'.n /\ Behind(c)'
    <2>1. CASE c = e
      BY <1>1, <1>4, <1>5, <2>1 DEF Behind
    <2>2. CASE c \in hist.cont
      BY <1>1, <1>6, <2>2 DEF Behind, ContInv
    <2> QED  BY <1>1, <2>1, <2>2
  <1>8. ASSUME NEW s \in RunIds, Before(s)'
        PROVE  /\ w'[s].fp <= user'.n
               /\ \A c \in hist'.cont : c[1] = Beat(s)' => w'[s].fp = 0 \/ w'[s].fp >= c[2]
    BY <1>1, <1>5, <1>6, <1>8 DEF ContInv
  <1>9. ASSUME NEW s \in RunIds, During(s)'
        PROVE  /\ w'[s].fp <= user'.n /\ w'[s].fp # 0 /\ row'[Beat(s)'].fp = w'[s].fp
               /\ \A c \in hist'.cont : (c[1] = Beat(s)' /\ c[3] # s) => c[2] < w'[s].fp
    <2>1. CASE s = r
      BY <1>1, <1>4, <1>5, <2>1
    <2>2. CASE s # r
      <3>1. During(s) /\ w'[s] = w[s] /\ Beat(s)' = Beat(s)
        BY <1>1, <1>9, <2>2 DEF During
      <3>2. w[s].pc \in Active
        BY <1>3, <3>1 DEF During
      <3>3. Beat(s) # h
        BY <1>2, <2>2, <3>2
      <3> QED  BY <1>1, <1>5, <3>1, <3>3 DEF ContInv
    <2> QED  BY <2>1, <2>2
  <1>10. ASSUME NEW c \in hist'.cont, NEW d \in hist'.cont, c[1] = d[1], c[2] = d[2]
         PROVE  c[3] = d[3]
    <2>1. \A x \in hist.cont : (x[1] = e[1] /\ x[2] = e[2]) => x[3] = e[3]
      BY <1>0, <1>4, <1>5
    <2> QED  BY <1>1, <1>10, <2>1 DEF ContInv
  <1> QED  BY <1>7, <1>8, <1>9, <1>10 DEF ContInv

\* The end of a wake: a failed one is taken back, together with the claim
LEMMA ContReports ==
    ASSUME Inv, PlaceInv, SoloInv, ContInv, NEW r \in RunIds, Reports(r), Alone(r)
    PROVE  ContInv'
  <1> DEFINE h == Beat(r)
  <1>0. /\ user.n \in Nat /\ \A s \in RunIds : w[s].fp \in Nat
        /\ \A c \in hist.cont : c[1] \in Beats /\ c[2] \in Nat
        /\ h \in Beats /\ row[h] \in Rows /\ row \in [Beats -> Rows] /\ Woken(r) \in BOOLEAN
    BY ContTyped DEF Alone, Inv, TypeOK
  <1>1. /\ user' = user /\ w[r].pc = "settle" /\ w'[r].pc = "record"
        /\ Kind(h) \in {"terminal", "continue"}
        /\ \A s \in RunIds : Beat(s)' = Beat(s) /\ (s # r => w'[s] = w[s])
        /\ \A g : Kind(g)' = Kind(g)
        /\ hist'.cont = IF Woken(r) THEN hist.cont ELSE {c \in hist.cont : c[3] # r}
    BY HistEffects DEF Reports, Alone, Beat, Kind
  <1>2. \A s \in RunIds : (s # r /\ Beat(s) = h) => w[s].pc \notin Active
    <2>1. w[r].pc \in Active
      BY <1>1 DEF Active
    <2> QED  BY <2>1 DEF SoloInv
  <1>3. {"observe", "claim", "read", "start", "note", "wait", "settle"} \subseteq Active
    BY DEF Active
  <1>4. /\ \A g \in Beats : g # h => row'[g] = row[g]
        /\ Woken(r) => row'[h].fp = row[h].fp
    <2>1. row'[h] = FinishedReceiptRow(row[h], Woken(r)) /\ \A g \in Beats : g # h => row'[g] = row[g]
      BY <1>0 DEF Reports, Writes
    <2>2. Woken(r) => FinishedReceiptRow(row[h], Woken(r)).fp = row[h].fp
      BY <1>0, WorkerRows
    <2> QED  BY <2>1, <2>2
  <1>5. /\ w[r].fp <= user.n /\ w[r].fp # 0 /\ row[h].fp = w[r].fp
        /\ \A c \in hist.cont : (c[1] = h /\ c[3] # r) => c[2] < w[r].fp
    BY <1>1 DEF ContInv, During
  <1>6. \A s \in RunIds : Before(s)' \/ During(s)' => w'[s] = w[s] /\ s # r /\ Beat(s) # h
    BY <1>1, <1>2, <1>3 DEF Before, During
  <1>7. \A s \in RunIds : (Before(s)' => Before(s)) /\ (During(s)' => During(s))
    BY <1>1, <1>6 DEF Before, During
  <1>8. ASSUME NEW c \in hist'.cont
        PROVE  c \in hist.cont /\ c[2] <= user'.n /\ Behind(c)'
    <2>1. c \in hist.cont /\ (~Woken(r) => c[3] # r)
      BY <1>1, <1>8
    <2>2. CASE c[1] # h \/ Woken(r)
      <3>1. row'[c[1]].fp = row[c[1]].fp
        BY <1>0, <1>4, <2>1, <2>2
      <3> QED  BY <1>1, <1>6, <1>7, <2>1, <3>1 DEF Behind, ContInv
    <2>3. CASE c[1] = h /\ ~Woken(r)
      <3>1. c[2] < user.n
        BY <1>0, <1>5, <2>1, <2>3
      <3> QED  BY <1>0, <1>1, <1>6, <2>1, <2>3, <3>1 DEF Behind
    <2> QED  BY <2>2, <2>3
  <1>9. ASSUME NEW s \in RunIds, Before(s)'
        PROVE  /\ w'[s].fp <= user'.n
               /\ \A c \in hist'.cont : c[1] = Beat(s)' => w'[s].fp = 0 \/ w'[s].fp >= c[2]
    BY <1>1, <1>6, <1>7, <1>8, <1>9 DEF ContInv
  <1>10. ASSUME NEW s \in RunIds, During(s)'
         PROVE  /\ w'[s].fp <= user'.n /\ w'[s].fp # 0 /\ row'[Beat(s)'].fp = w'[s].fp
                /\ \A c \in hist'.cont : (c[1] = Beat(s)' /\ c[3] # s) => c[2] < w'[s].fp
    <2>1. During(s) /\ w'[s] = w[s] /\ Beat(s) # h /\ Beat(s)' = Beat(s)
      BY <1>1, <1>6, <1>7, <1>10
    <2>2. w[s].pc \in Active
      BY <1>3, <2>1 DEF During
    <2>3. Beat(s) \in Beats
      BY <2>2, Works DEF Busy
    <2> QED  BY <1>1, <1>4, <1>8, <2>1, <2>3 DEF ContInv
  <1> QED  BY <1>8, <1>9, <1>10 DEF ContInv

LEMMA ContStep ==
    ASSUME Inv, PlaceInv, SoloInv, ContInv, [Next]_vars
    PROVE  ContInv'
  <1>0. Inv' /\ user.n \in Nat /\ \A r \in RunIds : w[r].fp \in Nat
    BY StepInv, ContTyped
  <1>1. ASSUME NEW r \in RunIds, Effect(r), Alone(r)
        PROVE  ContInv'
    <2>1. /\ mix' = mix /\ user' = user /\ Beat(r) \in Beats
          /\ \A s \in RunIds : Beat(s)' = Beat(s) /\ (s # r => w'[s] = w[s])
          /\ \A g : Kind(g)' = Kind(g)
      BY <1>1 DEF Alone, Beat, Kind
    <2>2. CASE Claims(r) \/ Reports(r) \/ (Begins(r) /\ Kind(Beat(r)) \in {"terminal", "continue"})
      BY <1>1, <2>2, ContClaims, ContReports, ContBegins
    <2>3. CASE ~(Claims(r) \/ Reports(r) \/ (Begins(r) /\ Kind(Beat(r)) \in {"terminal", "continue"}))
      <3>1. hist'.cont = hist.cont
        BY <1>1, <2>3, HistEffects
      <3>2. ASSUME NEW h \in Beats
            PROVE  row'[h].fp = row[h].fp
        <4>1. CASE h # Beat(r)
          BY <1>1, <4>1, OwnRow
        <4>2. CASE h = Beat(r)
          <5>1. row \in [Beats -> Rows] /\ row[h] \in Rows /\ Woken(r) \in BOOLEAN
            BY ContTyped DEF Inv, TypeOK
          <5>2. CASE Arms(r)
            <6>1. row'[h] = ArmedRow(row[h], r)
              BY <4>2, <5>1, <5>2 DEF Arms, Writes
            <6> QED  BY <1>0, <5>1, <6>1, WorkerRows DEF Alike
          <5>3. CASE Finishes(r)
            <6>1. row'[h] = FinishedTriggerRow(row[h], Woken(r))
              BY <4>2, <5>1, <5>3 DEF Finishes, Writes
            <6> QED  BY <1>0, <5>1, <6>1, WorkerRows DEF Alike
          <5>4. CASE Records(r)
            <6>1. PICK left \in ReceiptsLeft(r) :
                    row'[h] = RecordedRow(row[h], Kind(h), mix.strict, Result(r, left[1], left[2]))
              BY <4>2, <5>1, <5>4 DEF Records, Writes
            <6> QED  BY <5>1, <6>1, RecordRows
          <5>5. CASE ~Arms(r) /\ ~Finishes(r) /\ ~Records(r)
            BY <1>1, <2>3, <5>5 DEF Effect, Submits, GoesToArm, GoesToRead, GoesToStart, GoesToEnd,
                 GoesToRecord, Inspects, Changes, Begins, Takes, Looks, Marks, Still
          <5> QED  BY <5>2, <5>3, <5>4, <5>5
        <4> QED  BY <4>1, <4>2
      <3>3. ASSUME NEW s \in RunIds, Before(s)'
            PROVE  \/ Before(s) /\ w'[s].fp = w[s].fp /\ Beat(s)' = Beat(s)
                   \/ w'[s].fp \in {0, user.n} /\ user'.n = user.n
        <4>1. CASE s # r
          BY <2>1, <3>3, <4>1 DEF Before
        <4>2. CASE s = r
          <5>1. Changes(r) \/ Inspects(r)
            BY <1>1, <2>3, <3>3, <4>2 DEF Before, Effect, Submits, GoesToArm, GoesToRead, GoesToStart,
                 GoesToEnd, GoesToRecord, Arms, Begins, Finishes, Takes, Looks, Marks, Records
          <5> QED  BY <2>1, <4>2, <5>1 DEF Changes, Inspects, Carries, Before
        <4> QED  BY <4>1, <4>2
      <3>4. ASSUME NEW s \in RunIds, During(s)'
            PROVE  During(s) /\ w'[s].fp = w[s].fp /\ Beat(s)' = Beat(s)
        <4>1. CASE s # r
          BY <2>1, <3>4, <4>1 DEF During
        <4>2. CASE s = r
          <5>1. Kind(Beat(r)) \in {"terminal", "continue"}
            BY <2>1, <3>4, <4>2 DEF During
          <5>2. GoesToStart(r) \/ GoesToEnd(r)
            BY <1>1, <2>1, <2>3, <3>4, <4>2, <5>1 DEF PlaceInv, Placed, During, Effect, Submits, GoesToArm,
                 GoesToRead, GoesToRecord, Inspects, Changes, Arms, Begins, Finishes, Takes, Looks, Marks, Records
          <5> QED  BY <2>1, <4>2, <5>1, <5>2 DEF GoesToStart, GoesToEnd, Carries, During
        <4> QED  BY <4>1, <4>2
      <3>5. user'.n >= user.n
        BY <1>0, <2>1
      <3> QED  BY <1>0, <2>1, <3>1, <3>2, <3>3, <3>4, <3>5, ContKept
    <2> QED  BY <2>2, <2>3
  <1>2. ASSUME Outside
        PROVE  ContInv'
    <2>1. mix' = mix /\ hist'.cont = hist.cont /\ \A s \in RunIds : Others(s)
      BY <1>2, OtherEffects, HistOutside
    <2>2. user'.n >= user.n
      <3>1. user'.n \in {user.n, user.n + 1}
        BY <1>2, TurnKept
      <3> QED  BY <1>0, <3>1
    <2>3. \A h \in Beats : row'[h].fp = row[h].fp
      BY <1>2, OutsideAlike DEF Alike
    <2>4. ASSUME NEW s \in RunIds, Before(s)' \/ During(s)'
          PROVE  w'[s] = w[s] /\ Beat(s)' = Beat(s)
      BY <2>1, <2>4 DEF Others, Fresh, Before, During, Beat
    <2>5. \A s \in RunIds : (Before(s)' => Before(s)) /\ (During(s)' => During(s))
      BY <2>1, <2>4 DEF Before, During, Kind
    <2> QED  BY <1>0, <2>1, <2>2, <2>3, <2>4, <2>5, ContKept
  <1> QED  BY <1>1, <1>2, StepKinds

-----------------------------------------------------------------------------
(* One process: the run of a handoff in flight is open, with its worker at *)
(* it or dead; what a recovery has read is still so; and a row that awaits *)
(* its delivery names a run of its own whose turn is on record.            *)

Handling == {"read", "start", "note", "wait", "settle", "dead"}

OpenRun(h) == /\ Kind(h) = "quota" /\ ~run[row[h].triggerRun].done
              /\ w[row[h].triggerRun].pc \in Handling

Held(x) == /\ x.beat \in Beats /\ x.run \in RunIds
           /\ run[x.run].beat = x.beat /\ ~run[x.run].done /\ run[x.run].turn = x.turn
           /\ hist.raced \/ row[x.beat].triggerRun = x.run

OnRecord(h) == Names(row[h], h, run) /\ run[row[h].triggerRun].turn

PendInv ==
    /\ \A h \in Beats : row[h].trigger = "handoff_inflight" => OpenRun(h)
    /\ \A x \in proc["service"].rec : Held(x)
    /\ hist.raced \/ \A h \in Beats : row[h].trigger = "handoff_pending_delivery" => OnRecord(h)

\* A worker closes its own run only
LEMMA ClosesOwn ==
    ASSUME Inv, NEW r \in RunIds, Effect(r), Alone(r), NEW s \in RunIds,
           s # r \/ w[r].pc \notin {"record", "refused"}
    PROVE  run'[s].done = run[s].done
  <1>1. CASE w[r].pc \notin {"record", "refused"}
    BY <1>1 DEF Alone
  <1>2. CASE w[r].pc \in {"record", "refused"}
    <2>1. Records(r)
      BY <1>2 DEF Effect, Submits, GoesToArm, GoesToRead, GoesToStart, GoesToEnd, GoesToRecord,
           Inspects, Changes, Arms, Claims, Begins, Finishes, Reports, Takes, Looks, Marks, Records
    <2> QED  BY <1>2, <2>1 DEF Records, Inv, TypeOK
  <1> QED  BY <1>1, <1>2

LEMMA PendWorker ==
    ASSUME Inv, PlaceInv, SoloInv, PendInv, NEW r \in RunIds, Effect(r), Alone(r)
    PROVE  PendInv'
  <1>0. /\ w[r].pc \in Busy /\ "dead" \notin Busy /\ mix' = mix /\ proc'["service"].rec = {}
        /\ ~run[r].done /\ \A h \in Beats : row[h] \in Rows
        /\ Woken(r) \in BOOLEAN /\ row \in [Beats -> Rows]
    BY ReadKept DEF Alone, SoloInv, Busy, Active, Waiting, Inv, TypeOK, Woken
  <1>1. ASSUME NEW h \in Beats, row'[h].trigger = "handoff_inflight"
        PROVE  OpenRun(h)'
    <2>1. CASE Arms(r) /\ h = Beat(r)
      <3>1. row'[h].triggerRun = r /\ w'[r].pc = "read"
        <4>1. row'[h] = ArmedRow(row[h], r)
          BY <1>0, <2>1 DEF Arms, Writes
        <4> QED  BY <1>0, <2>1, <4>1, HandoffTyped DEF Arms
      <3>2. Kind(h) = "quota" /\ ~run'[r].done
        BY <1>0, <2>1 DEF Arms, PlaceInv, Placed, Alone
      <3> QED  BY <1>0, <3>1, <3>2 DEF OpenRun, Handling, Kind
    <2>2. CASE Finishes(r) /\ h = Beat(r)
      <3>1. row'[h] = FinishedTriggerRow(row[h], Woken(r))
        BY <1>0, <2>2 DEF Finishes, Writes
      <3> QED  BY <1>0, <1>1, <3>1, HandoffTyped
    <2>3. CASE ~(h = Beat(r) /\ (Arms(r) \/ Finishes(r)))
      <3> DEFINE t == row[h].triggerRun
      <3>1. row[h].trigger = "handoff_inflight" /\ row'[h].triggerRun = t
        BY <1>1, <2>3, WorkerTrigger DEF SameTrigger
      <3>2. t \in RunIds /\ run[t].beat = h /\ OpenRun(h)
        BY <3>1 DEF Inv, HandoffInv, Names, Open, PendInv
      <3>3. CASE t # r
        <4>1. run'[t].done = run[t].done /\ w'[t] = w[t]
          BY <3>2, <3>3, ClosesOwn DEF Alone
        <4> QED  BY <1>0, <3>1, <3>2, <4>1 DEF OpenRun, Kind
      <3>4. CASE t = r
        <4>1. /\ h = Beat(r) /\ Kind(Beat(r)) = "quota" /\ MayFinishTrigger(row[Beat(r)], r)
              /\ w[r].pc \in Handling \ {"dead"}
          BY <1>0, <3>1, <3>2, <3>4 DEF OpenRun, Beat, MayFinishTrigger
        <4>2. w'[r].pc \in Handling
          BY <2>3, <4>1 DEF Handling, Effect, Submits, GoesToArm, GoesToRead, GoesToStart, GoesToEnd, GoesToRecord,
               Inspects, Changes, Arms, Claims, Begins, Reports, Takes, Looks, Marks, Records
        <4>3. run'[r].done = run[r].done
          BY <4>1, ClosesOwn DEF Handling
        <4> QED  BY <1>0, <3>1, <3>4, <4>1, <4>2, <4>3 DEF OpenRun, Kind
      <3> QED  BY <3>3, <3>4
    <2> QED  BY <2>1, <2>2, <2>3
  <1>2. ASSUME NEW h \in Beats, row'[h].trigger = "handoff_pending_delivery", ~hist'.raced
        PROVE  OnRecord(h)'
    <2>1. ~hist.raced
      BY <1>2, HistEffects
    <2>2. CASE Finishes(r) /\ h = Beat(r)
      <3>1. row'[h] = FinishedTriggerRow(row[h], Woken(r)) /\ row[h].triggerRun = r
        BY <1>0, <2>2 DEF Finishes, Writes, MayFinishTrigger
      <3>2. Woken(r) /\ row'[h].triggerRun = r
        BY <1>0, <1>2, <3>1, HandoffTyped
      <3>3. run[r].turn
        BY <2>2, <3>2, Works DEF Finishes, AtTurn, Woken
      <3> QED  BY <2>2, <3>2, <3>3 DEF OnRecord, Names, Alone, Beat
    <2>3. CASE ~(Finishes(r) /\ h = Beat(r))
      <3>1. SameTrigger(row[h], row'[h])
        BY <1>2, <2>3, WorkerTrigger
      <3>2. OnRecord(h)
        BY <1>2, <2>1, <3>1 DEF PendInv, SameTrigger
      <3> QED  BY <3>1, <3>2 DEF OnRecord, Names, Alone, SameTrigger
    <2> QED  BY <2>2, <2>3
  <1> QED  BY <1>0, <1>1, <1>2 DEF PendInv

LEMMA PendOutside ==
    ASSUME Inv, SoloInv, PendInv, Outside
    PROVE  PendInv'
  <1>0. /\ mix' = mix /\ \A h \in Beats : row[h] \in Rows
        /\ hist.raced => hist'.raced
        /\ \A p \in Procs : proc[p].pc = "recover" => p = "service"
        /\ "service" \in Procs
    BY OtherEffects, HistOutside, ReadKept DEF Inv, TypeOK, Procs
  \* An update over what a recovery has read is a race
  <1>1. ASSUME NEW h \in Beats, Commanded(h), cmd.want \in {"update", "reactivate"}, ~hist'.raced
        PROVE  ~Inflight(h)
    BY <1>1, RacedNot DEF Raced
  <1>2. ASSUME NEW h \in Beats, row'[h].trigger = "handoff_inflight"
        PROVE  OpenRun(h)'
    <2> DEFINE t == row[h].triggerRun
    <2>1. \A b \in BOOLEAN : row'[h] # RecoveredRow(row[h], b)
      BY <1>0, <1>2, RecoveredTyped
    <2>2. row[h].trigger = "handoff_inflight" /\ row'[h].triggerRun = t
      BY <1>2, <2>1, OutsideTrigger
    <2>3. t \in RunIds /\ run[t].beat = h /\ OpenRun(h)
      BY <2>2 DEF Inv, HandoffInv, Names, Open, PendInv
    <2>4. ~\E p \in Procs : RecoverWrite(p) /\ \E x \in proc[p].rec : x.run = t
      <3> SUFFICES ASSUME NEW p \in Procs, RecoverWrite(p), NEW x \in proc[p].rec, x.run = t
                   PROVE  FALSE
        OBVIOUS
      <3>1. p = "service"
        BY <1>0 DEF RecoverWrite
      <3>2. x.beat = h
        BY <2>3, <3>1 DEF PendInv, Held
      <3> DEFINE flag == \E y \in proc[p].rec : y.beat = h /\ y.turn
      <3>3. row'[h] = RecoveredRow(row[h], flag) /\ flag \in BOOLEAN
        BY <3>2, RecoveryEffects
      <3> QED  BY <2>1, <3>3
    <2>5. run'[t].done = run[t].done /\ (w'[t] = w[t] \/ w'[t].pc = "dead")
      BY <2>3, <2>4, RunsOutside
    <2> QED  BY <1>0, <2>2, <2>3, <2>5 DEF OpenRun, Handling, Kind
  <1>3. ASSUME NEW x \in proc'["service"].rec
        PROVE  Held(x)'
    <2>1. CASE RecoverRead("service")
      <3>1. PICK h \in Beats : /\ NeedsRecovery(row[h])
                               /\ x = [beat |-> h, run |-> row[h].triggerRun,
                                       turn |-> run[row[h].triggerRun].turn]
        BY <1>0, <1>3, <2>1, ProcEffects
      <3>2. Names(row[h], h, run) /\ OpenRun(h)
        BY <3>1 DEF NeedsRecovery, Inv, HandoffInv, Open, PendInv
      <3>3. row' = row /\ run' = run
        BY <2>1 DEF RecoverRead
      <3> QED  BY <3>1, <3>2, <3>3 DEF Held, Names, OpenRun
    <2>2. CASE x \in proc["service"].rec /\ \A p \in Procs : ~RecoverWrite(p)
      <3>1. Held(x)
        BY <2>2 DEF PendInv
      <3>2. /\ run'[x.run].beat = x.beat /\ run'[x.run].turn = x.turn /\ ~run'[x.run].done
        BY <2>2, <3>1, RunsOutside DEF Held
      <3>3. ASSUME ~hist'.raced
            PROVE  row'[x.beat].triggerRun = x.run
        <4>1. Inflight(x.beat)
          BY <3>1 DEF Held, Inflight
        <4>2. row'[x.beat].triggerRun = row[x.beat].triggerRun
          BY <1>1, <2>2, <3>1, <3>3, <4>1, OutsideTrigger DEF Held, Recovered
        <4> QED  BY <1>0, <3>1, <3>3, <4>2 DEF Held
      <3> QED  BY <3>1, <3>2, <3>3 DEF Held
    <2> QED  BY <2>1, <2>2, ReadKept
  <1>4. ASSUME NEW h \in Beats, row'[h].trigger = "handoff_pending_delivery", ~hist'.raced
        PROVE  OnRecord(h)'
    <2>1. CASE Recovered(h)
      <3>1. PICK p \in Procs : RecoverWrite(p) /\ \E x \in proc[p].rec : x.beat = h
        BY <2>1 DEF Recovered
      <3>2. p = "service"
        BY <1>0, <3>1 DEF RecoverWrite
      <3> DEFINE flag == \E x \in proc[p].rec : x.beat = h /\ x.turn
      <3>3. row'[h] = RecoveredRow(row[h], flag) /\ flag \in BOOLEAN
        BY <3>1, RecoveryEffects
      <3>4. flag /\ row'[h].triggerRun = row[h].triggerRun
        <4> HIDE DEF flag
        <4> QED  BY <1>0, <1>4, <3>3, RecoveredTyped
      <3>5. PICK x \in proc["service"].rec : x.beat = h /\ x.turn
        BY <3>2, <3>4
      <3>6. Held(x) /\ row[h].triggerRun = x.run
        BY <1>0, <1>4, <3>5 DEF PendInv, Held
      <3>7. run'[x.run].beat = h /\ run'[x.run].turn
        BY <3>1, <3>5, <3>6, RecoveryEffects DEF Held
      <3> QED  BY <3>4, <3>6, <3>7 DEF OnRecord, Names, Held
    <2>2. CASE ~Recovered(h)
      <3>1. row[h].trigger = "handoff_pending_delivery" /\ row'[h].triggerRun = row[h].triggerRun
        BY <1>4, <2>2, OutsideTrigger
      <3>2. OnRecord(h)
        BY <1>0, <1>4, <3>1 DEF PendInv
      <3> QED  BY <3>1, <3>2, RunsOutside DEF OnRecord, Names
    <2> QED  BY <2>1, <2>2
  <1> QED  BY <1>2, <1>3, <1>4 DEF PendInv

-----------------------------------------------------------------------------
(* What one process keeps in every behaviour.                              *)

OneProcess == mix.others # {} \/ (SoloInv /\ ThreadInv /\ TrigInv /\ ContInv /\ PendInv)

LEMMA OneProcessInit ==
    ASSUME Init
    PROVE  OneProcess
  <1>1. /\ \A r \in RunIds : w[r].pc = "free" /\ turn[r] = "none"
        /\ hist.handed = {} /\ hist.cont = {} /\ \A p \in Procs : proc[p] = NoProc
    BY DEF Init, NoWork
  <1>2. SoloInv
    BY <1>1, IdleTyped DEF SoloInv, Busy, Active, Waiting, Procs
  <1>3. ThreadInv /\ TrigInv
    BY <1>1, IdleTyped DEF ThreadInv, TrigInv, Procs
  <1>4. ContInv
    BY <1>1 DEF ContInv, Before, During
  <1>5. PendInv
    <2>1. ASSUME NEW h \in Beats
          PROVE  row[h].trigger \notin {"handoff_inflight", "handoff_pending_delivery"}
      <3>1. NewRow(Kind(h)).trigger \in {"not_applicable", "monitoring"} /\ NewRow(Kind(h)) \in Rows
        BY NewRowTyped
      <3>2. [NewRow(Kind(h)) EXCEPT !.status = "CANCELLED"].trigger = NewRow(Kind(h)).trigger
        BY <3>1, Zenon DEF Rows
      <3> QED  BY <2>1, <3>1, <3>2 DEF Init
    <2> QED  BY <1>1, <2>1, IdleTyped DEF PendInv, Procs
  <1> QED  BY <1>2, <1>3, <1>4, <1>5 DEF OneProcess

LEMMA OneProcessStep ==
    ASSUME Inv, PlaceInv, OneProcess, [Next]_vars
    PROVE  OneProcess'
  <1>1. mix' = mix
    BY StepKinds, OtherEffects DEF Alone
  <1>2. ASSUME Inv, PlaceInv, SoloInv, PendInv, [Next]_vars
        PROVE  PendInv'
    BY <1>2, StepKinds, PendWorker, PendOutside
  <1> QED  BY <1>1, <1>2, SoloStep, ThreadStep, TrigStep, ContStep DEF OneProcess

\* With one scheduler process: its workers, the threads they wake, the
\* handoffs that were completed and the states that were reported.
THEOREM OneProcessInvariant == Spec => []OneProcess
  <1>1. Init => OneProcess
    BY OneProcessInit
  <1>2. (Inv /\ PlaceInv /\ ItemInv) /\ OneProcess /\ [Next]_vars => OneProcess'
    BY OneProcessStep
  <1> QED  BY <1>1, <1>2, PlacesAndItems, PTL DEF Spec

\* One process never starts a turn in a thread where the turn of another
\* heartbeat runs, also after a crash left that turn running.
THEOREM OneTurn == Spec => []OneTurnPerTarget
  <1>1. OneProcess => OneTurnPerTarget
    <2>1. ASSUME OneProcess, mix.others = {}, NEW h \in Beats
          PROVE  Cardinality(Running(<<"target", Target(h)>>)) <= 1
      <3>1. \A r, s \in Running(<<"target", Target(h)>>) : r = s
        BY <2>1 DEF OneProcess, ThreadInv, Running, Shares
      <3> QED  BY <3>1, AtMostOne
    <2> QED  BY <2>1 DEF OneTurnPerTarget
  <1> QED  BY <1>1, OneProcessInvariant, PTL

\* A state of the observed thread wakes the parent, or continues the thread,
\* at most once, over crashes, whatever the monitor sees change.
THEOREM ReceiptsOnce == Spec => []ReceiptOnce
  <1>1. OneProcess => ReceiptOnce
    BY DEF OneProcess, ContInv, ReceiptOnce
  <1> QED  BY <1>1, OneProcessInvariant, PTL

\* After a completed handoff no further trigger turn is started, whatever
\* crashes or races, until the heartbeat is updated.
THEOREM TriggeredOnce == Spec => TriggerOnce
  <1> DEFINE A == \A r \in RunIds : (/\ turn[r] # "running" /\ turn'[r] = "running"
                                     /\ Kind(Beat(r)) = "quota" /\ mix.others = {})
                    => Beat(r) \notin hist.handed
  <1>1. Inv /\ OneProcess /\ [Next]_vars => A
    <2> SUFFICES ASSUME Inv, OneProcess, [Next]_vars, NEW r \in RunIds, turn[r] # "running",
                        turn'[r] = "running", mix.others = {}
                 PROVE  Beat(r) \notin hist.handed
      OBVIOUS
    <2>1. ~Outside
      BY TurnKept
    <2>2. PICK s \in RunIds : Effect(s) /\ Alone(s)
      BY <2>1, StepKinds
    <2>3. Begins(s) /\ s = r
      BY <2>2 DEF Effect, Submits, GoesToArm, GoesToRead, GoesToStart, GoesToEnd, GoesToRecord, Inspects,
           Changes, Arms, Claims, Begins, Finishes, Reports, Takes, Looks, Marks, Records, Still, Inv, TypeOK
    <2> QED  BY <2>3 DEF Begins, OneProcess, TrigInv
  <1>2. Inv /\ OneProcess /\ [Next]_vars => [A]_vars
    BY <1>1
  <1>3. TriggerOnce <=> [][A]_vars
    BY DEF TriggerOnce
  <1> HIDE DEF A
  <1> QED  BY <1>2, <1>3, HandoffInvariant, OneProcessInvariant, PTL DEF Spec

\* One process, no raced command: a row that awaits the delivery of its
\* notification names a run of its own whose turn is on record, over every
\* crash and recovery.
THEOREM PendingDelivery == Spec => []PendingDeliveryHasTurn
  <1>1. MaxClaims \in Nat
    BY HeartbeatConstants
  <1>2. OneProcess => PendingDeliveryHasTurn
    BY <1>1 DEF OneProcess, PendInv, OnRecord, Names, RunIds, PendingDeliveryHasTurn
  <1> QED  BY <1>2, OneProcessInvariant, PTL

-----------------------------------------------------------------------------
(* Runs are counted up to max_runs, unless a command raced: an ACTIVE      *)
(* heartbeat that has a run at work, or is about to get one, has a run     *)
(* left.                                                                   *)

AtWork(h) == \/ \E r \in RunIds : Beat(r) = h /\ w[r].pc \in Busy
             \/ \E p \in Procs : h \in proc[p].sel

RunsLeft(h) == /\ row[h].runs <= MaxRuns
               /\ (row[h].status = "ACTIVE" /\ AtWork(h)) => row[h].runs < MaxRuns

RunsInv == hist.raced \/ \A h \in Beats : RunsLeft(h)

\* record_run counts one run, and completes the heartbeat with its last
LEMMA CountsOne ==
    ASSUME NEW x \in Rows, NEW kind, NEW strict, NEW res, x.status = "ACTIVE", x.runs < MaxRuns
    PROVE  LET y == RecordedRow(x, kind, strict, res) IN
           y.runs <= MaxRuns /\ (y.status = "ACTIVE" => y.runs < MaxRuns)
  <1> DEFINE n == NextRuns(x, kind, strict, res)
             s == NextStatus(x, kind, strict, res)
  <1>1. x.runs \in Nat /\ MaxRuns \in Nat
    <2>1. x.runs \in Nat
      BY Zenon DEF Rows
    <2> QED  BY <2>1, StoreConstants
  <1>2. n \in Nat /\ n <= MaxRuns
    BY <1>1 DEF NextRuns
  <1>3. s = "ACTIVE" => ~(n >= MaxRuns)
    BY DEF NextStatus
  <1>4. RecordedRow(x, kind, strict, res).runs = n /\ RecordedRow(x, kind, strict, res).status = s
    BY RecordRows
  <1> HIDE DEF n, s
  <1> QED  BY <1>1, <1>2, <1>3, <1>4

LEMMA RunsStep ==
    ASSUME Inv, PlaceInv, RunsInv, [Next]_vars
    PROVE  RunsInv'
  <1>0. /\ row \in [Beats -> Rows] /\ MaxRuns \in Nat /\ "done" \notin Busy /\ "dead" \notin Busy
        /\ \A x \in Rows : x.runs \in Nat
    <2>1. \A x \in Rows : x.runs \in Nat
      BY Zenon DEF Rows
    <2> QED  BY <2>1, StoreConstants DEF Inv, TypeOK, Busy, Active, Waiting
  <1>1. ASSUME NEW r \in RunIds, Effect(r), Alone(r), ~hist.raced, NEW h \in Beats
        PROVE  RunsLeft(h)' /\ hist'.raced = hist.raced
    <2>1. RunsLeft(h) /\ hist'.raced = hist.raced /\ row[h] \in Rows
      BY <1>0, <1>1, HistEffects DEF RunsInv
    <2>2. AtWork(h)' => AtWork(h)
      BY <1>1 DEF AtWork, Alone, Beat
    <2>3. CASE h # Beat(r)
      <3>1. row'[h] = row[h]
        BY <1>1, <2>3, OwnRow
      <3> QED  BY <2>1, <2>2, <3>1 DEF RunsLeft
    <2>4. CASE h = Beat(r)
      <3>1. AtWork(h)
        BY <1>1, <2>4 DEF AtWork, Alone
      <3>2. CASE Records(r)
        <4>1. PICK left \in ReceiptsLeft(r) :
                 row'[h] = RecordedRow(row[h], Kind(h), mix.strict, Result(r, left[1], left[2]))
          BY <1>0, <2>4, <3>2 DEF Records, Writes
        <4>2. CASE row[h].status = "ACTIVE"
          BY <2>1, <3>1, <4>1, <4>2, CountsOne DEF RunsLeft
        <4>3. CASE row[h].status # "ACTIVE"
          <5>1. row'[h] = row[h]
            BY <4>1, <4>3 DEF RecordedRow
          <5> QED  BY <2>1, <4>3, <5>1 DEF RunsLeft
        <4> QED  BY <2>1, <4>2, <4>3
      <3>3. CASE ~Records(r)
        <4>1. row'[h].runs = row[h].runs /\ row'[h].status = row[h].status
          <5>1. Woken(r) \in BOOLEAN /\ w[r].fp \in Nat
            BY ContTyped
          <5>2. \/ row'[h] = row[h] \/ row'[h] = ArmedRow(row[h], r)
                \/ row'[h] = ClaimedReceiptRow(row[h], w[r].fp)
                \/ row'[h] = FinishedTriggerRow(row[h], Woken(r))
                \/ row'[h] = FinishedReceiptRow(row[h], Woken(r))
            BY <1>0, <1>1, <2>4, <3>3 DEF Effect, Submits, GoesToArm, GoesToRead, GoesToStart, GoesToEnd,
                 GoesToRecord, Inspects, Changes, Arms, Claims, Begins, Finishes, Reports, Takes, Looks,
                 Marks, Still, Writes
          <5> QED  BY <2>1, <5>1, <5>2, WorkerRows DEF Alike
        <4> QED  BY <2>1, <2>2, <4>1 DEF RunsLeft
      <3> QED  BY <3>2, <3>3
    <2> QED  BY <2>1, <2>3, <2>4
  <1>2. ASSUME Outside, ~hist'.raced, NEW h \in Beats
        PROVE  RunsLeft(h)'
    <2>0. ~hist.raced /\ RunsLeft(h) /\ row[h] \in Rows
      BY <1>0, <1>2, HistOutside DEF RunsInv
    <2>1. row'[h].runs = row[h].runs
      BY <1>2, OutsideAlike DEF Alike
    <2>2. ASSUME row'[h].status = "ACTIVE", AtWork(h)', row[h].status = "ACTIVE"
          PROVE  row[h].runs < MaxRuns
      <3>1. ASSUME NEW r \in RunIds, Beat(r)' = h, w'[r].pc \in Busy
            PROVE  AtWork(h)
        BY <1>0, <1>2, <3>1, OtherEffects DEF Others, Fresh, AtWork, Beat
      <3>2. ASSUME NEW p \in Procs, h \in proc'[p].sel
            PROVE  AtWork(h) \/ row[h].runs < MaxRuns
        <4>1. CASE proc'[p] = proc[p]
          BY <3>2, <4>1 DEF AtWork
        <4>2. CASE proc'[p] # proc[p]
          <5>1. CASE \E q \in Procs : Select(q)
            <6>1. h \in Due
              BY <3>2, <4>2, <5>1, ProcEffects
            <6> QED  BY <6>1 DEF Due, IsDue
          <5>2. CASE \E q \in Procs : Write(q) \/ Crash(q)
            BY <3>2, <4>2, <5>2, WriteEffects, CrashEffects, IdleTyped
          <5>3. CASE \E q \in Procs : RecoverRead(q) \/ RecoverWrite(q) \/ Begin(q)
            BY <3>2, <4>2, <5>3, ProcEffects
          <5>4. CASE ~\E q \in Procs : \/ RecoverRead(q) \/ RecoverWrite(q) \/ Begin(q)
                                     \/ Select(q) \/ Write(q) \/ Crash(q)
            BY <1>2, <4>2, <5>4 DEF Outside, CommandWrite, UserTurn, Tick, CompleteDelivery,
                 CommandRead, WorkerEnds, TurnEnds, vars
          <5> QED  BY <5>1, <5>2, <5>3, <5>4
        <4> QED  BY <4>1, <4>2
      <3> QED  BY <2>0, <2>2, <3>1, <3>2 DEF AtWork, RunsLeft
    <2>3. ASSUME row'[h].status = "ACTIVE", AtWork(h)', row[h].status # "ACTIVE"
          PROVE  row[h].runs < MaxRuns
      <3>1. CommandWrite /\ cmd.beat = h /\ cmd.want \in {"ACTIVE", "reactivate", "update"}
            /\ (cmd.want = "update" => cmd.seen.status = "ACTIVE")
        <4>1. OutsideRow(h)
          BY <1>2, OutsideRows
        <4>2. /\ ExpiredRow(row[h]).status = "COMPLETED" /\ AdvancedRow(row[h]).status = row[h].status
              /\ DueRow(row[h]).status = row[h].status /\ PastRow(row[h]).status = row[h].status
              /\ DeliveredRow(row[h]).status = "CANCELLED"
          BY <2>0, ServiceRows
        <4>3. \A b \in BOOLEAN : RecoveredRow(row[h], b).status = row[h].status
          BY <2>0, ServiceRows
        <4>4. Commanded(h) /\ cmd.seen \in Rows /\ cmd.want \in Wants
          BY <2>3, <4>1, <4>2, <4>3 DEF OutsideRow, Wants
        <4>5. cmd.want \in {"PAUSED", "CANCELLED"} => SetRow(row[h], cmd.seen, cmd.want).status = cmd.want
          BY <2>0, <4>4, SetRows
        <4>6. \/ cmd.want \in {"PAUSED", "ACTIVE", "CANCELLED"} /\ row'[h] = SetRow(row[h], cmd.seen, cmd.want)
              \/ /\ cmd.want \in {"update", "reactivate"}
                 /\ \E b \in BOOLEAN : /\ b <=> cmd.want = "reactivate"
                                       /\ row'[h] = UpdatedRow(row[h], cmd.seen, Kind(h), b)
          BY <2>3, <4>1, <4>2, <4>3 DEF OutsideRow
        <4>7. CASE cmd.want \in {"PAUSED", "ACTIVE", "CANCELLED"}
          BY <2>3, <4>4, <4>5, <4>6, <4>7 DEF Commanded
        <4>8. ASSUME NEW b \in BOOLEAN, b <=> cmd.want = "reactivate", cmd.want \in {"update", "reactivate"},
                     row'[h] = UpdatedRow(row[h], cmd.seen, Kind(h), b)
              PROVE  cmd.want = "update" => cmd.seen.status = "ACTIVE"
          <5>1. UpdatedRow(row[h], cmd.seen, Kind(h), b).status = IF b THEN "ACTIVE" ELSE cmd.seen.status
            BY <2>0, <4>4, UpdateRows
          <5> QED  BY <2>3, <4>8, <5>1
        <4> QED  BY <4>4, <4>6, <4>7, <4>8 DEF Commanded
      <3>2. ~Raced(h)
        BY <1>2, <3>1, RacedNot DEF Commanded
      <3>3. cmd.want \in {"ACTIVE", "reactivate"} /\ w' = w /\ run' = run /\ proc' = proc
        BY <2>3, <3>1, <3>2 DEF CommandWrite, Raced
      <3>4. \E r \in RunIds : Beat(r) = h /\ w[r].pc \in Busy
        BY <2>3, <3>2, <3>3 DEF AtWork, Beat, Raced
      <3>5. ~(row[h].runs >= MaxRuns)
        BY <3>2, <3>3, <3>4 DEF Raced, Busy
      <3> QED  BY <1>0, <2>0, <3>5
    <2> QED  BY <2>0, <2>1, <2>2, <2>3 DEF RunsLeft
  <1>3. ASSUME hist.raced
        PROVE  hist'.raced
    BY <1>3, StepKinds, HistEffects, HistOutside
  <1> QED  BY <1>1, <1>2, <1>3, StepKinds DEF RunsInv

\* run_count never passes max_runs, although the runs of a heartbeat overlap,
\* are deferred, die and are recorded late, unless a command raced.
THEOREM RunsBounded == Spec => []WithinMaxRuns
  <1>1. Init => RunsInv
    <2> SUFFICES ASSUME Init
                 PROVE  RunsInv
      OBVIOUS
    <2>1. ASSUME NEW h \in Beats
          PROVE  row[h].runs = 0
      <3>1. NewRow(Kind(h)).runs = 0 /\ [NewRow(Kind(h)) EXCEPT !.status = "CANCELLED"].runs = 0
        BY DEF NewRow
      <3> QED  BY <2>1, <3>1 DEF Init
    <2> QED  BY <2>1, StoreConstants DEF RunsInv, RunsLeft
  <1>2. (Inv /\ PlaceInv /\ ItemInv) /\ RunsInv /\ [Next]_vars => RunsInv'
    BY RunsStep
  <1>3. RunsInv => WithinMaxRuns
    BY DEF RunsInv, RunsLeft, WithinMaxRuns
  <1> QED  BY <1>1, <1>2, <1>3, PlacesAndItems, PTL DEF Spec

-----------------------------------------------------------------------------
(* One process, no raced command: an ACTIVE heartbeat without a next run   *)
(* has a reason on record, and a worker that reports one has put it there. *)

Handing == {"handoff_inflight", "handoff_pending_delivery"}

Excused(h) == (row[h].status = "ACTIVE" /\ row[h].next = "none") =>
                \/ row[h].trigger \in Handing \/ row[h].receipt = "delivered"
                \/ row[h].alert \/ Inflight(h)

Reported(r) ==
    /\ w[r].pc = "refused" => w[r].out = "deferred_busy"
    /\ w[r].pc = "record" =>
         /\ w[r].out = "probe_trigger_handoff" =>
              \/ row[Beat(r)].trigger = "handoff_pending_delivery"
              \/ row[Beat(r)].trigger = "delivered_cancelled" /\ row[Beat(r)].status \in Terminal
         /\ w[r].out = "parent_terminal_receipt_delivered" => row[Beat(r)].receipt = "delivered"
         /\ w[r].out = "queue_no_change_silent" => w[r].snap # NoQueue

ReceiptOut(r) == (During(r) /\ Kind(Beat(r)) = "terminal") => row[Beat(r)].receipt = "inflight"

Parked == /\ \A h \in Beats : Excused(h)
          /\ \A r \in RunIds : Reported(r) /\ ReceiptOut(r)

\* A command that sets a status has seen a row that may have it
Asked == (cmd.pc = "write" /\ cmd.want \in {"PAUSED", "ACTIVE", "CANCELLED"}) => MaySet(cmd.seen, cmd.want)

LEMMA AskedStep ==
    ASSUME Inv, Asked, [Next]_vars
    PROVE  Asked'
  <1>1. ASSUME NEW h \in Beats, NEW want \in Wants, CommandRead(h, want)
        PROVE  Asked'
    <2>1. cmd'.want = want /\ cmd'.seen = row[h]
      BY <1>1 DEF CommandRead
    <2>2. want \in {"PAUSED", "ACTIVE", "CANCELLED"} => MaySet(row[h], want)
      BY <1>1 DEF CommandRead
    <2> QED  BY <2>1, <2>2 DEF Asked
  <1>2. CASE CommandWrite
    BY <1>2 DEF CommandWrite, NoCommand, Asked
  <1>3. CASE cmd' = cmd
    BY <1>3 DEF Asked
  <1>4. ASSUME Outside
        PROVE  Asked'
    BY <1>1, <1>2, <1>3, <1>4 DEF Outside, RecoverRead, RecoverWrite, Begin, Select, Write, Crash, UserTurn, Tick,
         CompleteDelivery, WorkerEnds, TurnEnds, vars
  <1> QED  BY <1>3, <1>4, StepKinds DEF Alone

\* A run that is out stays out, or its heartbeat is recovered
LEMMA StillOut ==
    ASSUME Inv, SoloInv, PendInv, Outside, NEW h \in Beats, Inflight(h)
    PROVE  Inflight(h)' \/ Recovered(h)
  <1>1. PICK r \in RunIds : run[r].beat = h /\ ~run[r].done
    BY DEF Inflight
  <1>2. ASSUME NEW p \in Procs, RecoverWrite(p), NEW x \in proc[p].rec, x.run = r
        PROVE  Recovered(h)
    <2>1. p = "service"
      BY <1>2, ReadKept DEF RecoverWrite
    <2>2. x.beat = h
      BY <1>1, <1>2, <2>1 DEF PendInv, Held
    <2> QED  BY <1>2, <2>2 DEF Recovered
  <1> QED  BY <1>1, <1>2, RunsOutside DEF Inflight

LEMMA ParkedOutside ==
    ASSUME Inv, SoloInv, PendInv, Parked, Asked, Outside, ~hist'.raced
    PROVE  Parked'
  <1>0. row \in [Beats -> Rows] /\ mix' = mix /\ \A r \in RunIds : Others(r)
    BY OtherEffects DEF Inv, TypeOK
  <1>1. ASSUME NEW h \in Beats
        PROVE  Excused(h)'
    <2>1. Excused(h) /\ row[h] \in Rows /\ OutsideRow(h) /\ Alike(row[h], row'[h])
      BY <1>0, OutsideRows, OutsideAlike DEF Parked
    <2>2. CASE Recovered(h)
      <3>1. PICK b \in BOOLEAN : row'[h] = RecoveredRow(row[h], b)
        BY <2>2, RecoveryEffects DEF Recovered
      <3> QED  BY <2>1, <3>1, ServiceRows DEF Excused, Handing
    <2>3. CASE ~Recovered(h)
      <3>1. Inflight(h) => Inflight(h)'
        BY <2>3, StillOut
      <3>2. CASE row'[h].trigger = row[h].trigger /\ row'[h].next = row[h].next /\ row'[h].status = row[h].status
        BY <2>1, <3>1, <3>2 DEF Excused, Alike
      <3>3. CASE row'[h].status # "ACTIVE" \/ row'[h].next # "none"
        BY <3>3 DEF Excused
      <3>4. CASE \/ row'[h] = ExpiredRow(row[h]) \/ row'[h] = AdvancedRow(row[h]) \/ row'[h] = row[h]
                 \/ row'[h] = DeliveredRow(row[h]) \/ row'[h] = DueRow(row[h]) \/ row'[h] = PastRow(row[h])
        <4>1. /\ ExpiredRow(row[h]).status = "COMPLETED" /\ DeliveredRow(row[h]).status = "CANCELLED"
              /\ AdvancedRow(row[h]).status = row[h].status
              /\ row[h].status = "ACTIVE" => AdvancedRow(row[h]).next = "later"
              /\ DueRow(row[h]).next = "due" /\ PastRow(row[h]).status = row[h].status
              /\ PastRow(row[h]).trigger = row[h].trigger /\ PastRow(row[h]).next = row[h].next
          BY <2>1, ServiceRows
        <4> QED  BY <3>2, <3>3, <3>4, <4>1
      <3>5. ASSUME cmd.seen \in Rows, row'[h] = SetRow(row[h], cmd.seen, cmd.want)
            PROVE  Excused(h)'
        BY <2>1, <3>3, <3>5, SetRows
      <3>6. ASSUME cmd.seen \in Rows, NEW b \in BOOLEAN, row'[h] = UpdatedRow(row[h], cmd.seen, Kind(h), b)
            PROVE  Excused(h)'
        BY <2>1, <3>3, <3>6, UpdateRows
      <3> QED  BY <2>1, <2>3, <3>4, <3>5, <3>6 DEF OutsideRow
    <2> QED  BY <2>2, <2>3
  <1>2. ASSUME NEW r \in RunIds, w'[r].pc \in Busy \ {"claimed"}
        PROVE  w'[r] = w[r] /\ Beat(r)' = Beat(r) /\ Beat(r) \in Beats
    <2>1. w'[r] = w[r] /\ Beat(r)' = Beat(r)
      BY <1>0, <1>2 DEF Others, Fresh, Busy, Active, Waiting, Beat
    <2> QED  BY <1>2, <2>1, Works DEF Busy
  <1>3. ASSUME NEW r \in RunIds
        PROVE  ReceiptOut(r)'
    <2> SUFFICES ASSUME During(r)', Kind(Beat(r))' = "terminal"
                 PROVE  row'[Beat(r)'].receipt = "inflight"
      BY DEF ReceiptOut
    <2>1. w'[r].pc \in Busy \ {"claimed"}
      BY DEF During, Busy, Active, Waiting
    <2>2. ReceiptOut(r) /\ During(r) /\ Kind(Beat(r)) = "terminal"
      BY <1>0, <1>2, <2>1 DEF Parked, During, Kind
    <2> QED  BY <1>2, <2>1, <2>2, OutsideAlike DEF Alike, ReceiptOut
  <1>4. ASSUME NEW r \in RunIds
        PROVE  Reported(r)'
    <2>1. w'[r].pc \in {"record", "refused"} => w'[r].pc \in Busy \ {"claimed"}
      BY DEF Busy, Active, Waiting
    <2>2. CASE w'[r].pc \notin {"record", "refused"}
      BY <2>2 DEF Reported
    <2>3. CASE w'[r].pc \in {"record", "refused"} /\ ~(w'[r].pc = "record" /\ w[r].out = "probe_trigger_handoff")
      <3>1. Reported(r) /\ w'[r] = w[r] /\ Beat(r)' = Beat(r) /\ Alike(row[Beat(r)], row'[Beat(r)])
        BY <1>2, <2>1, <2>3, OutsideAlike DEF Parked
      <3> QED  BY <2>3, <3>1 DEF Reported, Alike
    <2>4. CASE w'[r].pc = "record" /\ w[r].out = "probe_trigger_handoff"
      <3> DEFINE h == Beat(r)
      <3>1. Reported(r) /\ w'[r] = w[r] /\ Beat(r)' = h /\ h \in Beats
            /\ row[h] \in Rows /\ OutsideRow(h)
        BY <1>0, <1>2, <2>1, <2>4, OutsideRows DEF Parked
      <3>2. \/ row[h].trigger = "handoff_pending_delivery"
            \/ row[h].trigger = "delivered_cancelled" /\ row[h].status \in Terminal
        BY <2>4, <3>1 DEF Reported
      <3> DEFINE Kept2 == /\ row'[h].trigger = row[h].trigger
                          /\ row[h].status \in Terminal => row'[h].status \in Terminal
                 Gone == row'[h].trigger = "delivered_cancelled" /\ row'[h].status \in Terminal
      <3>3. Kept2 \/ Gone => Reported(r)'
        BY <2>4, <3>1, <3>2 DEF Reported
      <3>4. CASE \/ row'[h] = ExpiredRow(row[h]) \/ row'[h] = AdvancedRow(row[h]) \/ row'[h] = row[h]
                 \/ row'[h] = DeliveredRow(row[h]) \/ row'[h] = DueRow(row[h]) \/ row'[h] = PastRow(row[h])
        <4>1. /\ ExpiredRow(row[h]).status = "COMPLETED" /\ ExpiredRow(row[h]).trigger = row[h].trigger
              /\ DeliveredRow(row[h]).status = "CANCELLED"
              /\ DeliveredRow(row[h]).trigger = "delivered_cancelled"
              /\ AdvancedRow(row[h]).status = row[h].status /\ AdvancedRow(row[h]).trigger = row[h].trigger
              /\ DueRow(row[h]).status = row[h].status /\ DueRow(row[h]).trigger = row[h].trigger
              /\ PastRow(row[h]).status = row[h].status /\ PastRow(row[h]).trigger = row[h].trigger
          BY <3>1, ServiceRows
        <4>2. "COMPLETED" \in Terminal /\ "CANCELLED" \in Terminal
          BY DEF Terminal
        <4>3. Kept2 \/ Gone
          BY <3>4, <4>1, <4>2
        <4> QED  BY <3>3, <4>3
      <3>5. ASSUME Commanded(h), cmd.seen \in Rows, cmd.want \in {"PAUSED", "ACTIVE", "CANCELLED"},
                   row'[h] = SetRow(row[h], cmd.seen, cmd.want), ~Raced(h)
            PROVE  Reported(r)'
        <4>1. row'[h].trigger = row[h].trigger /\ row'[h].status = cmd.want
          BY <3>1, <3>5, SetRows
        <4>2. MaySet(row[h], cmd.want)
          BY <3>5 DEF Raced, Asked, Commanded, CommandWrite
        <4>3. Kept2
          BY <4>1, <4>2 DEF MaySet
        <4> QED  BY <3>3, <4>3
      <3>6. ASSUME Commanded(h), cmd.want \in {"update", "reactivate"}, ~Raced(h)
            PROVE  FALSE
        <4>1. ~run[r].done
          BY <2>1, <2>4, <3>1 DEF SoloInv
        <4> QED  BY <3>6, <4>1 DEF Raced, Inflight, Beat
      <3>7. Commanded(h) => ~Raced(h)
        BY RacedNot
      <3> HIDE DEF Kept2, Gone
      <3>8. ~Recovered(h)
        BY <2>1, <2>4, <3>1, ReadKept DEF Recovered
      <3> QED  BY <3>1, <3>4, <3>5, <3>6, <3>7, <3>8 DEF OutsideRow
    <2> QED  BY <2>2, <2>3, <2>4
  <1> QED  BY <1>1, <1>3, <1>4 DEF Parked

\* record_run leaves an ACTIVE heartbeat without a next run for a reason only
LEMMA RecordsExcused ==
    ASSUME Inv, NEW r \in RunIds, Beat(r) \in Beats, Records(r), Reported(r)
    PROVE  (row'[Beat(r)].status = "ACTIVE" /\ row'[Beat(r)].next = "none") =>
             \/ row'[Beat(r)].trigger \in Handing \/ row'[Beat(r)].receipt = "delivered"
             \/ row'[Beat(r)].alert
  <1> DEFINE h == Beat(r)
             x == row[h]
             y == row'[h]
  <1>1. row \in [Beats -> Rows] /\ x \in Rows
    BY DEF Inv, TypeOK
  <1>2. PICK left \in ReceiptsLeft(r) :
           y = RecordedRow(x, Kind(h), mix.strict, Result(r, left[1], left[2]))
    BY <1>1 DEF Records, Writes
  <1> DEFINE res == Result(r, left[1], left[2])
  <1>3. /\ res.out = w[r].out /\ res.queue = w[r].snap
        /\ res.quiet = (w[r].out = "queue_no_change_silent")
    BY DEF Result
  <1> HIDE DEF res
  <1>4. /\ y.trigger = x.trigger /\ y.receipt = x.receipt
        /\ x.status # "ACTIVE" => y = x
        /\ x.status = "ACTIVE" =>
             /\ y.next = NextEpoch(x, Kind(h), mix.strict, res)
             /\ y.alert = IF res.queue = NoQueue THEN x.alert ELSE res.quiet /\ res.same
    BY <1>1, <1>2, RecordRows DEF res
  <1> SUFFICES ASSUME y.status = "ACTIVE", y.next = "none", x.status = "ACTIVE"
               PROVE  y.trigger \in Handing \/ y.receipt = "delivered" \/ y.alert
    BY <1>4
  <1>5. \/ res.out \in {"probe_trigger_handoff", "parent_terminal_receipt_delivered"}
        \/ RaisesAlert(x, res)
    BY <1>4 DEF NextEpoch
  <1>6. w[r].pc = "record"
    BY <1>3, <1>5 DEF Records, Reported, RaisesAlert
  <1>7. "ACTIVE" \notin Terminal
    BY DEF Terminal
  <1>8. CASE RaisesAlert(x, res)
    BY <1>3, <1>4, <1>6, <1>8 DEF RaisesAlert, Reported
  <1> QED  BY <1>3, <1>4, <1>5, <1>6, <1>7, <1>8 DEF Reported, Handing

LEMMA ParkedWorker ==
    ASSUME Inv, PlaceInv, SoloInv, Parked, NEW r \in RunIds, Effect(r), Alone(r)
    PROVE  Parked'
  <1> DEFINE h == Beat(r)
  <1>0. /\ row \in [Beats -> Rows] /\ h \in Beats /\ row[h] \in Rows /\ w[r].pc \in Busy
        /\ Woken(r) \in BOOLEAN /\ w[r].fp \in Nat
        /\ \A s \in RunIds : Beat(s)' = Beat(s) /\ (s # r => w'[s] = w[s])
        /\ \A g : Kind(g)' = Kind(g)
    BY ContTyped DEF Alone, Inv, TypeOK, Beat, Kind
  <1>1. Active \subseteq Busy /\ Waiting \subseteq Busy /\ Waiting \cap Active = {} /\ "done" \notin Busy
    BY DEF Active, Waiting, Busy
  \* What another run's worker has on record stays
  <1>2. ASSUME NEW s \in RunIds, s # r, w[s].pc \in Active
        PROVE  /\ row'[Beat(s)].trigger = row[Beat(s)].trigger
               /\ row'[Beat(s)].receipt = row[Beat(s)].receipt
               /\ row[Beat(s)].status \in Terminal => row'[Beat(s)].status = row[Beat(s)].status
    <2>1. CASE Beat(s) # h
      <3>1. Beat(s) \in Beats
        BY <1>2, Works DEF Busy
      <3> QED  BY <2>1, <3>1, OwnRow
    <2>2. CASE Beat(s) = h
      <3>1. w[r].pc \notin Active
        BY <1>2, <2>2 DEF SoloInv
      <3>2. Submits(r) \/ Records(r)
        BY <3>1 DEF Active, Effect, Submits, GoesToArm, GoesToRead, GoesToStart, GoesToEnd, GoesToRecord,
             Inspects, Changes, Arms, Claims, Begins, Finishes, Reports, Takes, Looks, Marks, Records
      <3>3. CASE Submits(r)
        BY <3>3 DEF Submits, Still
      <3>4. CASE Records(r)
        <4>1. PICK left \in ReceiptsLeft(r) :
                 row'[h] = RecordedRow(row[h], Kind(h), mix.strict, Result(r, left[1], left[2]))
          BY <1>0, <3>4 DEF Records, Writes
        <4>2. row[h].status \in Terminal => row[h].status # "ACTIVE"
          BY DEF Terminal
        <4> QED  BY <1>0, <2>2, <4>1, <4>2, RecordRows
      <3> QED  BY <3>2, <3>3, <3>4
    <2> QED  BY <2>1, <2>2
  <1>3. ASSUME NEW g \in Beats
        PROVE  Excused(g)'
    <2>1. CASE Records(r) /\ g = h
      <3>1. Reported(r)
        BY DEF Parked
      <3> QED  BY <1>0, <2>1, <3>1, RecordsExcused DEF Excused
    <2>2. CASE g = h /\ ~Records(r)
      <3>1. w[r].pc \notin {"refused"} /\ ~run[r].done
        <4>1. w[r].pc # "refused"
          BY <2>2 DEF Effect, Submits, GoesToArm, GoesToRead, GoesToStart, GoesToEnd, GoesToRecord,
             Inspects, Changes, Arms, Claims, Begins, Finishes, Reports, Takes, Looks, Marks
        <4> QED  BY <1>0, <4>1 DEF SoloInv
      <3>2. run'[r].beat = h /\ ~run'[r].done
        <4>1. CASE w[r].pc # "record"
          BY <3>1, <4>1 DEF Alone, Beat
        <4>2. CASE w[r].pc = "record"
          BY <2>2, <4>2 DEF Effect, Submits, GoesToArm, GoesToRead, GoesToStart, GoesToEnd, GoesToRecord,
             Inspects, Changes, Arms, Claims, Begins, Finishes, Reports, Takes, Looks, Marks
        <4> QED  BY <4>1, <4>2
      <3> QED  BY <2>2, <3>2 DEF Excused, Inflight
    <2>3. CASE g # h
      <3>1. row'[g] = row[g] /\ Excused(g)
        BY <2>3, OwnRow DEF Parked
      <3>2. ASSUME NEW s \in RunIds, run[s].beat = g, ~run[s].done
            PROVE  run'[s].beat = g /\ ~run'[s].done
        <4>1. s # r
          BY <2>3, <3>2 DEF Beat
        <4>2. run'[s].done = run[s].done
          <5>1. CASE w[r].pc \notin {"record", "refused"}
            BY <5>1 DEF Alone
          <5>2. CASE w[r].pc \in {"record", "refused"}
            <6>1. Records(r)
              BY <5>2 DEF Effect, Submits, GoesToArm, GoesToRead, GoesToStart, GoesToEnd, GoesToRecord,
                 Inspects, Changes, Arms, Claims, Begins, Finishes, Reports, Takes, Looks, Marks
            <6> QED  BY <4>1, <6>1 DEF Records, Inv, TypeOK
          <5> QED  BY <5>1, <5>2
        <4> QED  BY <3>2, <4>2 DEF Alone
      <3>3. Inflight(g) => Inflight(g)'
        BY <3>2 DEF Inflight
      <3> QED  BY <3>1, <3>3 DEF Excused
    <2> QED  BY <2>1, <2>2, <2>3
  <1>4. ASSUME NEW s \in RunIds
        PROVE  ReceiptOut(s)'
    <2> SUFFICES ASSUME During(s)', Kind(Beat(s))' = "terminal"
                 PROVE  row'[Beat(s)].receipt = "inflight"
      BY <1>0 DEF ReceiptOut
    <2>1. CASE s # r
      <3>1. During(s) /\ Kind(Beat(s)) = "terminal" /\ w[s].pc \in Active /\ ReceiptOut(s)
        BY <1>0, <2>1 DEF During, Active, Parked
      <3> QED  BY <1>2, <2>1, <3>1 DEF ReceiptOut
    <2>2. CASE s = r
      <3>1. Kind(h) = "terminal" /\ w'[r].pc \in {"read", "start", "note", "wait", "settle"}
        BY <1>0, <2>2 DEF During
      <3>2. GoesToStart(r) \/ GoesToEnd(r) \/ Begins(r) \/ Claims(r)
        BY <3>1 DEF PlaceInv, Placed, Effect, Submits, GoesToArm, GoesToRead,
             GoesToRecord, Inspects, Changes, Arms, Finishes, Reports, Takes, Looks, Marks, Records
      <3>3. CASE Claims(r)
        <4>1. row'[h] = ClaimedReceiptRow(row[h], w[r].fp)
          BY <1>0, <3>3 DEF Claims, Writes
        <4>2. ClaimedReceiptRow(row[h], w[r].fp).receipt = "inflight"
          BY <1>0, Zenon DEF ClaimedReceiptRow, Rows
        <4> QED  BY <2>2, <4>1, <4>2
      <3>4. CASE GoesToStart(r) \/ GoesToEnd(r) \/ Begins(r)
        <4>1. During(r) /\ row' = row
          BY <3>1, <3>4 DEF During, GoesToStart, GoesToEnd, Begins, Still
        <4> QED  BY <2>2, <3>1, <4>1 DEF Parked, ReceiptOut
      <3> QED  BY <3>2, <3>3, <3>4
    <2> QED  BY <2>1, <2>2
  <1>5. ASSUME NEW s \in RunIds
        PROVE  Reported(s)'
    <2>1. CASE s # r
      <3>1. Reported(s) /\ w'[s] = w[s] /\ (w[s].pc = "record" => w[s].pc \in Active)
        BY <1>0, <2>1 DEF Parked, Active
      <3> QED  BY <1>0, <1>2, <2>1, <3>1 DEF Reported
    <2>2. CASE s = r
      <3>1. CASE Finishes(r)
        <4>1. row'[h] = FinishedTriggerRow(row[h], Woken(r)) /\ w[r].out \in Ends
          BY <1>0, <3>1, Works DEF Finishes, Writes
        <4>2. Woken(r) => FinishedTriggerRow(row[h], Woken(r)).trigger = "handoff_pending_delivery"
          BY <1>0, Zenon DEF FinishedTriggerRow, Rows
        <4> QED  BY <1>0, <2>2, <3>1, <4>1, <4>2 DEF Finishes, Reported, Ends
      <3>2. CASE Reports(r)
        <4>1. row'[h] = FinishedReceiptRow(row[h], Woken(r)) /\ w'[r].pc = "record"
          BY <1>0, <3>2 DEF Reports, Writes
        <4>2. (Woken(r) /\ row[h].receipt = "inflight") =>
                 FinishedReceiptRow(row[h], Woken(r)).receipt = "delivered"
          BY <1>0, Zenon DEF FinishedReceiptRow, Rows
        <4>3. Kind(h) = "terminal" => row[h].receipt = "inflight"
          BY <3>2 DEF Reports, During, Parked, ReceiptOut
        <4> QED  BY <1>0, <2>2, <3>2, <4>1, <4>2, <4>3 DEF Reports, Reported
      <3>3. CASE GoesToRecord(r)
        <4>1. w'[r].pc = "record" /\ w'[r].out \in Common \cup {"failed", "probe_thread_status"}
          BY <3>3 DEF GoesToRecord, PlaceInv, Placed, Common
        <4> QED  BY <2>2, <4>1 DEF Reported, Common, Ends
      <3>4. CASE Looks(r)
        BY <2>2, <3>4, NoQueueConstant DEF Looks, Reported
      <3>5. CASE ~Finishes(r) /\ ~Reports(r) /\ ~GoesToRecord(r) /\ ~Looks(r)
        <4>1. /\ w'[r].pc = "refused" => w'[r].out = "deferred_busy"
              /\ w'[r].pc = "record" => w'[r].out = "probe_thread_status"
          BY <3>5 DEF Effect, Submits, GoesToArm, GoesToRead, GoesToStart, GoesToEnd,
             Inspects, Changes, Arms, Claims, Begins, Takes, Marks, Records
        <4> QED  BY <2>2, <4>1 DEF Reported
      <3> QED  BY <3>1, <3>2, <3>3, <3>4, <3>5
    <2> QED  BY <2>1, <2>2
  <1> QED  BY <1>3, <1>4, <1>5 DEF Parked

ParkInv == Asked /\ (mix.others # {} \/ hist.raced \/ Parked)

\* One process, no raced command: an ACTIVE heartbeat without a next run has a
\* handoff, a delivered receipt, a raised alert or an open run on record.
THEOREM ParkedOnRecord == Spec => []ParkedForAReason
  <1>1. Init => ParkInv
    <2> SUFFICES ASSUME Init
                 PROVE  ParkInv
      OBVIOUS
    <2>1. \A r \in RunIds : w[r].pc = "free"
      BY DEF Init, NoWork
    <2>2. cmd.pc = "idle"
      BY DEF Init, NoCommand
    <2>3. ASSUME NEW h \in Beats
          PROVE  row[h].next = "later"
      <3>1. NewRow(Kind(h)).next = "later" /\ [NewRow(Kind(h)) EXCEPT !.status = "CANCELLED"].next = "later"
        BY DEF NewRow
      <3> QED  BY <2>3, <3>1 DEF Init
    <2> QED  BY <2>1, <2>2, <2>3 DEF ParkInv, Asked, Parked, Excused, Reported, ReceiptOut, During
  <1>2. (Inv /\ PlaceInv /\ ItemInv) /\ OneProcess /\ ParkInv /\ [Next]_vars => ParkInv'
    <2> SUFFICES ASSUME Inv, PlaceInv, OneProcess, ParkInv, [Next]_vars
                 PROVE  ParkInv'
      OBVIOUS
    <2>1. Asked' /\ mix' = mix /\ (hist.raced => hist'.raced)
      BY AskedStep, StepKinds, OtherEffects, HistEffects, HistOutside DEF ParkInv, Alone
    <2>2. CASE mix.others # {} \/ hist'.raced
      BY <2>1, <2>2 DEF ParkInv
    <2>3. CASE mix.others = {} /\ ~hist'.raced
      <3>1. SoloInv /\ PendInv /\ Parked /\ Asked
        BY <2>1, <2>3 DEF ParkInv, OneProcess
      <3>2. Parked'
        BY <2>3, <3>1, StepKinds, ParkedOutside, ParkedWorker
      <3> QED  BY <2>1, <3>2 DEF ParkInv
    <2> QED  BY <2>2, <2>3
  <1>3. ParkInv => ParkedForAReason
    BY DEF ParkInv, Parked, Excused, Handing, ParkedForAReason
  <1> QED  BY <1>1, <1>2, <1>3, PlacesAndItems, OneProcessInvariant, PTL DEF Spec
=============================================================================
