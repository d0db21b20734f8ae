--------------------------- MODULE HeartbeatStore ---------------------------
(***************************************************************************)
(* The statements that HeartbeatStore (jarvis_heartbeat_service.py) runs   *)
(* against one row of its `heartbeats` table, as functions from the row to *)
(* the row: creation, update, set_status, the trigger handoff, the         *)
(* terminal receipt, recovery, and the long record_run.                    *)
(*                                                                         *)
(* Times are reduced to what the queries compare: next_run_epoch is NULL,  *)
(* in the future or due, and expires_at has passed or not.  max_runs is    *)
(* one constant.  Columns that only describe the last run, the busy notice *)
(* and the audit table are left out.                                       *)
(***************************************************************************)
EXTENDS Integers

CONSTANTS
    MaxRuns,        \* max_runs of every heartbeat
    MaxFailures,    \* config.max_failures
    StaleLimit,     \* config.receipt_stale_round_limit
    NoQueue         \* no queue fingerprint

ASSUME StoreConstants ==
    /\ MaxRuns \in Nat \ {0}
    /\ MaxFailures \in Nat \ {0}
    /\ StaleLimit \in Nat \ {0}

Terminal == {"COMPLETED", "CANCELLED", "FAILED"}
Statuses == {"ACTIVE", "PAUSED"} \cup Terminal
Kinds    == {"prompt", "plain", "quota", "terminal", "continue", "queue"}
Triggers == {"not_applicable", "monitoring", "handoff_inflight",
             "handoff_pending_delivery", "delivered_cancelled"}
Receipts == {"not_applicable", "inflight", "delivered", "retry"}

(* What record_run is told.  The outcomes of one fate for the row share a  *)
(* name: "probe_thread_status" stands for every quiet probe, and "failed"  *)
(* for every outcome that is neither a success nor a deferral.             *)
Successes == {"turn_completed", "probe_thread_status", "workbench_probe_completed",
              "probe_trigger_handoff", "parent_terminal_receipt_delivered",
              "terminal_continuation_completed", "queue_continuation_released",
              "queue_no_change_silent"}
Outcomes == Successes \cup {"failed", "deferred_busy", "continuation_receipt_missing"}

-----------------------------------------------------------------------------
(* validate_request and create: the normalized row.                        *)
NewRow(kind) ==
    [status |-> "ACTIVE", next |-> "later", expired |-> FALSE, runs |-> 0, fails |-> 0,
     trigger |-> IF kind = "prompt" THEN "not_applicable" ELSE "monitoring",
     triggerRun |-> 0, fp |-> 0, receipt |-> "not_applicable",
     progress |-> 0, unchanged |-> 0, quiet |-> NoQueue, alert |-> FALSE]

(* update: the SELECT's checks are MayUpdate, the UPDATE is UpdatedRow.    *)
MayUpdate(row, inflight, reactivate) ==
    ~inflight /\ (row.status \in Terminal => reactivate)

(* `seen' is the row that the SELECT returned, `row' the one it overwrites.*)
UpdatedRow(row, seen, kind, reactivate) ==
    LET desired == IF reactivate THEN "ACTIVE" ELSE seen.status IN
    [row EXCEPT !.status = desired,
                !.next = IF desired = "ACTIVE" THEN "later" ELSE seen.next,
                !.expired = FALSE, !.fails = 0,
                !.trigger = NewRow(kind).trigger, !.triggerRun = 0]

(* set_status: pause, resume and cancel.                                   *)
MaySet(row, desired) == row.status \in Terminal => row.status = desired

SetRow(row, seen, desired) ==
    [row EXCEPT !.status = desired,
                !.next = IF desired = "ACTIVE" THEN "later" ELSE seen.next]

-----------------------------------------------------------------------------
(* The trigger handoff of a quota probe.                                   *)
\* Mutant of MayArm: only the status is checked before a handoff
ArmsActive(row) == row.status = "ACTIVE"

MayArm(row) == /\ row.status = "ACTIVE"
               /\ row.trigger = "monitoring" /\ row.triggerRun = 0

ArmedRow(row, r) == [row EXCEPT !.trigger = "handoff_inflight",
                                !.triggerRun = r, !.next = "none"]

MayFinishTrigger(row, r) == row.triggerRun = r /\ row.trigger = "handoff_inflight"

\* Mutant of FinishedTriggerRow: a failed handoff is not undone
FailureKept(row, started) ==
    IF started THEN [row EXCEPT !.trigger = "handoff_pending_delivery"] ELSE row

FinishedTriggerRow(row, started) ==
    IF started THEN [row EXCEPT !.trigger = "handoff_pending_delivery"]
               ELSE [row EXCEPT !.trigger = "monitoring", !.triggerRun = 0]

MayDeliver(row) == row.status = "ACTIVE" /\ row.trigger = "handoff_pending_delivery"

DeliveredRow(row) == [row EXCEPT !.status = "CANCELLED", !.next = "none",
                                 !.trigger = "delivered_cancelled"]

(* recover_native_probe_handoffs, for a row whose handoff was in flight.   *)
NeedsRecovery(row) == row.status = "ACTIVE" /\ row.trigger = "handoff_inflight"

\* Mutant of RecoveredRow: every handoff in flight is taken for persisted
TakenForPersisted(row, persisted) ==
    [row EXCEPT !.trigger = "handoff_pending_delivery", !.next = "none"]

\* Mutant of RecoveredRow: the row is not scheduled again
NotRescheduled(row, persisted) ==
    IF persisted
      THEN [row EXCEPT !.trigger = "handoff_pending_delivery", !.next = "none"]
      ELSE [row EXCEPT !.trigger = "monitoring", !.triggerRun = 0, !.fails = @ + 1]

RecoveredRow(row, persisted) ==
    IF persisted
      THEN [row EXCEPT !.trigger = "handoff_pending_delivery", !.next = "none"]
      ELSE [row EXCEPT !.trigger = "monitoring", !.triggerRun = 0,
                       !.next = "later", !.fails = @ + 1]

-----------------------------------------------------------------------------
(* The receipt of a child's terminal state; 0 is a NULL fingerprint.       *)
\* Mutant of MayClaimReceipt: the fingerprint is not compared
AnyReceipt(row, fp) == row.status = "ACTIVE"

MayClaimReceipt(row, fp) == row.status = "ACTIVE" /\ row.fp # fp

ClaimedReceiptRow(row, fp) == [row EXCEPT !.fp = fp, !.receipt = "inflight"]

FinishedReceiptRow(row, delivered) ==
    IF row.receipt # "inflight" THEN row
    ELSE IF delivered THEN [row EXCEPT !.receipt = "delivered", !.next = "none"]
    ELSE [row EXCEPT !.receipt = "retry", !.fp = 0]

-----------------------------------------------------------------------------
(* claim_due: the two SELECTs, and the UPDATE of one claimed row.          *)
IsExpired(row) == row.status = "ACTIVE" /\ row.expired
IsDue(row) == /\ row.status = "ACTIVE" /\ ~row.expired
              /\ row.next = "due" /\ row.runs < MaxRuns

ExpiredRow(row) == [row EXCEPT !.status = "COMPLETED"]
AdvancedRow(row) == IF row.status = "ACTIVE" THEN [row EXCEPT !.next = "later"] ELSE row

-----------------------------------------------------------------------------
(* record_run.  `res' is the result of the run:                            *)
(*   out       its outcome                                                 *)
(*   receipt   continuation_status of a prompt's receipt, or "none"        *)
(*   progress  the receipt's progress_fingerprint, or 0                    *)
(*   queue     the queue_fingerprint of a queue probe, or NoQueue          *)
(*   quiet     queue_quiet;  same  the fingerprint is row.quiet's          *)
(* `strict' is config.require_prompt_continuation_receipt.                 *)

Guarded(kind, strict) == strict /\ kind = "prompt"

(* The outcome after the receipt check.  It overwrites the outcome of a    *)
(* deferral too, so that what follows no longer sees one.                  *)
JudgedOutcome(kind, strict, res) ==
    IF Guarded(kind, strict) /\ res.receipt = "none"
      THEN "continuation_receipt_missing" ELSE res.out

IsDeferral(kind, strict, res) == JudgedOutcome(kind, strict, res) = "deferred_busy"

IsSuccess(kind, strict, res) ==
    IF Guarded(kind, strict) THEN res.receipt = "CONTINUE_SAFE"
                             ELSE res.out \in Successes

NextFailures(row, kind, strict, res) ==
    IF IsDeferral(kind, strict, res) THEN row.fails
    ELSE IF IsSuccess(kind, strict, res) THEN 0 ELSE row.fails + 1

NextUnchanged(row, kind, strict, res) ==
    IF ~Guarded(kind, strict) \/ res.receipt # "CONTINUE_SAFE" THEN 0
    ELSE IF row.progress = res.progress THEN row.unchanged + 1 ELSE 1

(* complete_heartbeat, TERMINAL, a missing or unsafe receipt, a stale one. *)
ReportedStatus(row, kind, strict, res) ==
    IF res.out = "workbench_probe_completed" \/ (Guarded(kind, strict) /\ res.receipt = "TERMINAL")
      THEN "COMPLETED"
    ELSE IF /\ Guarded(kind, strict)
            /\ \/ res.receipt # "CONTINUE_SAFE"
               \/ NextUnchanged(row, kind, strict, res) >= StaleLimit
      THEN "PAUSED"
    ELSE "ACTIVE"

NextRuns(row, kind, strict, res) ==
    row.runs + (IF IsSuccess(kind, strict, res) THEN 1 ELSE 0)

\* Mutant of NextStatus: one run too many
OneRunMore(row, kind, strict, res) ==
    LET reported == ReportedStatus(row, kind, strict, res) IN
    IF reported = "ACTIVE" /\ NextRuns(row, kind, strict, res) > MaxRuns THEN "COMPLETED"
    ELSE IF NextFailures(row, kind, strict, res) >= MaxFailures THEN "FAILED" ELSE reported

NextStatus(row, kind, strict, res) ==
    LET reported == ReportedStatus(row, kind, strict, res) IN
    IF reported = "ACTIVE" /\ NextRuns(row, kind, strict, res) >= MaxRuns THEN "COMPLETED"
    ELSE IF NextFailures(row, kind, strict, res) >= MaxFailures THEN "FAILED" ELSE reported

(* The second quiet report of one queue raises the alert, once.            *)
RaisesAlert(row, res) == res.quiet /\ res.same /\ ~row.alert

NextEpoch(row, kind, strict, res) ==
    IF ~IsSuccess(kind, strict, res) /\ NextStatus(row, kind, strict, res) = "ACTIVE" THEN "later"
    ELSE IF \/ res.out \in {"probe_trigger_handoff", "parent_terminal_receipt_delivered"}
            \/ RaisesAlert(row, res)
      THEN "none"
    ELSE "later"

\* Mutant of RecordedRow: the status is not read again before the update
Unread(row, kind, strict, res) ==
    [row EXCEPT !.status = NextStatus(row, kind, strict, res),
                !.runs = NextRuns(row, kind, strict, res),
                !.fails = NextFailures(row, kind, strict, res),
                !.next = NextEpoch(row, kind, strict, res)]

RecordedRow(row, kind, strict, res) ==
    IF row.status # "ACTIVE" THEN row      \* discarded: the row has moved on
    ELSE [row EXCEPT
            !.status = NextStatus(row, kind, strict, res),
            !.runs = NextRuns(row, kind, strict, res),
            !.fails = NextFailures(row, kind, strict, res),
            !.next = NextEpoch(row, kind, strict, res),
            !.progress = IF Guarded(kind, strict) /\ res.progress # 0 THEN res.progress ELSE @,
            !.unchanged = NextUnchanged(row, kind, strict, res),
            !.quiet = IF res.queue = NoQueue THEN @
                      ELSE IF res.quiet THEN res.queue ELSE NoQueue,
            !.alert = IF res.queue = NoQueue THEN @ ELSE res.quiet /\ res.same]
=============================================================================
