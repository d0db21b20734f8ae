----------------------------- MODULE Dispatcher -----------------------------
(***************************************************************************)
(* The dispatcher's store and the programs that share it:                  *)
(*                                                                         *)
(*   coo_dispatcher_store.py         DispatcherStore: confirmation packets,*)
(*                                   the event ledger, the outbox and its  *)
(*                                   delivery log                          *)
(*   feishu_outbox_notification.py   notify, over the outbox               *)
(*   jarvis_native_task_launcher.py  NativeTaskQueue: task requests that   *)
(*                                   need a confirmed packet, and recovery *)
(*                                                                         *)
(* Every operation of the store runs under one lock and writes several     *)
(* files one after the other, so it is one action here; a process that     *)
(* dies in it has written the first few of them only.  The Feishu bridge   *)
(* that sends the outbox and the consumer of the events are external.      *)
(* Fields that nothing reads back (business status, the audit, the         *)
(* identity of the bot) are left out, and native tasks are registered only *)
(* by code that nothing calls any more.                                    *)
(***************************************************************************)
EXTENDS Integers, Sequences, FiniteSets

CONSTANTS
    Packets,        \* confirmation ids, which create-packet takes from its caller
    Requests,       \* ids of native task requests
    Events,         \* keys of events from outside
    Contents,       \* notification texts; the recipient is one
    Callers,        \* processes that notify, submit or recover
    RepeatLimit,    \* identical messages in a row (5 in the code)
    MaxAttempts,    \* max_attempts of the bridge
    Works,          \* which of the programs run in a behaviour, see Programs
    MaxOutbox, MaxSends, MaxDeaths,     \* bounds
    MaxMade,        \* bound: how often one confirmation id is used
    NoPacket, NoContent, NoRequest

Programs == {"packets", "events", "notify", "tasks"}

(* A packet file, and which of the packets written to it is meant.         *)
Versions == Packets \X (0..MaxMade)

ASSUME DispatcherConstants ==
    /\ RepeatLimit \in Nat \ {0} /\ MaxAttempts \in Nat
    /\ MaxOutbox \in Nat /\ MaxSends \in Nat /\ MaxDeaths \in Nat /\ MaxMade \in Nat
    /\ NoPacket \notin Packets \cup Versions /\ NoContent \notin Contents /\ NoRequest \notin Requests
    /\ Events \cap Requests = {} /\ Works \subseteq SUBSET Programs

VARIABLES
    work,       \* the programs that run in this behaviour
    packet,     \* pending_packets/<id>.json: status
    made,       \* history: how many packets were written to the file
    late,       \* the packets whose expires_at has passed
    state,      \* state.json: status, current_confirmation_id
    registry,   \* execution_registry.jsonl: dispatches of each version
    ledger,     \* event_ledger.jsonl: per key, times ingested and last status
    outbox,     \* outbox.jsonl, with each record's delivery
    request,    \* native_task_requests.jsonl: per id, times queued, version
    results,    \* native_task_results.jsonl: the statuses of each request
    caller,     \* what each process is doing
    bridge,     \* the record the bridge has taken, what came of it; its sends
    consent,    \* history: versions that Cooper confirmed while they were asked
    deaths      \* processes that died in an operation

vars == <<work, packet, made, late, state, registry, ledger, outbox, request, results,
          caller, bridge, consent, deaths>>

Keys == Events \cup Requests    \* a request's callback has a key of its own

Idle == [pc |-> "idle", text |-> NoContent, id |-> 0, rq |-> NoRequest, of |-> NoPacket,
         done |-> "none"]

(* Requests of earlier versions may have left a partial thread behind.     *)
Init ==
    /\ work \in Works
    /\ packet = [p \in Packets |-> "none"]
    /\ made = [p \in Packets |-> 0]
    /\ late = {}
    /\ state = [status |-> "IDLE", current |-> NoPacket]
    /\ registry = [v \in Versions |-> 0]
    /\ ledger = [k \in Keys |-> [n |-> 0, st |-> "none"]]
    /\ outbox = <<>>
    /\ \E old \in SUBSET Requests :
         /\ request = [q \in Requests |-> [n |-> IF q \in old THEN 1 ELSE 0, of |-> NoPacket]]
         /\ results = [q \in Requests |-> IF q \in old THEN {"processing", "partial"} ELSE {}]
    /\ caller = [c \in Callers |-> Idle]
    /\ bridge = [id |-> 0, out |-> "none", sends |-> 0]
    /\ consent = {}
    /\ deaths = 0

(* How many of an operation's k writes are made: all, or the process dies. *)
Writes(k) == IF deaths < MaxDeaths THEN 1..k ELSE {k}
Counted(n, k) == deaths' = IF n < k THEN deaths + 1 ELSE deaths

-----------------------------------------------------------------------------
(* Confirmation packets.  A new one supersedes a pending predecessor; one  *)
(* that was confirmed stays as it is, unless the caller gives its id again:*)
(* create_packet writes the file, whatever is in it.                       *)

Current(p) == <<p, made[p]>>

CreatePacket(p) ==
    /\ made[p] < MaxMade
    /\ LET old == IF state.current = NoPacket \/ packet[state.current] # "pending" THEN {}
                  ELSE {state.current}
       IN \E n \in Writes(3) :
            /\ packet' = [q \in Packets |-> IF q = p /\ n >= 2 THEN "pending"
                                            ELSE IF q \in old THEN "superseded" ELSE packet[q]]
            /\ made' = IF n >= 2 THEN [made EXCEPT ![p] = @ + 1] ELSE made
            /\ late' = IF n >= 2 THEN late \ {p} ELSE late
            /\ state' = IF n < 3 THEN state
                        ELSE [status |-> "AWAITING_CONFIRMATION", current |-> p]
            /\ Counted(n, 3)
    /\ UNCHANGED <<work, registry, ledger, outbox, request, results, caller, bridge, consent>>

Decided == [confirm |-> "confirmed", modify |-> "modification_requested", cancel |-> "cancelled"]
After(d) == CASE d = "confirm" -> "AWAITING_CONFIRMATION" [] d = "modify" -> "DISCUSSING"
              [] OTHER -> "CANCELLED"

\* Mutant of MayDecide: a packet that was decided may be decided again.
Redecides(p) == state.current = p /\ packet[p] # "none"

MayDecide(p) == state.current = p /\ packet[p] = "pending"

DecidePacket(p, d) ==
    /\ MayDecide(p)
    /\ \E n \in Writes(2) :
         /\ packet' = [packet EXCEPT ![p] = IF p \in late THEN "expired" ELSE Decided[d]]
         /\ state' = IF n < 2 THEN state
                     ELSE [state EXCEPT !.status = IF p \in late THEN "BLOCKED" ELSE After(d)]
         /\ Counted(n, 2)
    /\ consent' = IF d = "confirm" /\ p \notin late THEN consent \cup {Current(p)} ELSE consent
    /\ UNCHANGED <<work, made, late, registry, ledger, outbox, request, results, caller, bridge>>

(* With live_dispatch_enabled: the registry, then the packet, the state.   *)
MarkDispatched(p) ==
    /\ state.current = p /\ packet[p] = "confirmed"
    /\ \E n \in Writes(3) :
         /\ registry' = [registry EXCEPT ![Current(p)] = @ + 1]
         /\ packet' = IF n < 2 THEN packet ELSE [packet EXCEPT ![p] = "dispatched"]
         /\ state' = IF n < 3 THEN state ELSE [state EXCEPT !.status = "DISPATCHED"]
         /\ Counted(n, 3)
    /\ UNCHANGED <<work, made, late, ledger, outbox, request, results, caller, bridge, consent>>

Expire(p) ==
    /\ packet[p] # "none" /\ p \notin late
    /\ late' = late \cup {p}
    /\ UNCHANGED <<work, packet, made, state, registry, ledger, outbox, request, results, caller,
                   bridge, consent, deaths>>

-----------------------------------------------------------------------------
(* Events.  One key is ingested once; its status is the last one recorded. *)

\* Mutant of Ingested: a key that is in the ledger is appended again.
AppendedAgain(k) == [ledger EXCEPT ![k] = [n |-> @.n + 1, st |-> "queued"]]

Ingested(k) == IF ledger[k].n > 0 THEN ledger
               ELSE [ledger EXCEPT ![k] = [n |-> 1, st |-> "queued"]]

Discussed(k) == IF ledger[k].n > 0 \/ state.status \notin {"IDLE", "COMPLETE", "CANCELLED"}
                THEN state ELSE [state EXCEPT !.status = "DISCUSSING"]

IngestEvent(k) ==
    /\ \E n \in Writes(2) :
         /\ ledger' = Ingested(k)
         /\ state' = IF n < 2 THEN state ELSE Discussed(k)
         /\ Counted(n, 2)
    /\ UNCHANGED <<work, packet, made, late, registry, outbox, request, results, caller, bridge, consent>>

(* The consumer works on what pending_events returns.                      *)
PendingEvents == {k \in Keys : ledger[k].st \in {"queued", "processing", "failed"}}

RecordEventStatus(k, st) ==
    /\ k \in PendingEvents
    /\ \E n \in Writes(2) :
         /\ ledger' = [ledger EXCEPT ![k].st = st]
         /\ state' = IF n = 2 /\ st = "processing" THEN [state EXCEPT !.status = "DISCUSSING"]
                                                 ELSE state
         /\ Counted(n, 2)
    /\ UNCHANGED <<work, packet, made, late, registry, outbox, request, results, caller, bridge, consent>>

-----------------------------------------------------------------------------
(* The outbox.  Past RepeatLimit identical messages in a row enqueue_outbox*)
(* answers with the last record instead of a new one.                      *)

Record(text) == [text |-> text, st |-> "queued", tries |-> 0, sent |-> FALSE]

\* Mutant of LimitReached: the identical messages need not be in a row.
SeenBefore(text) == Cardinality({i \in 1..Len(outbox) : outbox[i].text = text}) >= RepeatLimit

LimitReached(text) ==
    /\ Len(outbox) >= RepeatLimit
    /\ \A i \in (Len(outbox) - RepeatLimit + 1)..Len(outbox) : outbox[i].text = text

\* Mutant of RecordFor: the record is looked for one place too far.
PastTheEnd(text) == Len(outbox) + 1

RecordFor(text) == IF LimitReached(text) THEN Len(outbox) ELSE Len(outbox) + 1

Notify(c, text) ==
    /\ caller[c].pc = "idle"
    /\ LimitReached(text) \/ Len(outbox) < MaxOutbox
    /\ \E n \in Writes(2) :
         /\ outbox' = IF LimitReached(text) THEN outbox ELSE Append(outbox, Record(text))
         /\ caller' = [caller EXCEPT ![c] =
                IF n < 2 THEN [Idle EXCEPT !.text = text, !.done = "failed"]
                ELSE [Idle EXCEPT !.pc = "notify", !.text = text, !.id = RecordFor(text)]]
         /\ Counted(n, 2)
    /\ UNCHANGED <<work, packet, made, late, state, registry, ledger, request, results, bridge, consent>>

(* _wait_for_delivery: the latest status, or the time is up.               *)
NotifyEnds(c) ==
    /\ caller[c].pc = "notify"
    /\ caller' = [caller EXCEPT ![c].pc = "idle",
                    ![c].done = IF outbox[caller[c].id].st = "delivered" THEN "completed"
                                                                       ELSE "failed"]
    /\ UNCHANGED <<work, packet, made, late, state, registry, ledger, outbox, request, results, bridge,
                   consent, deaths>>

(* pending_outbox: final ones are left out, retry_pending is not counted.  *)
PendingOutbox ==
    {i \in 1..Len(outbox) :
        /\ outbox[i].st \notin {"delivered", "expired", "unknown"}
        /\ outbox[i].st = "retry_pending" \/ outbox[i].tries < MaxAttempts}

(* The bridge sends a record, with or without an answer, and then records  *)
(* what it knows; it may die between the two.                              *)
BridgeSends(i) ==
    /\ bridge.id = 0 /\ i \in PendingOutbox /\ bridge.sends < MaxSends
    /\ \E out \in {"delivered", "failed", "retry_pending", "unknown", "expired"}, sent \in BOOLEAN :
         /\ out = "delivered" => sent
         /\ out \in {"failed", "retry_pending", "expired"} => ~sent
         /\ bridge' = [id |-> i, out |-> out, sends |-> bridge.sends + 1]
         /\ outbox' = [outbox EXCEPT ![i].sent = @ \/ sent]
    /\ UNCHANGED <<work, packet, made, late, state, registry, ledger, request, results, caller, consent, deaths>>

RecordDelivery ==
    /\ bridge.id # 0
    /\ \E n \in Writes(2) \cup (IF deaths < MaxDeaths THEN {0} ELSE {}) :
         /\ outbox' = IF n = 0 THEN outbox
                      ELSE [outbox EXCEPT ![bridge.id].st = bridge.out, ![bridge.id].tries = @ + 1]
         /\ Counted(n, 2)
    /\ bridge' = [bridge EXCEPT !.id = 0, !.out = "none"]
    /\ UNCHANGED <<work, packet, made, late, state, registry, ledger, request, results, caller, consent>>

-----------------------------------------------------------------------------
(* Native task requests.  validate reads the packet without the lock that  *)
(* the request is then appended under; a request of Cooper's own has none. *)

PacketIsConfirmed(p) == packet[p] \in {"confirmed", "dispatched"}

Validate(c, q, p) ==
    /\ caller[c].pc = "idle"
    /\ p # NoPacket => PacketIsConfirmed(p)
    /\ caller' = [caller EXCEPT ![c] =
           [Idle EXCEPT !.pc = "submit", !.of = IF p = NoPacket THEN p ELSE Current(p), !.rq = q]]
    /\ UNCHANGED <<work, packet, made, late, state, registry, ledger, outbox, request, results, bridge,
                   consent, deaths>>

Submit(c) ==
    /\ caller[c].pc = "submit"
    /\ LET q == caller[c].rq IN
       request' = IF request[q].n > 0 THEN request
                  ELSE [request EXCEPT ![q] = [n |-> 1, of |-> caller[c].of]]
    /\ caller' = [caller EXCEPT ![c] = Idle]
    /\ UNCHANGED <<work, packet, made, late, state, registry, ledger, outbox, results, bridge, consent, deaths>>

(* recover_partial, under a lock that its age alone breaks, so that two    *)
(* may run: one turn in the thread that is left, a callback, the result.   *)
RecoverStarts(c, q) ==
    /\ caller[c].pc = "idle" /\ request[q].n > 0
    /\ "recovered" \notin results[q] /\ "partial" \in results[q]
    /\ results' = [results EXCEPT ![q] = @ \cup {"processing_recovery"}]
    /\ caller' = [caller EXCEPT ![c] = [Idle EXCEPT !.pc = "recover", !.rq = q]]
    /\ UNCHANGED <<work, packet, made, late, state, registry, ledger, outbox, request, bridge, consent, deaths>>

(* The turn has completed, or failed; a failure leaves no result.          *)
RecoverTurn(c) ==
    /\ caller[c].pc = "recover"
    /\ \/ /\ \E n \in Writes(2) :
               /\ ledger' = Ingested(caller[c].rq)
               /\ state' = IF n < 2 THEN state ELSE Discussed(caller[c].rq)
               /\ caller' = [caller EXCEPT ![c] =
                      IF n < 2 THEN Idle ELSE [caller[c] EXCEPT !.pc = "recovered"]]
               /\ Counted(n, 2)
       \/ caller' = [caller EXCEPT ![c] = Idle] /\ UNCHANGED <<work, ledger, state, deaths>>
    /\ UNCHANGED <<work, packet, made, late, registry, outbox, request, results, bridge, consent>>

RecoverEnds(c) ==
    /\ caller[c].pc = "recovered"
    /\ results' = [results EXCEPT ![caller[c].rq] = @ \cup {"recovered"}]
    /\ caller' = [caller EXCEPT ![c] = Idle]
    /\ UNCHANGED <<work, packet, made, late, state, registry, ledger, outbox, request, bridge, consent, deaths>>

-----------------------------------------------------------------------------
PacketStep ==
    \/ \E p \in Packets : CreatePacket(p) \/ MarkDispatched(p) \/ Expire(p)
    \/ \E p \in Packets, d \in DOMAIN Decided : DecidePacket(p, d)

EventStep ==
    \/ \E k \in Events : IngestEvent(k)
    \/ \E k \in Keys, st \in {"processing", "completed", "failed", "ignored"} :
         RecordEventStatus(k, st)

NotifyStep ==
    \/ \E c \in Callers, text \in Contents : Notify(c, text)
    \/ \E c \in Callers : NotifyEnds(c)
    \/ \E i \in 1..Len(outbox) : BridgeSends(i)
    \/ RecordDelivery

TaskStep ==
    \/ \E c \in Callers, q \in Requests, p \in Packets \cup {NoPacket} : Validate(c, q, p)
    \/ \E c \in Callers, q \in Requests : RecoverStarts(c, q)
    \/ \E c \in Callers : Submit(c) \/ RecoverTurn(c) \/ RecoverEnds(c)

Next ==
    \/ "packets" \in work /\ PacketStep
    \/ "events" \in work /\ EventStep
    \/ "notify" \in work /\ NotifyStep
    \/ "tasks" \in work /\ TaskStep

Spec == Init /\ [][Next]_vars

-----------------------------------------------------------------------------
PacketStatuses == {"none", "pending", "superseded", "confirmed", "modification_requested",
                   "cancelled", "expired", "dispatched"}
States == {"IDLE", "DISCUSSING", "AWAITING_CONFIRMATION", "DISPATCHED", "CANCELLED", "BLOCKED"}
EventStatuses == {"none", "queued", "processing", "completed", "failed", "ignored"}
Deliveries == {"queued", "delivered", "failed", "retry_pending", "unknown", "expired"}
Jobs ==
    [pc: {"idle"}, text: Contents \cup {NoContent}, id: 0..Len(outbox), rq: {NoRequest},
     of: {NoPacket}, done: {"none", "completed", "failed"}]
    \cup [pc: {"notify"}, text: Contents, id: 1..Len(outbox), rq: {NoRequest},
          of: {NoPacket}, done: {"none"}]
    \cup [pc: {"submit"}, text: {NoContent}, id: {0}, rq: Requests,
          of: Versions \cup {NoPacket}, done: {"none"}]
    \cup [pc: {"recover", "recovered"}, text: {NoContent}, id: {0}, rq: Requests,
          of: {NoPacket}, done: {"none"}]

TypeOK ==
    /\ work \in Works
    /\ packet \in [Packets -> PacketStatuses]
    /\ made \in [Packets -> 0..MaxMade]
    /\ late \subseteq Packets
    /\ state \in [status: States, current: Packets \cup {NoPacket}]
    /\ registry \in [Versions -> Nat]
    /\ ledger \in [Keys -> [n: Nat, st: EventStatuses]]
    /\ outbox \in Seq([text: Contents, st: Deliveries, tries: Nat, sent: BOOLEAN])
    /\ request \in [Requests -> [n: Nat, of: Versions \cup {NoPacket}]]
    /\ results \in [Requests -> SUBSET {"processing", "partial", "processing_recovery", "recovered"}]
    /\ \A c \in Callers : caller[c] \in Jobs
    /\ DOMAIN caller = Callers
    /\ bridge \in [id: {0}, out: {"none"}, sends: 0..MaxSends]
                 \cup [id: 1..Len(outbox), out: Deliveries, sends: 0..MaxSends]
    /\ consent \subseteq Versions
    /\ deaths \in Nat

(* What was dispatched, and what a native task was requested for, is a     *)
(* packet that Cooper confirmed while it was asked, and that still stands: *)
(* no decision, expiry, packet of another id, or crash between two writes  *)
(* takes it back.  Only create_packet, called with the same id, does, and  *)
(* the new packet then needs a confirmation of its own.                    *)
Stands(v) == v \in consent /\ (v = Current(v[1]) => PacketIsConfirmed(v[1]))

ConsentStands ==
    /\ \A v \in Versions : registry[v] > 0 => Stands(v)
    /\ \A q \in Requests : request[q].of # NoPacket => Stands(request[q].of)

(* A notification that is reported completed names a record with its own   *)
(* text that did reach Feishu, also when the limit of identical messages   *)
(* made enqueue_outbox answer with a record of another call.               *)
NotifiedIsDelivered ==
    \A c \in Callers : caller[c].done = "completed" =>
        outbox[caller[c].id].text = caller[c].text /\ outbox[caller[c].id].sent

(* An event key and a request are on record once, whoever retries, races   *)
(* or recovers twice; a packet is dispatched a second time only when a     *)
(* process died between the registry and the packet, or it was made anew.  *)
OnRecordOnce ==
    /\ \A k \in Keys : ledger[k].n <= 1
    /\ \A q \in Requests : request[q].n <= 1
    /\ \A v \in Versions : registry[v] <= 1 + deaths
=============================================================================
