-------------------------- MODULE Dispatcher_proofs --------------------------
(***************************************************************************)
(* The dispatcher, proved for any packets, requests, events, texts,        *)
(* callers and bounds: the types, that a confirmation that was acted on    *)
(* stands until its id is used again, that a completed notification was    *)
(* delivered, and that nothing is on record twice.                         *)
(***************************************************************************)
EXTENDS Dispatcher, TLAPS, SequenceTheorems

-----------------------------------------------------------------------------
(* The helpers.                                                            *)

\* An operation of several writes makes at least one, and counts a death
LEMMA WritesMade ==
    ASSUME deaths \in Nat, NEW k \in Nat \ {0}, NEW n \in Writes(k), Counted(n, k)
    PROVE  /\ n \in 1..k
           /\ deaths' \in Nat /\ deaths' >= deaths
           /\ n < k => deaths' = deaths + 1
  BY DispatcherConstants DEF Writes, Counted

\* One record of the outbox is as its type says
Letter == [text: Contents, st: Deliveries, tries: Nat, sent: BOOLEAN]

\* The delivery state of a record may change, its text and its place stay
LEMMA LetterChanged ==
    ASSUME NEW box \in Seq(Letter), NEW i \in 1..Len(box), NEW st \in Deliveries,
           NEW n \in Nat, NEW b \in BOOLEAN
    PROVE  LET new == [box EXCEPT ![i] = [text |-> box[i].text, st |-> st,
                                          tries |-> n, sent |-> b]]
           IN /\ new \in Seq(Letter) /\ Len(new) = Len(box)
              /\ \A j \in 1..Len(box) : new[j] =
                    IF j = i THEN [text |-> box[i].text, st |-> st, tries |-> n, sent |-> b]
                             ELSE box[j]
  <1>1. box[i] \in Letter
    BY ElementOfSeq
  <1>2. [text |-> box[i].text, st |-> st, tries |-> n, sent |-> b] \in Letter
    BY <1>1 DEF Letter
  <1> QED  BY <1>2, ExceptSeq

-----------------------------------------------------------------------------
(* Types, one lemma for each program.                                      *)

\* Only the outbox and the number of a record in it depend on one another
StoreTypes ==
    /\ work \in Works
    /\ packet \in [Packets -> PacketStatuses]
    /\ made \in [Packets -> 0..MaxMade]
    /\ late \subseteq Packets
    /\ state \in [status: States, current: Packets \cup {NoPacket}]
    /\ registry \in [Versions -> Nat]
    /\ ledger \in [Keys -> [n: Nat, st: EventStatuses]]
    /\ request \in [Requests -> [n: Nat, of: Versions \cup {NoPacket}]]
    /\ results \in [Requests -> SUBSET {"processing", "partial", "processing_recovery", "recovered"}]
    /\ consent \subseteq Versions
    /\ deaths \in Nat

CallerTypes ==
    /\ outbox \in Seq(Letter)
    /\ \A c \in Callers : caller[c] \in Jobs
    /\ DOMAIN caller = Callers
    /\ bridge \in [id: {0}, out: {"none"}, sends: 0..MaxSends]
                 \cup [id: 1..Len(outbox), out: Deliveries, sends: 0..MaxSends]

\* The two halves make up TypeOK
LEMMA TypeParts == TypeOK <=> StoreTypes /\ CallerTypes
  BY DEF TypeOK, StoreTypes, CallerTypes, Letter

\* What the callers and the bridge know keeps its type while it is left alone
LEMMA CallersKept ==
    ASSUME CallerTypes, UNCHANGED <<outbox, caller, bridge>>
    PROVE  CallerTypes'
  BY DEF CallerTypes, Jobs

\* The packet that is on file now is one of the versions
LEMMA CurrentTypes ==
    ASSUME StoreTypes, NEW p \in Packets
    PROVE  Current(p) \in Versions /\ Current(p) # NoPacket /\ made[p] \in 0..MaxMade
  BY DispatcherConstants DEF StoreTypes, Current, Versions

\* Ingesting keeps the types of the ledger and of the state
LEMMA IngestTypes ==
    ASSUME StoreTypes, NEW k \in Keys
    PROVE  /\ Ingested(k) \in [Keys -> [n: Nat, st: EventStatuses]]
           /\ Discussed(k) \in [status: States, current: Packets \cup {NoPacket}]
  <1>1. [n |-> 1, st |-> "queued"] \in [n: Nat, st: EventStatuses]
    BY DEF EventStatuses
  <1>2. Ingested(k) \in [Keys -> [n: Nat, st: EventStatuses]]
    BY <1>1 DEF Ingested, StoreTypes
  <1>3. Discussed(k) \in [status: States, current: Packets \cup {NoPacket}]
    BY DEF Discussed, StoreTypes, States
  <1> QED  BY <1>2, <1>3

\* The packets' operations
LEMMA PacketTypes == StoreTypes /\ CallerTypes /\ PacketStep => StoreTypes' /\ CallerTypes'
  <1> SUFFICES ASSUME StoreTypes, CallerTypes, PacketStep
               PROVE  StoreTypes' /\ CallerTypes'
    OBVIOUS
  <1>1. UNCHANGED <<outbox, caller, bridge, work, ledger, request, results>>
    BY DEF PacketStep, CreatePacket, DecidePacket, MarkDispatched, Expire
  <1>2. CallerTypes'
    BY <1>1, CallersKept
  <1>3. ASSUME NEW p \in Packets, CreatePacket(p)
        PROVE  StoreTypes'
    <2> PICK n \in Writes(3) :
          /\ packet' = [q \in Packets |->
                 IF q = p /\ n >= 2 THEN "pending"
                 ELSE IF q \in (IF state.current = NoPacket \/ packet[state.current] # "pending" THEN {}
                                ELSE {state.current}) THEN "superseded"
                 ELSE packet[q]]
          /\ made' = IF n >= 2 THEN [made EXCEPT ![p] = @ + 1] ELSE made
          /\ late' = IF n >= 2 THEN late \ {p} ELSE late
          /\ state' = IF n < 3 THEN state
                      ELSE [status |-> "AWAITING_CONFIRMATION", current |-> p]
          /\ Counted(n, 3)
      BY <1>3, Zenon DEF CreatePacket
    <2>1. deaths' \in Nat
      BY WritesMade DEF StoreTypes
    <2>2. packet' \in [Packets -> PacketStatuses]
      BY DEF StoreTypes, PacketStatuses
    <2>3. state' \in [status: States, current: Packets \cup {NoPacket}]
      BY DEF StoreTypes, States
    <2>4. made' \in [Packets -> 0..MaxMade] /\ late' \subseteq Packets
      BY <1>3, DispatcherConstants DEF StoreTypes, CreatePacket
    <2> QED  BY <1>1, <1>3, <2>1, <2>2, <2>3, <2>4 DEF StoreTypes, CreatePacket
  <1>4. ASSUME NEW p \in Packets, NEW d \in DOMAIN Decided, DecidePacket(p, d)
        PROVE  StoreTypes'
    <2> PICK n \in Writes(2) :
          /\ packet' = [packet EXCEPT ![p] = IF p \in late THEN "expired" ELSE Decided[d]]
          /\ state' = IF n < 2 THEN state
                      ELSE [state EXCEPT !.status = IF p \in late THEN "BLOCKED" ELSE After(d)]
          /\ Counted(n, 2)
      BY <1>4 DEF DecidePacket
    <2>1. deaths' \in Nat
      BY WritesMade DEF StoreTypes
    <2>2. packet' \in [Packets -> PacketStatuses]
      BY DEF StoreTypes, PacketStatuses, Decided
    <2>3. state' \in [status: States, current: Packets \cup {NoPacket}]
      BY DEF StoreTypes, States, After
    <2>4. consent' \subseteq Versions
      BY <1>4, CurrentTypes DEF StoreTypes, DecidePacket
    <2> QED  BY <1>1, <1>4, <2>1, <2>2, <2>3, <2>4 DEF StoreTypes, DecidePacket
  <1>5. ASSUME NEW p \in Packets, MarkDispatched(p)
        PROVE  StoreTypes'
    <2> PICK n \in Writes(3) :
          /\ registry' = [registry EXCEPT ![Current(p)] = @ + 1]
          /\ packet' = IF n < 2 THEN packet ELSE [packet EXCEPT ![p] = "dispatched"]
          /\ state' = IF n < 3 THEN state ELSE [state EXCEPT !.status = "DISPATCHED"]
          /\ Counted(n, 3)
      BY <1>5 DEF MarkDispatched
    <2>1. deaths' \in Nat
      BY WritesMade DEF StoreTypes
    <2>2. registry' \in [Versions -> Nat] /\ packet' \in [Packets -> PacketStatuses]
      BY CurrentTypes DEF StoreTypes, PacketStatuses
    <2>3. state' \in [status: States, current: Packets \cup {NoPacket}]
      BY DEF StoreTypes, States
    <2> QED  BY <1>1, <1>5, <2>1, <2>2, <2>3 DEF StoreTypes, MarkDispatched
  <1>6. ASSUME NEW p \in Packets, Expire(p)
        PROVE  StoreTypes'
    BY <1>6 DEF Expire, StoreTypes
  <1> QED  BY <1>2, <1>3, <1>4, <1>5, <1>6 DEF PacketStep

\* The events' operations
LEMMA EventTypes == StoreTypes /\ CallerTypes /\ EventStep => StoreTypes' /\ CallerTypes'
  <1> SUFFICES ASSUME StoreTypes, CallerTypes, EventStep
               PROVE  StoreTypes' /\ CallerTypes'
    OBVIOUS
  <1>1. UNCHANGED <<outbox, caller, bridge, work, packet, made, late, registry, request, results, consent>>
    BY DEF EventStep, IngestEvent, RecordEventStatus
  <1>2. CallerTypes'
    BY <1>1, CallersKept
  <1>3. ASSUME NEW k \in Events, IngestEvent(k)
        PROVE  StoreTypes'
    <2> k \in Keys
      BY DEF Keys
    <2> PICK n \in Writes(2) : /\ ledger' = Ingested(k)
                               /\ state' = IF n < 2 THEN state ELSE Discussed(k)
                               /\ Counted(n, 2)
      BY <1>3 DEF IngestEvent
    <2>1. deaths' \in Nat
      BY WritesMade DEF StoreTypes
    <2> QED  BY <1>1, <2>1, IngestTypes DEF StoreTypes
  <1>4. ASSUME NEW k \in Keys, NEW st \in {"processing", "completed", "failed", "ignored"},
               RecordEventStatus(k, st)
        PROVE  StoreTypes'
    <2> PICK n \in Writes(2) :
          /\ ledger' = [ledger EXCEPT ![k].st = st]
          /\ state' = IF n = 2 /\ st = "processing" THEN [state EXCEPT !.status = "DISCUSSING"]
                                                    ELSE state
          /\ Counted(n, 2)
      BY <1>4 DEF RecordEventStatus
    <2>1. deaths' \in Nat
      BY WritesMade DEF StoreTypes
    <2>2. ledger' \in [Keys -> [n: Nat, st: EventStatuses]]
      BY DEF StoreTypes, EventStatuses
    <2>3. state' \in [status: States, current: Packets \cup {NoPacket}]
      BY DEF StoreTypes, States
    <2> QED  BY <1>1, <2>1, <2>2, <2>3 DEF StoreTypes
  <1> QED  BY <1>2, <1>3, <1>4 DEF EventStep

\* A delivery that is recorded, and a message that is sent, change one letter
LEMMA OutboxChanged ==
    ASSUME outbox \in Seq(Letter), NEW i \in 1..Len(outbox), NEW st \in Deliveries, NEW b \in BOOLEAN
    PROVE  /\ LET new == [outbox EXCEPT ![i].sent = b] IN
              /\ new \in Seq(Letter) /\ Len(new) = Len(outbox)
              /\ \A j \in 1..Len(outbox) :
                   /\ new[j].text = outbox[j].text /\ new[j].st = outbox[j].st
                   /\ new[j].sent = IF j = i THEN b ELSE outbox[j].sent
           /\ LET new == [outbox EXCEPT ![i].st = st, ![i].tries = @ + 1] IN
              /\ new \in Seq(Letter) /\ Len(new) = Len(outbox)
              /\ \A j \in 1..Len(outbox) :
                   /\ new[j].text = outbox[j].text /\ new[j].sent = outbox[j].sent
                   /\ new[j].st = IF j = i THEN st ELSE outbox[j].st
  <1>1. outbox[i] \in Letter /\ \A j \in 1..Len(outbox) : outbox[j] \in Letter
    BY ElementOfSeq
  <1>2. outbox[i].tries \in Nat /\ outbox[i].sent \in BOOLEAN /\ outbox[i].st \in Deliveries
    BY <1>1 DEF Letter
  <1>3. outbox[i].tries + 1 \in Nat
    BY <1>2
  <1>4. LET new == [outbox EXCEPT ![i].sent = b] IN
        /\ new \in Seq(Letter) /\ Len(new) = Len(outbox)
        /\ \A j \in 1..Len(outbox) :
              /\ new[j].text = outbox[j].text /\ new[j].st = outbox[j].st
              /\ new[j].sent = IF j = i THEN b ELSE outbox[j].sent
    <2> DEFINE e == [outbox[i] EXCEPT !.sent = b]
    <2>1. e \in Letter /\ e.text = outbox[i].text /\ e.st = outbox[i].st /\ e.sent = b
      BY <1>1 DEF Letter
    <2>2. [outbox EXCEPT ![i].sent = b] = [outbox EXCEPT ![i] = e]
      OBVIOUS
    <2> HIDE DEF e
    <2> QED  BY <2>1, <2>2, ExceptSeq
  <1>5. [outbox EXCEPT ![i].st = st, ![i].tries = @ + 1] =
          [outbox EXCEPT ![i] = [text |-> outbox[i].text, st |-> st,
                                 tries |-> outbox[i].tries + 1, sent |-> outbox[i].sent]]
    BY <1>1 DEF Letter
  <1> QED  BY <1>2, <1>3, <1>4, <1>5, LetterChanged

\* Where enqueue_outbox leaves the message of a call
LEMMA Enqueued ==
    ASSUME outbox \in Seq(Letter), NEW text \in Contents, NEW box,
           box = IF LimitReached(text) THEN outbox ELSE Append(outbox, Record(text))
    PROVE  /\ box \in Seq(Letter) /\ Len(box) >= Len(outbox) /\ Len(box) \in Nat
           /\ RecordFor(text) \in 1..Len(box)
           /\ box[RecordFor(text)].text = text
           /\ \A j \in 1..Len(outbox) : box[j] = outbox[j]
           /\ \A j \in 1..Len(box) : j \notin 1..Len(outbox) => box[j].st = "queued"
  <1>1. Record(text) \in Letter /\ Record(text).st = "queued" /\ Record(text).text = text
    BY DEF Record, Letter, Deliveries
  <1>2. CASE LimitReached(text)
    BY <1>2, DispatcherConstants DEF LimitReached, RecordFor
  <1>3. CASE ~LimitReached(text)
    BY <1>1, <1>3, AppendProperties DEF RecordFor
  <1> QED  BY <1>2, <1>3

\* Notifications and the bridge
LEMMA NotifyTypes == StoreTypes /\ CallerTypes /\ NotifyStep => StoreTypes' /\ CallerTypes'
  <1> SUFFICES ASSUME StoreTypes, CallerTypes, NotifyStep
               PROVE  StoreTypes' /\ CallerTypes'
    OBVIOUS
  <1> USE DEF CallerTypes
  <1>1. ASSUME NEW c \in Callers, NEW text \in Contents, Notify(c, text)
        PROVE  StoreTypes' /\ CallerTypes'
    <2> PICK n \in Writes(2) :
          /\ outbox' = IF LimitReached(text) THEN outbox ELSE Append(outbox, Record(text))
          /\ caller' = [caller EXCEPT ![c] =
                IF n < 2 THEN [Idle EXCEPT !.text = text, !.done = "failed"]
                ELSE [Idle EXCEPT !.pc = "notify", !.text = text, !.id = RecordFor(text)]]
          /\ Counted(n, 2)
      BY <1>1 DEF Notify
    <2>1. deaths' \in Nat
      BY WritesMade, 2 \in Nat \ {0} DEF StoreTypes
    <2>2. /\ outbox' \in Seq(Letter) /\ Len(outbox') >= Len(outbox)
          /\ Len(outbox') \in Nat /\ RecordFor(text) \in 1..Len(outbox')
      BY Enqueued
    <2>3. \A d \in Callers : d # c => caller'[d] = caller[d]
      OBVIOUS
    <2>4. \A d \in Callers \ {c} : caller'[d] \in Jobs'
      BY <2>2, <2>3 DEF Jobs
    <2>5. caller'[c] \in Jobs'
      <3>1. CASE n < 2
        <4>1. caller'[c] = [pc |-> "idle", text |-> text, id |-> 0, rq |-> NoRequest,
                            of |-> NoPacket, done |-> "failed"]
          BY <3>1 DEF Idle
        <4>2. 0 \in 0..Len(outbox')
          BY <2>2
        <4>3. caller'[c] \in [pc: {"idle"}, text: Contents \cup {NoContent}, id: 0..Len(outbox'),
                   rq: {NoRequest}, of: {NoPacket}, done: {"none", "completed", "failed"}]
          BY <4>1, <4>2, ZenonT(60)
        <4> QED  BY <4>3 DEF Jobs
      <3>2. CASE ~(n < 2)
        <4>1. caller'[c] = [pc |-> "notify", text |-> text, id |-> RecordFor(text),
                            rq |-> NoRequest, of |-> NoPacket, done |-> "none"]
          BY <3>2 DEF Idle
        <4>2. caller'[c] \in [pc: {"notify"}, text: Contents, id: 1..Len(outbox'), rq: {NoRequest},
                   of: {NoPacket}, done: {"none"}]
          BY <2>2, <4>1, ZenonT(60)
        <4> QED  BY <4>2 DEF Jobs
      <3> QED  BY <3>1, <3>2
    <2> QED  BY <1>1, <2>1, <2>2, <2>4, <2>5 DEF StoreTypes, Notify
  <1>2. ASSUME NEW c \in Callers, NotifyEnds(c)
        PROVE  StoreTypes' /\ CallerTypes'
    <2>1. UNCHANGED <<work, packet, made, late, state, registry, ledger, request, results, consent, deaths, outbox, bridge>>
      BY <1>2 DEF NotifyEnds
    <2>2. \A d \in Callers \ {c} : caller'[d] \in Jobs'
      BY <1>2, <2>1 DEF NotifyEnds, Jobs
    <2>3. caller'[c] \in Jobs'
      <3>1. caller[c] \in Jobs /\ caller[c].pc = "notify"
        BY <1>2 DEF NotifyEnds
      <3>2. caller[c] \in [pc: {"notify"}, text: Contents, id: 1..Len(outbox), rq: {NoRequest},
                          of: {NoPacket}, done: {"none"}]
        BY <3>1 DEF Jobs
      <3>3. PICK done \in {"completed", "failed"} :
              caller' = [caller EXCEPT ![c].pc = "idle", ![c].done = done]
        BY <1>2 DEF NotifyEnds
      <3> QED  BY <2>1, <3>2, <3>3 DEF Jobs
    <2> QED  BY <1>2, <2>1, <2>2, <2>3 DEF StoreTypes, NotifyEnds
  <1>3. ASSUME NEW i \in 1..Len(outbox), BridgeSends(i)
        PROVE  StoreTypes' /\ CallerTypes'
    <2>1. PICK out \in {"delivered", "failed", "retry_pending", "unknown", "expired"}, sent \in BOOLEAN :
            /\ bridge' = [id |-> i, out |-> out, sends |-> bridge.sends + 1]
            /\ outbox' = [outbox EXCEPT ![i].sent = @ \/ sent]
      BY <1>3 DEF BridgeSends
    <2>2. outbox' \in Seq(Letter) /\ Len(outbox') = Len(outbox)
      <3>1. (outbox[i].sent \/ sent) \in BOOLEAN
        OBVIOUS
      <3>2. "queued" \in Deliveries
        BY DEF Deliveries
      <3> QED  BY <2>1, <3>1, <3>2, OutboxChanged
    <2>3. bridge' \in [id: 1..Len(outbox'), out: Deliveries, sends: 0..MaxSends]
      BY <1>3, <2>1, <2>2, DispatcherConstants DEF BridgeSends, Deliveries
    <2> QED  BY <1>3, <2>2, <2>3 DEF StoreTypes, BridgeSends, Jobs
  <1>4. ASSUME RecordDelivery
        PROVE  StoreTypes' /\ CallerTypes'
    <2>1. PICK n \in Writes(2) \cup (IF deaths < MaxDeaths THEN {0} ELSE {}) :
            /\ outbox' = IF n = 0 THEN outbox
                         ELSE [outbox EXCEPT ![bridge.id].st = bridge.out, ![bridge.id].tries = @ + 1]
            /\ Counted(n, 2)
      BY <1>4 DEF RecordDelivery
    <2>2. deaths' \in Nat
      BY <2>1 DEF StoreTypes, Counted
    <2>3. bridge.id \in 1..Len(outbox) /\ bridge.out \in Deliveries
      BY <1>4 DEF RecordDelivery
    <2>4. outbox' \in Seq(Letter) /\ Len(outbox') = Len(outbox)
      BY <2>1, <2>3, OutboxChanged
    <2>5. bridge' \in [id: {0}, out: {"none"}, sends: 0..MaxSends]
      BY <1>4, <2>4 DEF RecordDelivery
    <2> QED  BY <1>4, <2>2, <2>4, <2>5 DEF StoreTypes, RecordDelivery, Jobs
  <1> QED  BY <1>1, <1>2, <1>3, <1>4 DEF NotifyStep

\* Task requests and their recovery
LEMMA TaskTypes == StoreTypes /\ CallerTypes /\ TaskStep => StoreTypes' /\ CallerTypes'
  <1> SUFFICES ASSUME StoreTypes, CallerTypes, TaskStep
               PROVE  StoreTypes' /\ CallerTypes'
    OBVIOUS
  <1>1. UNCHANGED <<outbox, bridge, work, packet, made, late, registry, consent>>
    BY DEF TaskStep, Validate, Submit, RecoverStarts, RecoverTurn, RecoverEnds
  <1>2. ASSUME NEW c \in Callers, NEW job \in Jobs, caller' = [caller EXCEPT ![c] = job]
        PROVE  CallerTypes'
    BY <1>1, <1>2 DEF CallerTypes, Jobs
  <1>3. Idle \in Jobs
    BY DEF Idle, Jobs, CallerTypes
  <1>4. ASSUME NEW c \in Callers, NEW q \in Requests, NEW p \in Packets \cup {NoPacket},
               Validate(c, q, p)
        PROVE  StoreTypes' /\ CallerTypes'
    <2>1. [Idle EXCEPT !.pc = "submit", !.of = IF p = NoPacket THEN p ELSE Current(p), !.rq = q] \in Jobs
      BY CurrentTypes DEF Idle, Jobs
    <2> QED  BY <1>1, <1>2, <1>4, <2>1 DEF Validate, StoreTypes
  <1>5. ASSUME NEW c \in Callers, Submit(c)
        PROVE  StoreTypes' /\ CallerTypes'
    <2>1. caller[c].rq \in Requests /\ caller[c].of \in Versions \cup {NoPacket}
      BY <1>5 DEF Submit, Jobs, CallerTypes
    <2>2. request' \in [Requests -> [n: Nat, of: Versions \cup {NoPacket}]]
      BY <1>5, <2>1 DEF Submit, StoreTypes
    <2> QED  BY <1>1, <1>2, <1>3, <1>5, <2>2 DEF Submit, StoreTypes
  <1>6. ASSUME NEW c \in Callers, NEW q \in Requests, RecoverStarts(c, q)
        PROVE  StoreTypes' /\ CallerTypes'
    <2>1. [Idle EXCEPT !.pc = "recover", !.rq = q] \in Jobs
      BY DEF Idle, Jobs
    <2> QED  BY <1>1, <1>2, <1>6, <2>1 DEF RecoverStarts, StoreTypes
  <1>7. ASSUME NEW c \in Callers, RecoverTurn(c)
        PROVE  StoreTypes' /\ CallerTypes'
    <2>1. caller[c].rq \in Requests /\ caller[c].rq \in Keys
      BY <1>7 DEF RecoverTurn, Jobs, CallerTypes, Keys
    <2>2. [caller[c] EXCEPT !.pc = "recovered"] \in Jobs
      BY <1>7 DEF RecoverTurn, Jobs, CallerTypes
    <2>3. CASE caller' = [caller EXCEPT ![c] = Idle] /\ UNCHANGED <<work, ledger, state, deaths>>
      BY <1>1, <1>2, <1>3, <1>7, <2>3 DEF RecoverTurn, StoreTypes
    <2>4. ASSUME NEW n \in Writes(2),
                 ledger' = Ingested(caller[c].rq),
                 state' = IF n < 2 THEN state ELSE Discussed(caller[c].rq),
                 caller' = [caller EXCEPT ![c] =
                      IF n < 2 THEN Idle ELSE [caller[c] EXCEPT !.pc = "recovered"]],
                 Counted(n, 2)
          PROVE  StoreTypes' /\ CallerTypes'
      <3>1. deaths' \in Nat
        BY <2>4, WritesMade DEF StoreTypes
      <3>2. CallerTypes'
        BY <1>2, <1>3, <2>2, <2>4
      <3> QED  BY <1>1, <1>7, <2>1, <2>4, <3>1, <3>2, IngestTypes DEF RecoverTurn, StoreTypes
    <2> QED  BY <1>7, <2>3, <2>4 DEF RecoverTurn
  <1>8. ASSUME NEW c \in Callers, RecoverEnds(c)
        PROVE  StoreTypes' /\ CallerTypes'
    <2>1. caller[c].rq \in Requests
      BY <1>8 DEF RecoverEnds, Jobs, CallerTypes
    <2> QED  BY <1>1, <1>2, <1>3, <1>8, <2>1 DEF RecoverEnds, StoreTypes
  <1> QED  BY <1>4, <1>5, <1>6, <1>7, <1>8 DEF TaskStep

\* Nothing has happened at first
LEMMA InitTypes == Init => StoreTypes /\ CallerTypes
  <1> SUFFICES ASSUME Init PROVE StoreTypes /\ CallerTypes
    OBVIOUS
  <1>1. CallerTypes
    BY DispatcherConstants DEF Init, CallerTypes, Idle, Jobs
  <1>2. PICK old \in SUBSET Requests :
          /\ request = [q \in Requests |-> [n |-> IF q \in old THEN 1 ELSE 0, of |-> NoPacket]]
          /\ results = [q \in Requests |-> IF q \in old THEN {"processing", "partial"} ELSE {}]
    BY DEF Init
  <1>3. request \in [Requests -> [n: Nat, of: Versions \cup {NoPacket}]]
    BY <1>2
  <1>4. results \in [Requests -> SUBSET {"processing", "partial", "processing_recovery", "recovered"}]
    BY <1>2
  <1>5. ledger \in [Keys -> [n: Nat, st: EventStatuses]]
    BY DEF Init, EventStatuses
  <1>6. made \in [Packets -> 0..MaxMade] /\ registry \in [Versions -> Nat]
    BY DispatcherConstants DEF Init
  <1> QED  BY <1>1, <1>3, <1>4, <1>5, <1>6 DEF Init, StoreTypes, PacketStatuses, States

\* Every step keeps the types
LEMMA TypesKept == StoreTypes /\ CallerTypes /\ [Next]_vars => StoreTypes' /\ CallerTypes'
  <1> SUFFICES ASSUME StoreTypes, CallerTypes, [Next]_vars
               PROVE  StoreTypes' /\ CallerTypes'
    OBVIOUS
  <1>1. CASE UNCHANGED vars
    BY <1>1 DEF vars, StoreTypes, CallerTypes, Jobs
  <1> QED  BY <1>1, PacketTypes, EventTypes, NotifyTypes, TaskTypes DEF Next

(* The files and the processes have their types in every reachable state.  *)
THEOREM TypeCorrect == Spec => []TypeOK
  <1>1. Init => StoreTypes /\ CallerTypes
    BY InitTypes
  <1>2. StoreTypes /\ CallerTypes /\ [Next]_vars => StoreTypes' /\ CallerTypes'
    BY TypesKept
  <1>3. StoreTypes /\ CallerTypes => TypeOK
    BY TypeParts
  <1> QED  BY <1>1, <1>2, <1>3, PTL DEF Spec

-----------------------------------------------------------------------------
(* Confirmation and the records that rest on it.  A packet that stands as  *)
(* confirmed was confirmed by Cooper, and nothing unconfirms it but a new  *)
(* packet in its file; a request on its way to the queue names one that    *)
(* stands, and a version that was made already; and a packet that was not  *)
(* confirmed was not dispatched, while each earlier dispatch of a          *)
(* confirmed one cost a process its life.                                  *)

Acted(v) == v \in Versions /\ v[2] <= made[v[1]] /\ Stands(v)

ConsentInv ==
    /\ \A p \in Packets : PacketIsConfirmed(p) => Current(p) \in consent
    /\ \A c \in Callers : caller[c].of # NoPacket => Acted(caller[c].of)
    /\ \A q \in Requests : request[q].of # NoPacket => Acted(request[q].of)
    /\ \A v \in Versions : registry[v] > 0 => Acted(v)
    /\ \A p \in Packets : packet[p] = "confirmed" => registry[Current(p)] <= deaths
    /\ OnRecordOnce

\* Only a new packet in the file takes a confirmation back
LEMMA ConfirmedStays ==
    ASSUME StoreTypes, NEW p \in Packets, PacketIsConfirmed(p), [Next]_vars
    PROVE  PacketIsConfirmed(p)' \/ made'[p] > made[p]
  <1>1. CASE PacketStep
    <2>1. ASSUME NEW q \in Packets, CreatePacket(q)
          PROVE  PacketIsConfirmed(p)' \/ made'[p] > made[p]
      <3> PICK n \in Writes(3) :
            /\ packet' = [r \in Packets |->
                   IF r = q /\ n >= 2 THEN "pending"
                   ELSE IF r \in (IF state.current = NoPacket \/ packet[state.current] # "pending" THEN {}
                                  ELSE {state.current}) THEN "superseded"
                   ELSE packet[r]]
            /\ made' = IF n >= 2 THEN [made EXCEPT ![q] = @ + 1] ELSE made
        BY <2>1, Zenon DEF CreatePacket
      <3>1. CASE p = q /\ n >= 2
        BY <3>1 DEF StoreTypes
      <3>2. CASE ~(p = q /\ n >= 2)
        BY <3>2 DEF PacketIsConfirmed
      <3> QED  BY <3>1, <3>2
    <2>2. ASSUME NEW q \in Packets, NEW d \in DOMAIN Decided, DecidePacket(q, d)
          PROVE  PacketIsConfirmed(p)'
      BY <2>2 DEF DecidePacket, MayDecide, PacketIsConfirmed, StoreTypes
    <2>3. ASSUME NEW q \in Packets, MarkDispatched(q)
          PROVE  PacketIsConfirmed(p)'
      BY <2>3 DEF MarkDispatched, PacketIsConfirmed, StoreTypes
    <2>4. ASSUME NEW q \in Packets, Expire(q)
          PROVE  PacketIsConfirmed(p)'
      BY <2>4 DEF Expire, PacketIsConfirmed
    <2> QED  BY <1>1, <2>1, <2>2, <2>3, <2>4 DEF PacketStep
  <1>2. CASE ~PacketStep
    <2>1. UNCHANGED packet
      BY <1>2 DEF Next, vars, EventStep, IngestEvent, RecordEventStatus, NotifyStep, Notify,
           NotifyEnds, BridgeSends, RecordDelivery, TaskStep, Validate, Submit, RecoverStarts,
           RecoverTurn, RecoverEnds
    <2> QED  BY <2>1 DEF PacketIsConfirmed
  <1> QED  BY <1>1, <1>2

\* The number of packets made never goes down, and consent is kept
LEMMA MadeGrows ==
    ASSUME StoreTypes, [Next]_vars
    PROVE  consent \subseteq consent' /\ \A p \in Packets : made'[p] >= made[p]
  <1>1. CASE PacketStep
    <2>1. ASSUME NEW q \in Packets, CreatePacket(q)
          PROVE  UNCHANGED consent /\ \A p \in Packets : made'[p] >= made[p]
      BY <2>1 DEF CreatePacket, StoreTypes
    <2>2. ASSUME NEW q \in Packets, NEW d \in DOMAIN Decided, DecidePacket(q, d)
          PROVE  consent \subseteq consent' /\ UNCHANGED made
      BY <2>2 DEF DecidePacket
    <2>3. ASSUME NEW q \in Packets, MarkDispatched(q) \/ Expire(q)
          PROVE  UNCHANGED <<consent, made>>
      BY <2>3 DEF MarkDispatched, Expire
    <2> QED  BY <1>1, <2>1, <2>2, <2>3 DEF PacketStep, StoreTypes
  <1>2. CASE ~PacketStep
    <2>1. UNCHANGED <<consent, made>>
      BY <1>2 DEF Next, vars, EventStep, IngestEvent, RecordEventStatus, NotifyStep, Notify,
           NotifyEnds, BridgeSends, RecordDelivery, TaskStep, Validate, Submit, RecoverStarts,
           RecoverTurn, RecoverEnds
    <2> QED  BY <2>1 DEF StoreTypes
  <1> QED  BY <1>1, <1>2

\* What was acted on stands after any step
LEMMA ActedStays ==
    ASSUME StoreTypes, StoreTypes', [Next]_vars, NEW v, Acted(v)
    PROVE  Acted(v)'
  <1>1. v[1] \in Packets /\ v[2] \in 0..MaxMade /\ v = <<v[1], v[2]>>
    BY DEF Acted, Versions
  <1>2. made[v[1]] \in Nat /\ made'[v[1]] \in Nat /\ made'[v[1]] >= made[v[1]] /\ v[2] \in Nat
    BY <1>1, MadeGrows, DispatcherConstants DEF StoreTypes
  <1>3. v \in Versions /\ v[2] <= made'[v[1]] /\ v \in consent'
    BY <1>1, <1>2, MadeGrows DEF Acted, Stands
  <1>4. ASSUME v = Current(v[1])'
        PROVE  PacketIsConfirmed(v[1])'
    <2>1. v[2] = made'[v[1]]
      BY <1>1, <1>4 DEF Current
    <2>2. made'[v[1]] = made[v[1]] /\ v = Current(v[1])
      BY <1>1, <1>2, <2>1 DEF Acted, Current
    <2>3. PacketIsConfirmed(v[1])
      BY <2>2 DEF Acted, Stands
    <2> QED  BY <1>1, <1>2, <2>2, <2>3, ConfirmedStays
  <1> QED  BY <1>3, <1>4 DEF Acted, Stands

\* Steps that are not about packets, requests or the ledger
LEMMA OthersKeep ==
    ASSUME StoreTypes, CallerTypes, ConsentInv, UNCHANGED <<packet, made, registry, request, ledger, consent>>,
           deaths' \in Nat, deaths' >= deaths,
           \A c \in Callers : caller'[c].of = caller[c].of \/ caller'[c].of = NoPacket
    PROVE  ConsentInv'
  BY CurrentTypes DEF ConsentInv, OnRecordOnce, Acted, Stands, Current, PacketIsConfirmed, StoreTypes

\* A ledger entry is ingested once
LEMMA IngestedOnce ==
    ASSUME StoreTypes, ConsentInv, NEW k \in Keys
    PROVE  \A j \in Keys : Ingested(k)[j].n <= 1
  BY DEF Ingested, StoreTypes, ConsentInv, OnRecordOnce

\* No packet, request or event at first
LEMMA ConsentInit == Init => ConsentInv
  BY InitTypes, CurrentTypes DEF Init, ConsentInv, OnRecordOnce, PacketIsConfirmed, Idle

\* Every step keeps what is known of confirmations and records
LEMMA ConsentKept ==
    StoreTypes /\ CallerTypes /\ StoreTypes' /\ CallerTypes' /\ ConsentInv /\ [Next]_vars => ConsentInv'
  <1> SUFFICES ASSUME StoreTypes, CallerTypes, StoreTypes', CallerTypes', ConsentInv, [Next]_vars
               PROVE  ConsentInv'
    OBVIOUS
  <1>0. \A v : Acted(v) => Acted(v)'
    BY ActedStays
  <1>1. ASSUME NEW p \in Packets, CreatePacket(p)
        PROVE  ConsentInv'
    <2> PICK n \in Writes(3) :
          /\ packet' = [r \in Packets |->
                 IF r = p /\ n >= 2 THEN "pending"
                 ELSE IF r \in (IF state.current = NoPacket \/ packet[state.current] # "pending" THEN {}
                                ELSE {state.current}) THEN "superseded"
                 ELSE packet[r]]
          /\ made' = IF n >= 2 THEN [made EXCEPT ![p] = @ + 1] ELSE made
          /\ Counted(n, 3)
      BY <1>1, Zenon DEF CreatePacket
    <2>1. \A q \in Packets : PacketIsConfirmed(q)' =>
              /\ PacketIsConfirmed(q) /\ made'[q] = made[q] /\ packet'[q] = packet[q]
      <3> SUFFICES ASSUME NEW q \in Packets, PacketIsConfirmed(q)'
                   PROVE  PacketIsConfirmed(q) /\ made'[q] = made[q] /\ packet'[q] = packet[q]
        OBVIOUS
      <3>1. ~(q = p /\ n >= 2) /\ packet'[q] = packet[q]
        BY DEF PacketIsConfirmed
      <3>2. made'[q] = made[q]
        BY <3>1 DEF StoreTypes
      <3> QED  BY <3>1, <3>2 DEF PacketIsConfirmed
    <2>2. deaths' \in Nat /\ deaths' >= deaths
      BY WritesMade DEF StoreTypes
    <2>3. UNCHANGED <<consent, registry, request, ledger, caller>>
      BY <1>1 DEF CreatePacket
    <2>4. \A q \in Packets : PacketIsConfirmed(q)' => Current(q)' \in consent'
      BY <2>1, <2>3 DEF ConsentInv, Current
    <2>5. \A q \in Packets : packet'[q] = "confirmed" => registry'[Current(q)'] <= deaths'
      <3> SUFFICES ASSUME NEW q \in Packets, packet'[q] = "confirmed"
                   PROVE  registry'[Current(q)'] <= deaths'
        OBVIOUS
      <3>1. packet[q] = "confirmed" /\ Current(q)' = Current(q)
        BY <2>1 DEF PacketIsConfirmed, Current
      <3>2. registry[Current(q)] \in Nat /\ registry[Current(q)] <= deaths
        BY <3>1, CurrentTypes DEF ConsentInv, StoreTypes
      <3> QED  BY <2>2, <2>3, <3>1, <3>2 DEF StoreTypes
    <2>6. OnRecordOnce'
      BY <2>2, <2>3 DEF ConsentInv, OnRecordOnce, StoreTypes
    <2> QED  BY <1>0, <2>3, <2>4, <2>5, <2>6 DEF ConsentInv
  <1>2. ASSUME NEW p \in Packets, NEW d \in DOMAIN Decided, DecidePacket(p, d)
        PROVE  ConsentInv'
    <2>1. UNCHANGED <<made, registry, request, ledger, caller>> /\ consent \subseteq consent'
      BY <1>2 DEF DecidePacket
    <2>2. \A q \in Packets : PacketIsConfirmed(q)' =>
              PacketIsConfirmed(q) \/ (q = p /\ Current(p) \in consent')
      BY <1>2 DEF DecidePacket, PacketIsConfirmed, StoreTypes, Decided
    <2>3. \A q \in Packets : Current(q)' = Current(q)
      BY <2>1 DEF Current
    <2>4. registry[Current(p)] = 0
      <3>1. ~PacketIsConfirmed(p)
        BY <1>2 DEF DecidePacket, MayDecide, PacketIsConfirmed
      <3>2. Current(p)[1] = p
        BY DEF Current
      <3>3. ~Acted(Current(p))
        BY <3>1, <3>2 DEF Acted, Stands
      <3> QED  BY <3>3, CurrentTypes DEF ConsentInv, StoreTypes
    <2>5. deaths' \in Nat /\ deaths' >= deaths
      BY <1>2, WritesMade DEF DecidePacket, StoreTypes
    <2>6. \A q \in Packets : PacketIsConfirmed(q)' => Current(q)' \in consent'
      BY <2>1, <2>2, <2>3 DEF ConsentInv
    <2>7. \A q \in Packets : packet'[q] = "confirmed" => registry'[Current(q)'] <= deaths'
      <3> SUFFICES ASSUME NEW q \in Packets, packet'[q] = "confirmed"
                   PROVE  registry[Current(q)] <= deaths'
        BY <2>1, <2>3
      <3>1. q = p \/ packet[q] = "confirmed"
        BY <1>2 DEF DecidePacket, StoreTypes
      <3>2. registry[Current(q)] \in Nat /\ registry[Current(q)] <= deaths
        BY <2>4, <3>1, CurrentTypes DEF ConsentInv, StoreTypes
      <3> QED  BY <2>5, <3>2 DEF StoreTypes
    <2>8. OnRecordOnce'
      BY <2>1, <2>5 DEF ConsentInv, OnRecordOnce, StoreTypes
    <2> QED  BY <1>0, <2>1, <2>6, <2>7, <2>8 DEF ConsentInv
  <1>3. ASSUME NEW p \in Packets, MarkDispatched(p)
        PROVE  ConsentInv'
    <2> PICK n \in Writes(3) :
          /\ registry' = [registry EXCEPT ![Current(p)] = @ + 1]
          /\ packet' = IF n < 2 THEN packet ELSE [packet EXCEPT ![p] = "dispatched"]
          /\ Counted(n, 3)
      BY <1>3 DEF MarkDispatched
    <2>1. deaths' \in Nat /\ deaths' >= deaths /\ (n < 2 => deaths' = deaths + 1)
      BY WritesMade DEF StoreTypes
    <2>2. UNCHANGED <<made, request, ledger, caller, consent>>
      BY <1>3 DEF MarkDispatched
    <2>3. \A q \in Packets : Current(q)' = Current(q) /\ (Current(q) = Current(p) => q = p)
      BY <2>2 DEF Current
    <2>4. \A q \in Packets : PacketIsConfirmed(q)' => PacketIsConfirmed(q)
      BY <1>3 DEF MarkDispatched, PacketIsConfirmed, StoreTypes
    <2>5. Current(p) \in Versions /\ registry[Current(p)] <= deaths /\ Acted(Current(p))
      <3>1. packet[p] = "confirmed" /\ PacketIsConfirmed(p)
        BY <1>3 DEF MarkDispatched, PacketIsConfirmed
      <3>2. Current(p)[1] = p /\ Current(p)[2] = made[p] /\ made[p] <= made[p]
        BY DispatcherConstants DEF Current, StoreTypes
      <3> QED  BY <3>1, <3>2, CurrentTypes DEF ConsentInv, Acted, Stands
    <2>6. /\ registry'[Current(p)] = registry[Current(p)] + 1
          /\ \A v \in Versions : v # Current(p) => registry'[v] = registry[v]
      BY <2>5 DEF StoreTypes
    <2>7. \A v \in Versions : registry'[v] > 0 => Acted(v)'
      BY <1>0, <2>5, <2>6 DEF ConsentInv
    <2>8. \A q \in Packets : packet'[q] = "confirmed" => registry'[Current(q)'] <= deaths'
      <3> SUFFICES ASSUME NEW q \in Packets, packet'[q] = "confirmed"
                   PROVE  registry'[Current(q)] <= deaths'
        BY <2>3
      <3>1. CASE q = p
        <4>1. n < 2
          BY <3>1 DEF StoreTypes
        <4> QED  BY <2>1, <2>5, <2>6, <3>1, <4>1 DEF StoreTypes
      <3>2. CASE q # p
        <4>1. packet[q] = "confirmed"
          BY <3>2 DEF StoreTypes
        <4>2. registry'[Current(q)] = registry[Current(q)] /\ registry[Current(q)] \in Nat
          BY <2>3, <2>6, <3>2, CurrentTypes DEF StoreTypes
        <4> QED  BY <2>1, <4>1, <4>2 DEF ConsentInv, StoreTypes
      <3> QED  BY <3>1, <3>2
    <2>9. OnRecordOnce'
      BY <2>1, <2>2, <2>5, <2>6 DEF ConsentInv, OnRecordOnce, StoreTypes
    <2>10. \A q \in Packets : PacketIsConfirmed(q)' => Current(q)' \in consent'
      BY <2>2, <2>3, <2>4 DEF ConsentInv
    <2> QED  BY <1>0, <2>2, <2>7, <2>8, <2>9, <2>10 DEF ConsentInv
  <1>4. ASSUME NEW k \in Keys, UNCHANGED <<packet, made, registry, request, consent>>, ledger' = Ingested(k),
               deaths' >= deaths,
               \A c \in Callers : caller'[c].of = caller[c].of \/ caller'[c].of = NoPacket
        PROVE  ConsentInv'
    <2>1. \A j \in Keys : ledger'[j].n <= 1
      BY <1>4, IngestedOnce
    <2>2. \A p \in Packets : Current(p)' = Current(p) /\ Current(p) \in Versions
                             /\ PacketIsConfirmed(p)' = PacketIsConfirmed(p)
      BY <1>4, CurrentTypes DEF Current, PacketIsConfirmed
    <2>5. \A c \in Callers : (caller[c].of # NoPacket => Acted(caller[c].of))'
      BY <1>0, <1>4 DEF ConsentInv
    <2>3. OnRecordOnce'
      BY <1>4, <2>1, <2>2 DEF ConsentInv, OnRecordOnce, StoreTypes
    <2>4. \A p \in Packets : packet'[p] = "confirmed" => registry'[Current(p)'] <= deaths'
      BY <1>4, <2>2 DEF ConsentInv, StoreTypes
    <2> QED  BY <1>0, <1>4, <2>2, <2>3, <2>4, <2>5 DEF ConsentInv
  <1>5. CASE EventStep
    <2>1. ASSUME NEW k \in Events, IngestEvent(k)
          PROVE  ConsentInv'
      <3>1. deaths' >= deaths
        BY <2>1, WritesMade DEF IngestEvent, StoreTypes
      <3> QED  BY <1>4, <2>1, <3>1 DEF IngestEvent, Keys
    <2>2. ASSUME NEW k \in Keys, NEW st \in {"processing", "completed", "failed", "ignored"},
                 RecordEventStatus(k, st)
          PROVE  ConsentInv'
      <3>1. deaths' >= deaths
        BY <2>2, WritesMade DEF RecordEventStatus, StoreTypes
      <3>2. \A j \in Keys : ledger'[j].n = ledger[j].n
        BY <2>2 DEF RecordEventStatus, StoreTypes
      <3>3. UNCHANGED <<packet, made, registry, request, consent, caller>>
        BY <2>2 DEF RecordEventStatus
      <3>4. \A p \in Packets : Current(p)' = Current(p) /\ Current(p) \in Versions
                               /\ PacketIsConfirmed(p)' = PacketIsConfirmed(p)
        BY <3>3, CurrentTypes DEF Current, PacketIsConfirmed
      <3>5. OnRecordOnce'
        BY <3>1, <3>2, <3>3 DEF ConsentInv, OnRecordOnce, StoreTypes
      <3>6. \A p \in Packets : packet'[p] = "confirmed" => registry'[Current(p)'] <= deaths'
        BY <3>1, <3>3, <3>4 DEF ConsentInv, StoreTypes
      <3> QED  BY <1>0, <3>3, <3>4, <3>5, <3>6 DEF ConsentInv
    <2> QED  BY <1>5, <2>1, <2>2 DEF EventStep
  <1>6. CASE NotifyStep
    <2>1. UNCHANGED <<packet, made, registry, request, ledger, consent>>
      BY <1>6 DEF NotifyStep, Notify, NotifyEnds, BridgeSends, RecordDelivery
    <2>2. ASSUME NEW c \in Callers, NEW text \in Contents, Notify(c, text)
          PROVE  ConsentInv'
      <3>1. deaths' >= deaths
        BY <2>2, WritesMade DEF Notify, StoreTypes
      <3>2. \A d \in Callers : caller'[d].of = caller[d].of \/ caller'[d].of = NoPacket
        BY <2>2 DEF Notify, Idle, CallerTypes
      <3> QED  BY <2>1, <3>1, <3>2, OthersKeep DEF StoreTypes
    <2>3. ASSUME NEW c \in Callers, NotifyEnds(c)
          PROVE  ConsentInv'
      <3>1. \A d \in Callers : caller'[d].of = caller[d].of
        BY <2>3 DEF NotifyEnds, CallerTypes, Jobs
      <3>2. deaths' \in Nat /\ deaths' >= deaths
        BY <2>3 DEF NotifyEnds, StoreTypes
      <3> QED  BY <2>1, <3>1, <3>2, OthersKeep
    <2>4. ASSUME NEW i \in 1..Len(outbox), BridgeSends(i)
          PROVE  ConsentInv'
      <3>1. UNCHANGED <<caller, deaths>>
        BY <2>4 DEF BridgeSends
      <3>2. deaths' \in Nat /\ deaths' >= deaths
        BY <3>1 DEF StoreTypes
      <3>3. \A c \in Callers : caller'[c].of = caller[c].of
        BY <3>1
      <3> QED  BY <2>1, <3>2, <3>3, OthersKeep
    <2>5. ASSUME RecordDelivery
          PROVE  ConsentInv'
      <3>1. deaths' >= deaths
        BY <2>5 DEF RecordDelivery, Counted, StoreTypes
      <3> QED  BY <2>1, <2>5, <3>1, OthersKeep DEF RecordDelivery, StoreTypes
    <2> QED  BY <1>6, <2>2, <2>3, <2>4, <2>5 DEF NotifyStep
  <1>7. CASE TaskStep
    <2>1. ASSUME NEW c \in Callers, NEW q \in Requests, NEW p \in Packets \cup {NoPacket}, Validate(c, q, p)
          PROVE  ConsentInv'
      <3>1. \A d \in Callers : caller'[d].of # NoPacket =>
                Acted(caller'[d].of)
        <4> DEFINE of == IF p = NoPacket THEN p ELSE Current(p)
        <4>1. caller'[c].of = of /\ \A d \in Callers : d # c => caller'[d].of = caller[d].of
          BY <2>1 DEF Validate, Idle, CallerTypes
        <4>2. of # NoPacket => Acted(of)
          <5> SUFFICES ASSUME p \in Packets, p # NoPacket
                       PROVE  Acted(Current(p))
            OBVIOUS
          <5>1. PacketIsConfirmed(p)
            BY <2>1 DEF Validate
          <5>2. Current(p)[1] = p /\ Current(p)[2] = made[p] /\ made[p] <= made[p]
            BY DispatcherConstants DEF Current, StoreTypes
          <5> QED  BY <5>1, <5>2, CurrentTypes DEF ConsentInv, Acted, Stands
        <4> HIDE DEF of
        <4> QED  BY <4>1, <4>2 DEF ConsentInv
      <3>2. UNCHANGED <<packet, made, registry, request, ledger, consent, deaths>>
        BY <2>1 DEF Validate
      <3>3. \A r \in Packets : Current(r)' = Current(r)
                               /\ PacketIsConfirmed(r)' = PacketIsConfirmed(r)
        BY <3>2 DEF Current, PacketIsConfirmed
      <3> QED  BY <1>0, <3>1, <3>2, <3>3 DEF ConsentInv, OnRecordOnce
    <2>2. ASSUME NEW c \in Callers, Submit(c)
          PROVE  ConsentInv'
      <3>1. \A d \in Callers : caller'[d].of = caller[d].of \/ caller'[d].of = NoPacket
        BY <2>2 DEF Submit, Idle, CallerTypes
      <3>2. \A q \in Requests : request'[q] = request[q] \/ request'[q] = [n |-> 1, of |-> caller[c].of]
        BY <2>2 DEF Submit, StoreTypes
      <3>3. \A q \in Requests : request'[q].of # NoPacket =>
                Acted(request'[q].of)
        BY <3>2 DEF ConsentInv
      <3>4. UNCHANGED <<packet, made, registry, ledger, consent, deaths>>
        BY <2>2 DEF Submit
      <3>5. \A p \in Packets : Current(p)' = Current(p)
                               /\ PacketIsConfirmed(p)' = PacketIsConfirmed(p)
        BY <3>4 DEF Current, PacketIsConfirmed
      <3> QED  BY <1>0, <3>1, <3>2, <3>3, <3>4, <3>5 DEF ConsentInv, OnRecordOnce
    <2>3. ASSUME NEW c \in Callers, NEW q \in Requests, RecoverStarts(c, q)
          PROVE  ConsentInv'
      <3>1. \A d \in Callers : caller'[d].of = caller[d].of \/ caller'[d].of = NoPacket
        BY <2>3 DEF RecoverStarts, Idle, CallerTypes
      <3> QED  BY <2>3, <3>1, OthersKeep DEF RecoverStarts, StoreTypes
    <2>4. ASSUME NEW c \in Callers, RecoverTurn(c)
          PROVE  ConsentInv'
      <3>1. \A d \in Callers : caller'[d].of = caller[d].of \/ caller'[d].of = NoPacket
        <4>1. CASE caller' = [caller EXCEPT ![c] = Idle]
          BY <4>1 DEF Idle, CallerTypes
        <4>2. CASE caller' = [caller EXCEPT ![c] = [caller[c] EXCEPT !.pc = "recovered"]]
          <5>1. [caller[c] EXCEPT !.pc = "recovered"].of = caller[c].of
            BY DEF CallerTypes, Jobs
          <5> QED  BY <4>2, <5>1 DEF CallerTypes
        <4> QED  BY <2>4, <4>1, <4>2 DEF RecoverTurn
      <3>2. caller[c].rq \in Keys
        BY <2>4 DEF RecoverTurn, Jobs, CallerTypes, Keys
      <3>3. deaths' >= deaths
        BY <2>4 DEF RecoverTurn, Counted, StoreTypes
      <3>4. CASE ledger' = Ingested(caller[c].rq)
        BY <1>4, <2>4, <3>1, <3>2, <3>3, <3>4 DEF RecoverTurn
      <3>5. CASE UNCHANGED ledger
        BY <2>4, <3>1, <3>3, <3>5, OthersKeep DEF RecoverTurn, StoreTypes
      <3> QED  BY <2>4, <3>4, <3>5 DEF RecoverTurn
    <2>5. ASSUME NEW c \in Callers, RecoverEnds(c)
          PROVE  ConsentInv'
      <3>1. \A d \in Callers : caller'[d].of = caller[d].of \/ caller'[d].of = NoPacket
        BY <2>5 DEF RecoverEnds, Idle, CallerTypes
      <3> QED  BY <2>5, <3>1, OthersKeep DEF RecoverEnds, StoreTypes
    <2> QED  BY <1>7, <2>1, <2>2, <2>3, <2>4, <2>5 DEF TaskStep
  <1>8. ASSUME NEW p \in Packets, Expire(p)
        PROVE  ConsentInv'
    <2>1. UNCHANGED <<packet, made, registry, request, ledger, consent, deaths, caller>>
      BY <1>8 DEF Expire
    <2>2. deaths' \in Nat /\ deaths' >= deaths /\ \A c \in Callers : caller'[c].of = caller[c].of
      BY <2>1 DEF StoreTypes
    <2> QED  BY <2>1, <2>2, OthersKeep
  <1>9. CASE UNCHANGED vars
    <2>1. deaths' \in Nat /\ deaths' >= deaths /\ \A c \in Callers : caller'[c].of = caller[c].of
      BY <1>9 DEF vars, StoreTypes
    <2> QED  BY <1>9, <2>1, OthersKeep DEF vars
  <1> QED  BY <1>1, <1>2, <1>3, <1>5, <1>6, <1>7, <1>8, <1>9 DEF Next, PacketStep

\* The invariant of this part
LEMMA ConsentHolds == Spec => [](StoreTypes /\ CallerTypes /\ ConsentInv)
  <1>1. Init => StoreTypes /\ CallerTypes /\ ConsentInv
    BY InitTypes, ConsentInit
  <1>2. (StoreTypes /\ CallerTypes /\ ConsentInv) /\ [Next]_vars
          => (StoreTypes /\ CallerTypes /\ ConsentInv)'
    BY TypesKept, ConsentKept
  <1> QED  BY <1>1, <1>2, PTL DEF Spec

(* What was dispatched or requested was confirmed, and the confirmation    *)
(* stands as long as no packet is made again with the same id.             *)
THEOREM Consented == Spec => []ConsentStands
  <1>1. StoreTypes /\ CallerTypes /\ ConsentInv => ConsentStands
    BY DEF ConsentInv, ConsentStands, Acted
  <1> QED  BY <1>1, ConsentHolds, PTL

(* Events and requests are on record once, dispatches once but for deaths. *)
THEOREM RecordedOnce == Spec => []OnRecordOnce
  <1>1. StoreTypes /\ CallerTypes /\ ConsentInv => OnRecordOnce
    BY DEF ConsentInv
  <1> QED  BY <1>1, ConsentHolds, PTL

-----------------------------------------------------------------------------
(* Notifications.  A record that a caller waits for has the caller's text, *)
(* and a record that is marked delivered, or about to be, was sent.        *)

DeliveryInv ==
    /\ NotifiedIsDelivered
    /\ \A c \in Callers : caller[c].pc = "notify" => outbox[caller[c].id].text = caller[c].text
    /\ \A c \in Callers : caller[c].done = "completed" => caller[c].id # 0
    /\ \A i \in 1..Len(outbox) : outbox[i].st = "delivered" => outbox[i].sent
    /\ bridge.id # 0 /\ bridge.out = "delivered" => outbox[bridge.id].sent

\* What the notifications leave alone, DeliveryInv does not see
LEMMA DeliveryOthers ==
    ASSUME CallerTypes, DeliveryInv, UNCHANGED <<outbox, bridge>>,
           NEW c \in Callers, NEW job,
           caller' = [caller EXCEPT ![c] = job], job.pc # "notify", job.done = "none"
    PROVE  DeliveryInv'
  BY DEF CallerTypes, DeliveryInv, NotifiedIsDelivered

\* A change of one letter that marks it delivered only when it was sent
LEMMA LetterKeepsDelivery ==
    ASSUME CallerTypes, DeliveryInv, UNCHANGED caller, Len(outbox') = Len(outbox),
           \A j \in 1..Len(outbox) :
              /\ outbox'[j].text = outbox[j].text
              /\ outbox[j].sent => outbox'[j].sent
              /\ outbox'[j].st = "delivered" => outbox'[j].sent,
           bridge'.id # 0 /\ bridge'.out = "delivered" => outbox'[bridge'.id].sent
    PROVE  DeliveryInv'
  <1>1. \A c \in Callers : caller[c].pc = "notify" => caller[c].id \in 1..Len(outbox)
    BY DEF CallerTypes, Jobs
  <1>2. \A c \in Callers : caller[c].done = "completed" => caller[c].id \in 1..Len(outbox)
    BY DEF CallerTypes, Jobs, DeliveryInv
  <1> QED  BY <1>1, <1>2 DEF DeliveryInv, NotifiedIsDelivered

\* Nothing is sent, awaited or reported at first
LEMMA DeliveryInit == Init => DeliveryInv
  BY DEF Init, DeliveryInv, NotifiedIsDelivered, Idle

\* Every step keeps what is known of deliveries
LEMMA DeliveryKept ==
    StoreTypes /\ CallerTypes /\ CallerTypes' /\ DeliveryInv /\ [Next]_vars => DeliveryInv'
  <1> SUFFICES ASSUME StoreTypes, CallerTypes, CallerTypes', DeliveryInv, [Next]_vars
               PROVE  DeliveryInv'
    OBVIOUS
  <1>1. CASE UNCHANGED <<outbox, bridge, caller>>
    BY <1>1 DEF DeliveryInv, NotifiedIsDelivered
  <1>2. CASE PacketStep \/ EventStep
    <2>1. UNCHANGED <<outbox, bridge, caller>>
      BY <1>2 DEF PacketStep, CreatePacket, DecidePacket, MarkDispatched, Expire, EventStep,
           IngestEvent, RecordEventStatus
    <2> QED  BY <1>1, <2>1
  <1>3. CASE NotifyStep
    <2>1. ASSUME NEW c \in Callers, NEW text \in Contents, Notify(c, text)
          PROVE  DeliveryInv'
      <3> PICK n \in Writes(2) :
            /\ outbox' = IF LimitReached(text) THEN outbox ELSE Append(outbox, Record(text))
            /\ caller' = [caller EXCEPT ![c] =
                  IF n < 2 THEN [Idle EXCEPT !.text = text, !.done = "failed"]
                  ELSE [Idle EXCEPT !.pc = "notify", !.text = text, !.id = RecordFor(text)]]
        BY <2>1 DEF Notify
      <3>1. UNCHANGED bridge
        BY <2>1 DEF Notify
      <3>2. /\ outbox' \in Seq(Letter) /\ Len(outbox') >= Len(outbox) /\ Len(outbox') \in Nat
            /\ outbox'[RecordFor(text)].text = text
            /\ \A j \in 1..Len(outbox) : outbox'[j] = outbox[j]
            /\ \A j \in 1..Len(outbox') : j \notin 1..Len(outbox) => outbox'[j].st = "queued"
        BY Enqueued DEF CallerTypes
      <3>3. \A d \in Callers : caller[d].pc = "notify" \/ caller[d].done = "completed"
                                => caller[d].id \in 1..Len(outbox)
        BY DEF CallerTypes, Jobs, DeliveryInv
      <3>4. bridge.id # 0 => bridge.id \in 1..Len(outbox)
        BY DEF CallerTypes
      <3>5. \A d \in Callers : d # c => caller'[d] = caller[d]
        OBVIOUS
      <3>6. /\ caller'[c].done # "completed"
            /\ caller'[c].pc = "notify" => caller'[c].id = RecordFor(text) /\ caller'[c].text = text
        BY DEF CallerTypes, Idle
      <3>7. NotifiedIsDelivered'
        BY <3>2, <3>3, <3>5, <3>6 DEF NotifiedIsDelivered, DeliveryInv
      <3>8. \A d \in Callers : caller'[d].pc = "notify" => outbox'[caller'[d].id].text = caller'[d].text
        <4> SUFFICES ASSUME NEW d \in Callers, caller'[d].pc = "notify"
                     PROVE  outbox'[caller'[d].id].text = caller'[d].text
          OBVIOUS
        <4>1. CASE d = c
          BY <3>2, <3>6, <4>1
        <4>2. CASE d # c
          <5>1. caller'[d] = caller[d] /\ caller[d].pc = "notify"
            BY <3>5, <4>2
          <5>2. outbox'[caller[d].id] = outbox[caller[d].id] /\ outbox[caller[d].id].text = caller[d].text
            BY <3>2, <3>3, <5>1 DEF DeliveryInv
          <5> QED  BY <5>1, <5>2
        <4> QED  BY <4>1, <4>2
      <3>9. \A d \in Callers : caller'[d].done = "completed" => caller'[d].id # 0
        BY <3>5, <3>6 DEF DeliveryInv
      <3>10. \A i \in 1..Len(outbox') : outbox'[i].st = "delivered" => outbox'[i].sent
        <4> TAKE i \in 1..Len(outbox')
        <4>1. CASE i \in 1..Len(outbox)
          BY <3>2, <4>1 DEF DeliveryInv
        <4>2. CASE i \notin 1..Len(outbox)
          BY <3>2, <4>2
        <4> QED  BY <4>1, <4>2
      <3>11. bridge'.id # 0 /\ bridge'.out = "delivered" => outbox'[bridge'.id].sent
        BY <3>1, <3>2, <3>4 DEF DeliveryInv
      <3> QED  BY <3>7, <3>8, <3>9, <3>10, <3>11 DEF DeliveryInv
    <2>2. ASSUME NEW c \in Callers, NotifyEnds(c)
          PROVE  DeliveryInv'
      <3>1. UNCHANGED <<outbox, bridge>>
        BY <2>2 DEF NotifyEnds
      <3>2. caller[c].id \in 1..Len(outbox) /\ outbox[caller[c].id].text = caller[c].text
        BY <2>2 DEF NotifyEnds, CallerTypes, Jobs, DeliveryInv
      <3>3. /\ caller'[c].pc = "idle" /\ caller'[c].id = caller[c].id
            /\ caller'[c].text = caller[c].text
            /\ caller'[c].done = "completed" => outbox[caller[c].id].st = "delivered"
        BY <2>2 DEF NotifyEnds, CallerTypes, Jobs
      <3>4. \A d \in Callers : d # c => caller'[d] = caller[d]
        BY <2>2 DEF NotifyEnds, CallerTypes
      <3> QED  BY <3>1, <3>2, <3>3, <3>4 DEF DeliveryInv, NotifiedIsDelivered
    <2>3. ASSUME NEW i \in 1..Len(outbox), BridgeSends(i)
          PROVE  DeliveryInv'
      <3>1. PICK out \in {"delivered", "failed", "retry_pending", "unknown", "expired"}, sent \in BOOLEAN :
              /\ out = "delivered" => sent
              /\ bridge' = [id |-> i, out |-> out, sends |-> bridge.sends + 1]
              /\ outbox' = [outbox EXCEPT ![i].sent = @ \/ sent]
        BY <2>3 DEF BridgeSends
      <3> DEFINE b == outbox[i].sent \/ sent
      <3>2. b \in BOOLEAN /\ outbox' = [outbox EXCEPT ![i].sent = b]
        BY <3>1
      <3>3. (outbox[i].sent => b) /\ (out = "delivered" => b)
        BY <3>1
      <3>4. "queued" \in Deliveries
        BY DEF Deliveries
      <3> HIDE DEF b
      <3>5. /\ Len(outbox') = Len(outbox)
            /\ \A j \in 1..Len(outbox) :
                 /\ outbox'[j].text = outbox[j].text /\ outbox'[j].st = outbox[j].st
                 /\ outbox'[j].sent = IF j = i THEN b ELSE outbox[j].sent
        BY <3>2, <3>4, OutboxChanged DEF CallerTypes
      <3>6. UNCHANGED caller
        BY <2>3 DEF BridgeSends
      <3>7. \A j \in 1..Len(outbox) : outbox'[j].sent <=> IF j = i THEN b ELSE outbox[j].sent
        BY <3>5
      <3>8. \A j \in 1..Len(outbox) : /\ outbox[j].sent => outbox'[j].sent
                                      /\ outbox'[j].st = "delivered" => outbox'[j].sent
        BY <3>3, <3>5, <3>7 DEF DeliveryInv
      <3>9. bridge'.id # 0 /\ bridge'.out = "delivered" => outbox'[bridge'.id].sent
        BY <3>1, <3>3, <3>7
      <3> QED  BY <3>5, <3>6, <3>8, <3>9, LetterKeepsDelivery
    <2>4. ASSUME RecordDelivery
          PROVE  DeliveryInv'
      <3>1. UNCHANGED caller /\ bridge'.id = 0
        BY <2>4 DEF RecordDelivery, CallerTypes
      <3>2. bridge.id \in 1..Len(outbox) /\ bridge.out \in Deliveries
        BY <2>4 DEF RecordDelivery, CallerTypes
      <3>3. CASE UNCHANGED outbox
        BY <3>1, <3>3, LetterKeepsDelivery DEF DeliveryInv
      <3>4. CASE outbox' = [outbox EXCEPT ![bridge.id].st = bridge.out, ![bridge.id].tries = @ + 1]
        <4>1. /\ Len(outbox') = Len(outbox)
              /\ \A j \in 1..Len(outbox) :
                   /\ outbox'[j].text = outbox[j].text /\ outbox'[j].sent = outbox[j].sent
                   /\ outbox'[j].st = IF j = bridge.id THEN bridge.out ELSE outbox[j].st
          BY <3>2, <3>4, OutboxChanged, TRUE \in BOOLEAN DEF CallerTypes
        <4>2. \A j \in 1..Len(outbox) : outbox[j].sent => outbox'[j].sent
          BY <4>1
        <4>3. \A j \in 1..Len(outbox) : outbox'[j].st = "delivered" => outbox[j].sent
          BY <3>2, <4>1 DEF DeliveryInv
        <4> QED  BY <3>1, <4>1, <4>2, <4>3, LetterKeepsDelivery
      <3> QED  BY <2>4, <3>3, <3>4 DEF RecordDelivery
    <2> QED  BY <1>3, <2>1, <2>2, <2>3, <2>4 DEF NotifyStep
  <1>4. CASE TaskStep
    <2>1. UNCHANGED <<outbox, bridge>>
      BY <1>4 DEF TaskStep, Validate, Submit, RecoverStarts, RecoverTurn, RecoverEnds
    <2>2. ASSUME NEW c \in Callers, RecoverTurn(c)
          PROVE  DeliveryInv'
      <3>1. CASE caller' = [caller EXCEPT ![c] = Idle]
        <4>1. Idle.pc # "notify" /\ Idle.done = "none"
          BY DEF Idle
        <4> QED  BY <2>1, <3>1, <4>1, DeliveryOthers
      <3>2. CASE caller' = [caller EXCEPT ![c] = [caller[c] EXCEPT !.pc = "recovered"]]
        <4>1. caller[c].done = "none" /\ caller[c] \in Jobs
          BY <2>2 DEF RecoverTurn, CallerTypes, Jobs
        <4>2. /\ [caller[c] EXCEPT !.pc = "recovered"].pc = "recovered"
              /\ [caller[c] EXCEPT !.pc = "recovered"].done = "none"
          BY <4>1 DEF Jobs
        <4> QED  BY <2>1, <3>2, <4>2, DeliveryOthers
      <3> QED  BY <2>2, <3>1, <3>2 DEF RecoverTurn
    <2>3. ASSUME NEW c \in Callers, NEW q \in Requests, NEW p \in Packets \cup {NoPacket}, Validate(c, q, p)
          PROVE  DeliveryInv'
      <3> DEFINE job == [Idle EXCEPT !.pc = "submit",
                                     !.of = IF p = NoPacket THEN p ELSE Current(p), !.rq = q]
      <3>1. job.pc = "submit" /\ job.done = "none"
        BY DEF Idle
      <3>2. caller' = [caller EXCEPT ![c] = job]
        BY <2>3 DEF Validate
      <3> HIDE DEF job
      <3> QED  BY <2>1, <3>1, <3>2, DeliveryOthers
    <2>4. ASSUME NEW c \in Callers, NEW q \in Requests, RecoverStarts(c, q)
          PROVE  DeliveryInv'
      <3> DEFINE job == [Idle EXCEPT !.pc = "recover", !.rq = q]
      <3>1. job.pc = "recover" /\ job.done = "none"
        BY DEF Idle
      <3>2. caller' = [caller EXCEPT ![c] = job]
        BY <2>4 DEF RecoverStarts
      <3> HIDE DEF job
      <3> QED  BY <2>1, <3>1, <3>2, DeliveryOthers
    <2>5. ASSUME NEW c \in Callers, Submit(c) \/ RecoverEnds(c)
          PROVE  DeliveryInv'
      <3>1. caller' = [caller EXCEPT ![c] = Idle]
        BY <2>5 DEF Submit, RecoverEnds
      <3>2. Idle.pc # "notify" /\ Idle.done = "none"
        BY DEF Idle
      <3> QED  BY <2>1, <3>1, <3>2, DeliveryOthers
    <2> QED  BY <1>4, <2>2, <2>3, <2>4, <2>5 DEF TaskStep
  <1> QED  BY <1>1, <1>2, <1>3, <1>4 DEF Next, vars

(* A notification that is reported completed reached Feishu with its text. *)
THEOREM Notified == Spec => []NotifiedIsDelivered
  <1>1. Init => StoreTypes /\ CallerTypes /\ DeliveryInv
    BY InitTypes, DeliveryInit
  <1>2. (StoreTypes /\ CallerTypes /\ DeliveryInv) /\ [Next]_vars
          => (StoreTypes /\ CallerTypes /\ DeliveryInv)'
    BY TypesKept, DeliveryKept
  <1>3. StoreTypes /\ CallerTypes /\ DeliveryInv => NotifiedIsDelivered
    BY DEF DeliveryInv
  <1> QED  BY <1>1, <1>2, <1>3, PTL DEF Spec

=============================================================================
