------------------------------ MODULE Loop_proofs ------------------------------
(***************************************************************************)
(* One loop, proved for any slots, rounds and mixes: the types, that the   *)
(* Holds of a slot share its rounds, that a loop cleaned up has released   *)
(* the Holds it names, and that a stop is final.                           *)
(***************************************************************************)
EXTENDS Loop, TLAPS, WellFoundedInduction

-----------------------------------------------------------------------------
(* The inductive invariant.  What a copy of the state says of the Holds is *)
(* still true of them later, since a Hold only ever grows.                 *)

HoldRecs == [st: {"none", "running", "ok", "bad"}, turns: 0..MaxRounds, rel: BOOLEAN, bound: BOOLEAN]
Holds    == [Slots -> [Offsets -> HoldRecs]]
ChildReports == {"none", "pending", "failed", "managed", "completed"}
Cleanups == [on: BOOLEAN, target: Ended \cup {""}, done: BOOLEAN, beat: BOOLEAN]
Closes   == [on: BOOLEAN, report: Reports, child: [Slots -> [Offsets -> ChildReports]]]
Ops      == {"", "beat", "status", "stop", "close"}
Frames   == [up: BOOLEAN, pc: Places, op: Ops, st: State, todo: SUBSET Slots, changed: BOOLEAN,
             target: Ended \cup {""}, won: BOOLEAN, row: Row]
Envs     == [expired: BOOLEAN, commands: Nat, crashes: Nat, failures: Nat]
Works    == Places \ {"idle", "claim", "recording", "writing"}

\* What of a Hold lasts
Grown(a, b) ==
    /\ a.st # "none" => b.st # "none"
    /\ a.st = "ok" => b.st = "ok" /\ b.turns = a.turns
    /\ a.turns <= b.turns
    /\ a.rel => b.rel
Grows(hs, ks) == \A s \in Slots, o \in Offsets : Grown(hs[s][o], ks[s][o])

\* A slot's Holds: each has its budget, and one that is followed by another
\* has run all of it and is followed at once; the first is at 0.
Ordered(h) ==
    \A o \in Offsets :
      /\ h[o].turns <= Budget(o)
      /\ h[o].st = "none" => h[o].turns = 0
      /\ h[o].st # "none" => h[0].st # "none"
      /\ \A q \in Offsets :
           q < o /\ h[o].st # "none" /\ h[q].st # "none" =>
             /\ h[q].st = "ok" /\ h[q].turns = Budget(q)
             /\ q + Budget(q) <= o
             /\ h[q + Budget(q)].st # "none"

\* A child's Hold was started, was released if the child says so, and has run
\* the turns that the child counts.
ChildKnown(c, h) ==
    c.hold # NoHold =>
      /\ c.hold = c.done /\ h[c.hold].st # "none"
      /\ c.rel => h[c.hold].rel
      /\ c.round <= Larger(1, c.done + h[c.hold].turns)

ReportsKnown(r, h) == \A o \in Offsets : r[o] = "completed" => h[o].rel

CleanupKnown(c) == (c.on => c.target \in Ended) /\ (c.beat => c.on)

Known(st, hs) ==
    /\ \A s \in Slots : ChildKnown(st.children[s], hs[s])
    /\ \A s \in Slots : ReportsKnown(st.close.child[s], hs[s])
    /\ CleanupKnown(st.cleanup)

Sound(st, hs) == st \in State /\ Known(st, hs)

\* A child that is about to be given its next Hold has used up the last one.
Rotates(c, h) ==
    /\ mix.mode = "rotating" /\ c.hold # NoHold
    /\ h[c.hold].st = "ok" /\ h[c.hold].turns = Budget(c.hold)
    /\ c.round = c.hold + Budget(c.hold) /\ c.round < MaxRounds

Fits(f, hs) ==
    /\ f \in Frames
    /\ Known(f.st, hs)
    /\ f.todo \subseteq Held(f.st)
    /\ f.pc \in Works => f.st.on
    /\ f.pc = "latch" => f.target \in Ended
    /\ f.pc \in {"cancel", "drain"} => f.st.cleanup.on
    /\ f.pc = "rotate" => \E s \in f.todo : /\ \A t \in f.todo : s <= t
                                            /\ Rotates(f.st.children[s], hs[s])

\* Nothing but start works on a loop that is not on record.
Starting ==
    /\ ~store.on => ~Stopped(store) /\ proc["host"].pc \notin Works
    /\ proc["mcp"].pc = "create" => ~store.on
    /\ proc["mcp"].pc = "reload" => store.on
    /\ proc["host"].pc # "create"

Inv ==
    /\ mix \in Mixes
    /\ Sound(store, hold)
    /\ proc \in [Procs -> Frames] /\ \A p \in Procs : Fits(proc[p], hold)
    /\ hold \in Holds /\ \A s \in Slots : Ordered(hold[s])
    /\ beat \in Row
    /\ env \in Envs
    /\ Starting

-----------------------------------------------------------------------------
(* Holds grow.                                                             *)

\* The parts of a state
LEMMA StateTyped ==
    ASSUME NEW st \in State
    PROVE  /\ st.on \in BOOLEAN /\ st.named \in BOOLEAN /\ st.status \in Statuses /\ st.children \in [Slots -> Child]
           /\ st.cleanup \in Cleanups /\ st.close \in Closes
  BY DEF State, Cleanups, Closes, ChildReports

\* A Hold that is there grows into itself
LEMMA SameGrows ==
    ASSUME NEW hs \in Holds
    PROVE  Grows(hs, hs)
  BY DEF Grows, Grown, Holds, HoldRecs

\* What a child knows stays true
LEMMA ChildStays ==
    ASSUME NEW h \in [Offsets -> HoldRecs], NEW k \in [Offsets -> HoldRecs],
           \A o \in Offsets : Grown(h[o], k[o]),
           NEW c \in Child, ChildKnown(c, h)
    PROVE  ChildKnown(c, k)
  <1> SUFFICES ASSUME c.hold # NoHold PROVE ChildKnown(c, k)
    BY DEF ChildKnown
  <1>1. c.hold \in Offsets /\ c.done \in Offsets
    BY DEF Child
  <1> DEFINE a == h[c.hold]  b == k[c.hold]
  <1>2. Grown(a, b) /\ a \in HoldRecs /\ b \in HoldRecs
    BY <1>1
  <1>3. c.hold = c.done /\ a.st # "none" /\ (c.rel => a.rel) /\ c.round <= Larger(1, c.done + a.turns)
    BY DEF ChildKnown
  <1>4. c.round \in Int /\ c.done \in Int /\ a.turns \in Int /\ b.turns \in Int
    BY <1>2, LoopConstants DEF Child, HoldRecs, Offsets
  <1> HIDE DEF a, b
  <1>5. b.st # "none" /\ a.turns <= b.turns /\ (a.rel => b.rel)
    BY <1>2, <1>3 DEF Grown
  <1>6. c.round <= Larger(1, c.done + b.turns)
    BY <1>3, <1>4, <1>5 DEF Larger
  <1> QED  BY <1>3, <1>5, <1>6 DEF ChildKnown, a, b

\* What a state knows stays true
LEMMA KnownStays ==
    ASSUME NEW hs \in Holds, NEW ks \in Holds, Grows(hs, ks), NEW st \in State, Known(st, hs)
    PROVE  Known(st, ks)
  <1>1. ASSUME NEW s \in Slots PROVE ChildKnown(st.children[s], ks[s])
    <2>1. st.children[s] \in Child /\ hs[s] \in [Offsets -> HoldRecs] /\ ks[s] \in [Offsets -> HoldRecs]
      BY StateTyped DEF Holds
    <2>2. ChildKnown(st.children[s], hs[s]) /\ \A o \in Offsets : Grown(hs[s][o], ks[s][o])
      BY DEF Known, Grows
    <2> QED  BY <2>1, <2>2, ChildStays
  <1>2. ASSUME NEW s \in Slots PROVE ReportsKnown(st.close.child[s], ks[s])
    BY DEF Known, ReportsKnown, Grows, Grown
  <1> QED  BY <1>1, <1>2 DEF Known

\* What a process knows stays true
LEMMA FitsStays ==
    ASSUME NEW hs \in Holds, NEW ks \in Holds, Grows(hs, ks), NEW f, Fits(f, hs)
    PROVE  Fits(f, ks)
  <1>1. f \in Frames /\ f.st \in State /\ Known(f.st, ks)
    BY KnownStays DEF Fits, Frames
  <1>2. ASSUME NEW s \in f.todo, Rotates(f.st.children[s], hs[s]) PROVE Rotates(f.st.children[s], ks[s])
    <2>1. s \in Slots /\ f.st.children[s] \in Child
      BY <1>1, StateTyped DEF Fits, Frames
    <2>2. f.st.children[s].hold \in Offsets
      BY <1>2, <2>1 DEF Rotates, Child
    <2> QED  BY <1>2, <2>1, <2>2 DEF Rotates, Grows, Grown
  <1> QED  BY <1>1, <1>2 DEF Fits
-----------------------------------------------------------------------------
(* The state's own rules.                                                  *)

\* What no rule of the state undoes
Keeps(a, b) ==
    /\ b.on = a.on /\ b.close.on = a.close.on
    /\ b.cleanup.on = a.cleanup.on /\ b.cleanup.target = a.cleanup.target

\* A status
LEMMA StatusSound ==
    ASSUME NEW hs, NEW st, Sound(st, hs), NEW x \in Statuses
    PROVE  /\ Sound([st EXCEPT !.status = x], hs)
           /\ Keeps(st, [st EXCEPT !.status = x])
           /\ [st EXCEPT !.status = x].children = st.children
  <1> DEFINE t == [st EXCEPT !.status = x]
  <1>1. t \in State
    BY ZenonT(30) DEF Sound, State
  <1>2. t.on = st.on /\ t.children = st.children /\ t.cleanup = st.cleanup /\ t.close = st.close
    BY DEF Sound, State
  <1> HIDE DEF t
  <1>3. Sound(t, hs) /\ Keeps(st, t)
    BY <1>1, <1>2 DEF Sound, Known, Keeps
  <1> QED  BY <1>2, <1>3 DEF t

\* The children
LEMMA ChildrenSound ==
    ASSUME NEW hs, NEW st, Sound(st, hs), NEW f \in [Slots -> Child],
           \A s \in Slots : ChildKnown(f[s], hs[s])
    PROVE  /\ Sound([st EXCEPT !.children = f], hs)
           /\ Keeps(st, [st EXCEPT !.children = f])
           /\ [st EXCEPT !.children = f].children = f
           /\ [st EXCEPT !.children = f].close = st.close
           /\ [st EXCEPT !.children = f].status = st.status
  <1> DEFINE t == [st EXCEPT !.children = f]
  <1>1. t \in State
    BY ZenonT(30) DEF Sound, State
  <1>2. t.on = st.on /\ t.children = f /\ t.cleanup = st.cleanup /\ t.close = st.close /\ t.status = st.status
    BY DEF Sound, State
  <1> HIDE DEF t
  <1>3. Sound(t, hs) /\ Keeps(st, t)
    BY <1>1, <1>2 DEF Sound, Known, Keeps
  <1> QED  BY <1>2, <1>3 DEF t

\* The children's reports
LEMMA ReportsSound ==
    ASSUME NEW hs, NEW st, Sound(st, hs), NEW r \in [Slots -> [Offsets -> ChildReports]],
           \A s \in Slots : ReportsKnown(r[s], hs[s])
    PROVE  /\ Sound([st EXCEPT !.close.child = r], hs)
           /\ Keeps(st, [st EXCEPT !.close.child = r])
           /\ [st EXCEPT !.close.child = r].children = st.children
           /\ [st EXCEPT !.close.child = r].close.child = r
  <1> DEFINE t == [st EXCEPT !.close.child = r]
             cl == [st.close EXCEPT !.child = r]
  <1>1. cl \in Closes
    <2>1. st.close \in Closes
      BY StateTyped DEF Sound
    <2> QED  BY <2>1, ZenonT(30) DEF Closes
  <1>2. cl.child = r /\ cl.on = st.close.on
    BY StateTyped DEF Sound, Closes
  <1>3. t = [st EXCEPT !.close = cl]
    OBVIOUS
  <1> HIDE DEF cl
  <1>4. t \in State
    BY <1>1, <1>3, ZenonT(30) DEF Sound, State, Closes, ChildReports
  <1>5. t.on = st.on /\ t.children = st.children /\ t.cleanup = st.cleanup /\ t.close = cl
    BY <1>3 DEF Sound, State
  <1> HIDE DEF t
  <1>6. Sound(t, hs) /\ Keeps(st, t)
    BY <1>2, <1>4, <1>5 DEF Sound, Known, Keeps
  <1> QED  BY <1>2, <1>5, <1>6 DEF t

\* The cleanup
LEMMA CleanupSound ==
    ASSUME NEW hs, NEW st, Sound(st, hs), NEW c \in Cleanups, CleanupKnown(c)
    PROVE  /\ Sound([st EXCEPT !.cleanup = c], hs)
           /\ [st EXCEPT !.cleanup = c].on = st.on
           /\ [st EXCEPT !.cleanup = c].close = st.close
           /\ [st EXCEPT !.cleanup = c].cleanup = c
           /\ [st EXCEPT !.cleanup = c].children = st.children
  <1> DEFINE t == [st EXCEPT !.cleanup = c]
  <1>1. t \in State
    BY ZenonT(30) DEF Sound, State, Cleanups
  <1>2. t.on = st.on /\ t.children = st.children /\ t.cleanup = c /\ t.close = st.close
    BY DEF Sound, State
  <1> HIDE DEF t
  <1>3. Sound(t, hs)
    BY <1>1, <1>2 DEF Sound, Known
  <1> QED  BY <1>2, <1>3 DEF t

\* A verdict on the cleanup: its report, whether it is done, and the status
LEMMA VerdictSound ==
    ASSUME NEW hs, NEW st, Sound(st, hs), NEW r \in Reports, NEW d \in BOOLEAN, NEW x \in Statuses,
           NEW t, t = [st EXCEPT !.close = [@ EXCEPT !.report = r], !.cleanup = [@ EXCEPT !.done = d], !.status = x]
    PROVE  Sound(t, hs) /\ Keeps(st, t)
  <1> DEFINE cl == [st.close EXCEPT !.report = r]
             cn == [st.cleanup EXCEPT !.done = d]
  <1>1. st.close \in Closes /\ st.cleanup \in Cleanups
    BY StateTyped DEF Sound
  <1>2. cl \in Closes /\ cn \in Cleanups
    BY <1>1, ZenonT(30) DEF Closes, Cleanups
  <1>3. cl.child = st.close.child /\ cl.on = st.close.on /\ cn.on = st.cleanup.on
        /\ cn.target = st.cleanup.target /\ cn.beat = st.cleanup.beat
    BY <1>1 DEF Closes, Cleanups
  <1>4. t = [st EXCEPT !.close = cl, !.cleanup = cn, !.status = x]
    OBVIOUS
  <1> HIDE DEF cl, cn
  <1>5. t \in State
    BY <1>2, <1>4, ZenonT(30) DEF Sound, State, Closes, ChildReports, Cleanups
  <1>6. t.on = st.on /\ t.children = st.children /\ t.cleanup = cn /\ t.close = cl
    BY <1>4 DEF Sound, State
  <1> QED  BY <1>3, <1>5, <1>6 DEF Sound, Known, CleanupKnown, Keeps

\* _aggregate_close_reports
LEMMA AggregatedSound ==
    ASSUME NEW hs, NEW st, Sound(st, hs)
    PROVE  Sound(Aggregated(st), hs) /\ Keeps(st, Aggregated(st))
  <1> DEFINE reports == {ReportOf(st, s) : s \in Held(st)}
             managed == reports \subseteq {"managed", "completed"}
             complete == reports \subseteq {"completed"}
             r == IF "failed" \in reports THEN "failed" ELSE IF complete THEN "completed"
                  ELSE IF managed THEN "unresolved" ELSE "pending"
             d == st.cleanup.done \/ complete
             x == IF complete THEN st.cleanup.target
                  ELSE IF managed THEN "closed_unconfirmed" ELSE st.status
  <1>1. CASE reports = {} \/ "none" \in reports \/ ~st.cleanup.beat
    <2>1. Aggregated(st) = st
      BY <1>1 DEF Aggregated
    <2> QED  BY <2>1 DEF Keeps
  <1>2. CASE ~(reports = {} \/ "none" \in reports \/ ~st.cleanup.beat)
    <2>1. Aggregated(st) = [st EXCEPT !.close = [@ EXCEPT !.report = r], !.cleanup = [@ EXCEPT !.done = d], !.status = x]
      BY <1>2 DEF Aggregated
    <2>2. st.cleanup.target \in Ended /\ st.status \in Statuses /\ st.cleanup.done \in BOOLEAN
      BY <1>2, StateTyped DEF Sound, Known, CleanupKnown, Cleanups
    <2>3. x \in Statuses
      BY <2>2 DEF Statuses
    <2>4. r \in Reports
      BY DEF Reports
    <2>5. d \in BOOLEAN
      BY <2>2
    <2> HIDE DEF r, d, x
    <2> QED  BY <2>1, <2>3, <2>4, <2>5, VerdictSound
  <1> QED  BY <1>1, <1>2

\* record_child_close: a report says completed of a released Hold alone
LEMMA WithReportsSound ==
    ASSUME NEW hs \in Holds, NEW st, Sound(st, hs), NEW bound, NEW report,
           DOMAIN report \subseteq Slots,
           \A s \in DOMAIN report :
             /\ report[s] \in ChildReports
             /\ bound[s] \in Offsets
             /\ report[s] = "completed" => hs[s][bound[s]].rel
    PROVE  /\ Sound(WithReports(st, bound, report), hs)
           /\ Keeps(st, WithReports(st, bound, report))
  <1> DEFINE new == {s \in DOMAIN report : /\ st.close.on /\ st.children[s].hold = bound[s]
                                           /\ ReportOf(st, s) # "completed"}
             r == [s \in Slots |-> IF s \in new THEN [st.close.child[s] EXCEPT ![bound[s]] = report[s]]
                                                ELSE st.close.child[s]]
             f == [s \in Slots |-> IF s \in new THEN [st.children[s] EXCEPT !.rel = report[s] = "completed"]
                                                ELSE st.children[s]]
             st1 == [st EXCEPT !.close.child = r]
             st2 == [st1 EXCEPT !.children = f]
  <1>1. CASE new = {}
    <2>1. WithReports(st, bound, report) = st
      BY <1>1 DEF WithReports
    <2> QED  BY <2>1 DEF Keeps
  <1>2. CASE new # {}
    <2>1. WithReports(st, bound, report) = Aggregated(st2)
      BY <1>2 DEF WithReports
    <2>2. \A s \in Slots : /\ st.children[s] \in Child /\ st.close.child[s] \in [Offsets -> ChildReports]
                           /\ ChildKnown(st.children[s], hs[s]) /\ ReportsKnown(st.close.child[s], hs[s])
      BY StateTyped DEF Sound, Known, Closes
    <2>3. \A s \in new : /\ s \in Slots /\ report[s] \in ChildReports /\ bound[s] \in Offsets
                         /\ (report[s] = "completed" => hs[s][bound[s]].rel)
                         /\ st.children[s].hold = bound[s]
      OBVIOUS
    <2> HIDE DEF new
    <2>4. ASSUME NEW s \in Slots
          PROVE  r[s] \in [Offsets -> ChildReports] /\ ReportsKnown(r[s], hs[s])
      <3>1. CASE s \in new
        <4>1. r[s] = [st.close.child[s] EXCEPT ![bound[s]] = report[s]]
          BY <3>1
        <4> HIDE DEF r
        <4>2. r[s] \in [Offsets -> ChildReports]
          BY <2>2, <2>3, <3>1, <4>1
        <4>3. \A o \in Offsets : r[s][o] = IF o = bound[s] THEN report[s] ELSE st.close.child[s][o]
          BY <2>2, <4>1
        <4> QED  BY <2>2, <2>3, <3>1, <4>2, <4>3 DEF ReportsKnown
      <3>2. CASE s \notin new
        BY <2>2, <3>2
      <3> QED  BY <3>1, <3>2
    <2>5. ASSUME NEW s \in Slots
          PROVE  f[s] \in Child /\ ChildKnown(f[s], hs[s])
      <3>1. CASE s \in new
        <4> DEFINE c == st.children[s]
                   x == report[s] = "completed"
        <4>1. f[s] = [c EXCEPT !.rel = x]
          BY <3>1
        <4>2. c \in Child /\ ChildKnown(c, hs[s]) /\ x \in BOOLEAN /\ (x => hs[s][bound[s]].rel) /\ c.hold = bound[s]
          BY <2>2, <2>3, <3>1
        <4> HIDE DEF f, c, x
        <4>3. f[s] \in Child
          BY <4>1, <4>2, ZenonT(30) DEF Child
        <4>4. f[s].hold = c.hold /\ f[s].done = c.done /\ f[s].round = c.round /\ f[s].rel = x
          BY <4>1, <4>2 DEF Child
        <4> QED  BY <4>2, <4>3, <4>4 DEF ChildKnown
      <3>2. CASE s \notin new
        BY <2>2, <3>2
      <3> QED  BY <3>1, <3>2
    <2>6. r \in [Slots -> [Offsets -> ChildReports]] /\ f \in [Slots -> Child]
      BY <2>4, <2>5
    <2>7. \A s \in Slots : ReportsKnown(r[s], hs[s]) /\ ChildKnown(f[s], hs[s])
      BY <2>4, <2>5
    <2> HIDE DEF r, f
    <2>8. Sound(st1, hs) /\ Keeps(st, st1)
      BY <2>6, <2>7, ReportsSound
    <2> HIDE DEF st1
    <2>9. Sound(st2, hs) /\ Keeps(st1, st2)
      BY <2>6, <2>7, <2>8, ChildrenSound
    <2> HIDE DEF st2
    <2>10. Sound(Aggregated(st2), hs) /\ Keeps(st2, Aggregated(st2))
      BY <2>9, AggregatedSound
    <2> QED  BY <2>1, <2>8, <2>9, <2>10 DEF Keeps
  <1> QED  BY <1>1, <1>2

\* save: what an intent on record says outlives an older copy
LEMMA MergedSound ==
    ASSUME NEW hs \in Holds, NEW latest, NEW copy, Sound(latest, hs), Sound(copy, hs)
    PROVE  /\ Sound(Merged(latest, copy), hs)
           /\ \/ latest.on /\ Merged(latest, copy) = latest
              \/ /\ Keeps(copy, Merged(latest, copy))
                 /\ ~latest.on \/ ~Loses(latest, copy)
  <1> DEFINE r == latest.close.child
             st == [copy EXCEPT !.close.child = r]
             f == [s \in Slots |-> IF s \in Held(st) /\ ReportOf(st, s) # "none"
                     THEN [st.children[s] EXCEPT !.rel = ReportOf(st, s) = "completed"]
                     ELSE st.children[s]]
             st2 == [st EXCEPT !.children = f]
  <1>1. \/ latest.on /\ Merged(latest, copy) = latest
        \/ Merged(latest, copy) \in {copy, Aggregated(st2)} /\ (~latest.on \/ ~Loses(latest, copy))
    BY DEF Merged
  <1>2. r \in [Slots -> [Offsets -> ChildReports]] /\ \A s \in Slots : ReportsKnown(r[s], hs[s])
    BY StateTyped DEF Sound, Known, Closes
  <1> HIDE DEF r
  <1>3. Sound(st, hs) /\ st.close.child = r /\ Keeps(copy, st)
    BY <1>2, ReportsSound
  <1>4. \A s \in Slots : ReportOf(st, s) = r[s][st.children[s].hold]
    BY <1>3 DEF ReportOf
  <1> HIDE DEF st
  <1>5. ASSUME NEW s \in Slots
        PROVE  f[s] \in Child /\ ChildKnown(f[s], hs[s])
    <2> DEFINE c == st.children[s]
               x == ReportOf(st, s) = "completed"
    <2>1. c \in Child /\ ChildKnown(c, hs[s])
      BY <1>3, StateTyped DEF Sound, Known
    <2>2. CASE s \in Held(st) /\ ReportOf(st, s) # "none"
      <3>1. f[s] = [c EXCEPT !.rel = x] /\ x \in BOOLEAN /\ c.hold # NoHold
        BY <2>2 DEF Held
      <3>2. c.hold \in Offsets
        BY <2>1, <3>1 DEF Child
      <3>3. x => hs[s][c.hold].rel
        BY <1>2, <1>4, <3>2 DEF ReportsKnown
      <3> HIDE DEF f, c, x
      <3>4. f[s] \in Child
        BY <2>1, <3>1, ZenonT(30) DEF Child
      <3>5. f[s].hold = c.hold /\ f[s].done = c.done /\ f[s].round = c.round /\ f[s].rel = x
        BY <2>1, <3>1 DEF Child
      <3> QED  BY <2>1, <3>3, <3>4, <3>5 DEF ChildKnown
    <2>3. CASE ~(s \in Held(st) /\ ReportOf(st, s) # "none")
      BY <2>1, <2>3
    <2> QED  BY <2>2, <2>3
  <1>6. f \in [Slots -> Child] /\ \A s \in Slots : ChildKnown(f[s], hs[s])
    BY <1>5
  <1> HIDE DEF f
  <1>7. Sound(st2, hs) /\ Keeps(st, st2)
    BY <1>3, <1>6, ChildrenSound
  <1> HIDE DEF st2
  <1>8. Sound(Aggregated(st2), hs) /\ Keeps(st2, Aggregated(st2))
    BY <1>7, AggregatedSound
  <1>9. Keeps(copy, Aggregated(st2)) /\ Keeps(copy, copy)
    BY <1>3, <1>7, <1>8 DEF Keeps
  <1> QED  BY <1>1, <1>8, <1>9

\* An intent on record is not undone
LEMMA MergedKeeps ==
    ASSUME NEW hs \in Holds, NEW latest, NEW copy, Sound(latest, hs), Sound(copy, hs),
           ~latest.on => ~Stopped(latest), copy.on
    PROVE  /\ Merged(latest, copy).on
           /\ latest.close.on => Merged(latest, copy).close.on
           /\ latest.cleanup.on => /\ Merged(latest, copy).cleanup.on
                                  /\ Merged(latest, copy).cleanup.target = latest.cleanup.target
  <1> DEFINE m == Merged(latest, copy)
  <1>1. \/ latest.on /\ m = latest
        \/ Keeps(copy, m) /\ (~latest.on \/ ~Loses(latest, copy))
    BY MergedSound
  <1> HIDE DEF m
  <1>2. CASE latest.on /\ m = latest
    BY <1>2 DEF m
  <1>3. CASE Keeps(copy, m) /\ ~latest.on
    BY <1>3 DEF Keeps, Stopped, m
  <1>4. CASE Keeps(copy, m) /\ ~Loses(latest, copy)
    BY <1>4 DEF Keeps, Loses, m
  <1> QED  BY <1>1, <1>2, <1>3, <1>4

-----------------------------------------------------------------------------
(* Children.                                                               *)

\* A Hold's budget
LEMMA BudgetTyped ==
    ASSUME mix \in Mixes, NEW o \in Offsets
    PROVE  Budget(o) \in Nat /\ Budget(o) >= 1 /\ o \in Nat /\ o + Budget(o) <= MaxRounds
  <1>1. mix.mode \in {"rotating", "holder", "manual"}
    BY LoopConstants DEF MixType
  <1>2. MaxRounds \in Nat /\ PerThread \in Nat /\ PerThread >= 1 /\ o \in Nat /\ o + 1 <= MaxRounds
    BY LoopConstants DEF Offsets
  <1> QED  BY <1>1, <1>2 DEF Budget, Smaller

\* The rounds that a child counts
LEMMA RoundsKnown ==
    ASSUME mix \in Mixes, NEW h \in [Offsets -> HoldRecs], Ordered(h),
           NEW c \in Child, ChildKnown(c, h), c.hold # NoHold, NEW n,
           n \in {c.round, Larger(c.round, c.done + h[c.hold].turns), 1}
    PROVE  n \in 0..MaxRounds /\ n <= Larger(1, c.done + h[c.hold].turns)
  <1>1. c.hold \in Offsets /\ c.hold = c.done /\ c.round \in 0..MaxRounds
    BY DEF Child, ChildKnown
  <1> DEFINE t == h[c.hold].turns
             b == Budget(c.hold)
  <1>2. t \in 0..MaxRounds /\ t <= b
    BY <1>1 DEF Ordered, HoldRecs
  <1>3. b \in Nat /\ c.done + b <= MaxRounds /\ c.done \in Nat /\ b >= 1
    BY <1>1, BudgetTyped
  <1>4. c.round <= Larger(1, c.done + t)
    BY DEF ChildKnown
  <1>5. n \in {c.round, Larger(c.round, c.done + t), 1}
    OBVIOUS
  <1> HIDE DEF t, b
  <1>6. n \in 0..MaxRounds /\ n <= Larger(1, c.done + t)
    BY <1>1, <1>2, <1>3, <1>4, <1>5, LoopConstants DEF Larger
  <1> QED  BY <1>6 DEF t

\* A look at a child's Hold
LEMMA SeenKnown ==
    ASSUME mix \in Mixes, NEW h \in [Offsets -> HoldRecs], Ordered(h),
           NEW c \in Child, ChildKnown(c, h), c.hold # NoHold
    PROVE  Seen(c, h[c.hold]) \in Child /\ ChildKnown(Seen(c, h[c.hold]), h)
  <1> DEFINE a == h[c.hold]
             d == Seen(c, a)
             n == IF a.st = "running" THEN (IF c.round = 0 THEN 1 ELSE c.round)
                  ELSE IF Automatic THEN Larger(c.round, c.done + a.turns) ELSE c.round
             ph == IF a.st = "running" THEN "running" ELSE "terminal"
             ok == IF a.st = "running" THEN c.ok ELSE a.st = "ok"
             rel == IF a.st = "running" THEN FALSE ELSE a.rel
  <1>1. c.hold \in Offsets
    BY DEF Child
  <1>2. a \in HoldRecs
    BY <1>1
  <1>3. n \in {c.round, Larger(c.round, c.done + a.turns), 1}
    OBVIOUS
  <1>4. n \in 0..MaxRounds /\ n <= Larger(1, c.done + a.turns)
    BY <1>3, RoundsKnown
  <1>5. ok \in BOOLEAN /\ rel \in BOOLEAN /\ (rel => a.rel)
    BY <1>2 DEF Child, HoldRecs
  <1>6. CASE Finished(c)
    BY <1>6 DEF Seen
  <1>7. CASE ~Finished(c)
    <2>1. d = [c EXCEPT !.phase = ph, !.ok = ok, !.rel = rel, !.round = n]
      <3>1. CASE a.st = "running"
        <4>1. d = [c EXCEPT !.phase = "running", !.rel = FALSE, !.round = IF @ = 0 THEN 1 ELSE @]
          BY <1>7, <3>1 DEF Seen
        <4> QED  BY <3>1, <4>1 DEF Child
      <3>2. CASE a.st # "running"
        <4>1. d = [c EXCEPT !.phase = "terminal", !.ok = (a.st = "ok"), !.rel = a.rel,
                            !.round = IF Automatic THEN Larger(@, c.done + a.turns) ELSE @]
          BY <1>7, <3>2 DEF Seen
        <4> QED  BY <3>2, <4>1
      <3> QED  BY <3>1, <3>2
    <2>2. ph \in {"acquiring", "running", "terminal", "completed", "blocked"}
      OBVIOUS
    <2> HIDE DEF d, ph, ok, rel, n
    <2>3. d \in Child
      BY <1>4, <1>5, <2>1, <2>2, ZenonT(30) DEF Child
    <2>4. d.hold = c.hold /\ d.done = c.done /\ d.rel = rel /\ d.round = n
      BY <2>1 DEF Child
    <2> QED  BY <1>4, <1>5, <2>3, <2>4 DEF ChildKnown, d
  <1> QED  BY <1>6, <1>7

\* A look that failed
LEMMA UnseenKnown ==
    ASSUME NEW h, NEW c \in Child, ChildKnown(c, h)
    PROVE  Unseen(c) \in Child /\ ChildKnown(Unseen(c), h)
  <1> DEFINE d == [c EXCEPT !.rel = FALSE]
  <1>1. d \in Child
    BY ZenonT(30) DEF Child
  <1>2. d.hold = c.hold /\ d.done = c.done /\ d.round = c.round /\ ~d.rel
    BY DEF Child
  <1> HIDE DEF d
  <1>3. ChildKnown(d, h)
    BY <1>2 DEF ChildKnown
  <1> QED  BY <1>1, <1>3 DEF Unseen, d

\* _observe
LEMMA ObservedSound ==
    ASSUME Inv, NEW st, Sound(st, hold), NEW unread
    PROVE  /\ Sound(Observed(st, unread), hold) /\ Keeps(st, Observed(st, unread))
  <1> DEFINE f == [s \in Slots |-> IF s \in mix.slots /\ st.children[s].hold # NoHold
                     THEN IF s \in unread THEN Unseen(st.children[s])
                                           ELSE Seen(st.children[s], HoldOf(st, s))
                     ELSE st.children[s]]
  <1>1. Observed(st, unread) = [st EXCEPT !.children = f]
    BY DEF Observed
  <1>2. ASSUME NEW s \in Slots PROVE f[s] \in Child /\ ChildKnown(f[s], hold[s])
    <2>1. st.children[s] \in Child /\ ChildKnown(st.children[s], hold[s])
      BY StateTyped DEF Sound, Known
    <2>2. hold[s] \in [Offsets -> HoldRecs] /\ Ordered(hold[s]) /\ mix \in Mixes
      BY DEF Inv, Holds
    <2> QED  BY <2>1, <2>2, SeenKnown, UnseenKnown DEF HoldOf
  <1> HIDE DEF f
  <1>3. f \in [Slots -> Child]
    BY <1>2 DEF f
  <1> QED  BY <1>1, <1>2, <1>3, ChildrenSound

\* The status of a loop that goes on
LEMMA RefreshedSound ==
    ASSUME NEW hs, NEW st, Sound(st, hs)
    PROVE  Sound(Refreshed(st), hs) /\ Keeps(st, Refreshed(st))
  <1>1. Refreshed(st) = st \/ \E x \in Statuses : Refreshed(st) = [st EXCEPT !.status = x]
    BY DEF Refreshed, Statuses
  <1>2. Keeps(st, st)
    BY DEF Keeps
  <1> QED  BY <1>1, <1>2, StatusSound

\* A terminal child is judged; one that is to rotate has used up its Hold
LEMMA JudgedKnown ==
    ASSUME mix \in Mixes, NEW h \in [Offsets -> HoldRecs], Ordered(h),
           NEW c \in Child, ChildKnown(c, h), c.hold # NoHold, NEW verified \in BOOLEAN
    PROVE  LET d == Judged(c, h[c.hold], verified) IN
           /\ d \in Child /\ ChildKnown(d, h) /\ d.hold = c.hold
           /\ mix.mode = "rotating" /\ d.phase = "completed" /\ d.round < MaxRounds => Rotates(d, h)
  <1> DEFINE a == h[c.hold]
             d == Judged(c, a, verified)
             ok == a.st = "ok"
             n == Larger(c.round, c.done + a.turns)
             quota == mix.mode = "rotating" /\ ok
             ph == IF quota /\ ~a.rel THEN "terminal"
                   ELSE IF (quota => a.turns = Budget(c.done)) /\ ok /\ verified
                     THEN "completed" ELSE "blocked"
  <1>1. c.hold \in Offsets /\ c.hold = c.done
    BY DEF Child, ChildKnown
  <1>2. a \in HoldRecs
    BY <1>1
  <1>3. n \in {c.round, Larger(c.round, c.done + a.turns), 1}
    OBVIOUS
  <1>4. n \in 0..MaxRounds /\ n <= Larger(1, c.done + a.turns)
    BY <1>3, RoundsKnown
  <1>5. d = [c EXCEPT !.phase = ph, !.ok = ok, !.rel = a.rel, !.round = n]
    BY DEF Judged, Child
  <1>6. ph \in {"acquiring", "running", "terminal", "completed", "blocked"}
    OBVIOUS
  <1>7. ok \in BOOLEAN /\ a.rel \in BOOLEAN
    BY <1>2 DEF HoldRecs
  <1>8. mix.mode = "rotating" /\ ph = "completed" => a.st = "ok" /\ a.turns = Budget(c.done)
    OBVIOUS
  <1>9. a.turns = Budget(c.done) => n = c.done + Budget(c.done)
    <2>1. Budget(c.done) \in Nat /\ c.done \in Nat /\ Budget(c.done) >= 1
      BY <1>1, BudgetTyped
    <2>2. c.round \in Int /\ c.round <= Larger(1, c.done + a.turns)
      BY DEF Child, ChildKnown
    <2> QED  BY <2>1, <2>2 DEF Larger
  <1> HIDE DEF ph, ok, n, d
  <1>10. d \in Child
    BY <1>4, <1>5, <1>6, <1>7, ZenonT(30) DEF Child
  <1>14. d.hold = c.hold /\ d.done = c.done /\ d.phase = ph /\ d.rel = a.rel /\ d.round = n
    BY <1>5 DEF Child
  <1>11. ChildKnown(d, h)
    BY <1>4, <1>14 DEF ChildKnown
  <1>12. mix.mode = "rotating" /\ d.phase = "completed" /\ d.round < MaxRounds => Rotates(d, h)
    BY <1>1, <1>8, <1>9, <1>14 DEF Rotates
  <1> QED  BY <1>10, <1>11, <1>12, <1>14 DEF d

-----------------------------------------------------------------------------
(* What _finish and close write.                                           *)

\* The intent to close, and its report
Closing(st, on, r) == [st EXCEPT !.close = [@ EXCEPT !.on = on, !.report = r]]

\* They leave the rest of the state
LEMMA CloseSound ==
    ASSUME NEW hs, NEW st, Sound(st, hs), NEW on \in BOOLEAN, NEW r \in Reports
    PROVE  Sound(Closing(st, on, r), hs) /\ Closing(st, on, r).on = st.on
  <1> DEFINE t == Closing(st, on, r)
             cl == [st.close EXCEPT !.on = on, !.report = r]
  <1>1. st.close \in Closes
    BY StateTyped DEF Sound
  <1>2. cl \in Closes
    BY <1>1, ZenonT(30) DEF Closes
  <1>3. cl.child = st.close.child /\ cl.on = on
    BY <1>1 DEF Closes
  <1>4. t = [st EXCEPT !.close = cl]
    BY DEF Closing
  <1> HIDE DEF cl, t
  <1>5. t \in State
    BY <1>2, <1>4, ZenonT(30) DEF Sound, State, Closes, ChildReports
  <1>6. t.on = st.on /\ t.children = st.children /\ t.cleanup = st.cleanup /\ t.close = cl
    BY <1>4 DEF Sound, State
  <1>7. Sound(t, hs)
    BY <1>3, <1>5, <1>6 DEF Sound, Known
  <1> QED  BY <1>6, <1>7 DEF t

\* The cleanup as _finish latches it
LEMMA LatchedSound ==
    ASSUME NEW hs, NEW st, Sound(st, hs), NEW target \in Ended
    PROVE  Sound(Latched(st, target), hs) /\ Latched(st, target).on = st.on
  <1> DEFINE c == IF ~st.cleanup.on THEN NewCleanup(target)
                  ELSE [st.cleanup EXCEPT !.done = @ /\ Evidence(st)]
             st1 == [st EXCEPT !.status = "ending"]
  <1>1. st.cleanup \in Cleanups /\ CleanupKnown(st.cleanup) /\ Evidence(st) \in BOOLEAN
    BY StateTyped DEF Sound, Known, Evidence
  <1>2. c \in Cleanups /\ CleanupKnown(c)
    <2>1. CASE ~st.cleanup.on
      <3>1. c = [on |-> TRUE, target |-> target, done |-> FALSE, beat |-> FALSE]
        BY <2>1 DEF NewCleanup
      <3> HIDE DEF c
      <3>2. c \in Cleanups
        BY <3>1 DEF Cleanups
      <3>3. c.target = target /\ c.on /\ ~c.beat
        BY <3>1
      <3> QED  BY <3>2, <3>3 DEF CleanupKnown
    <2>2. CASE st.cleanup.on
      <3> DEFINE d == st.cleanup.done /\ Evidence(st)
      <3>1. c = [st.cleanup EXCEPT !.done = d] /\ d \in BOOLEAN
        BY <1>1, <2>2
      <3> HIDE DEF c, d
      <3>2. c \in Cleanups
        BY <1>1, <3>1, ZenonT(30) DEF Cleanups
      <3>3. c.on = st.cleanup.on /\ c.target = st.cleanup.target /\ c.beat = st.cleanup.beat
        BY <1>1, <3>1 DEF Cleanups
      <3> QED  BY <1>1, <3>2, <3>3 DEF CleanupKnown
    <2> QED  BY <2>1, <2>2
  <1>3. Sound(st1, hs) /\ Keeps(st, st1)
    BY StatusSound DEF Statuses
  <1>4. Latched(st, target) = [st1 EXCEPT !.cleanup = c]
    <2>1. Latched(st, target) = [st EXCEPT !.status = "ending", !.cleanup = c]
      BY Zenon DEF Latched
    <2> HIDE DEF c
    <2> QED  BY <2>1 DEF Sound, State
  <1> HIDE DEF c, st1
  <1> QED  BY <1>2, <1>3, <1>4, CleanupSound DEF Keeps

\* What _finish concludes from its owners' answers
LEMMA ConcludedSound ==
    ASSUME NEW hs, NEW st, Sound(st, hs), st.cleanup.on, NEW held, NEW answer
    PROVE  Sound(Concluded(st, held, answer), hs) /\ Concluded(st, held, answer).on = st.on
  <1> DEFINE released == st.cleanup.beat /\ \A s \in held : st.children[s].rel
             managed == st.cleanup.beat /\ \A s \in held : answer[s] \in {"completed", "managed"}
             report == IF \E s \in held : answer[s] = "failed" THEN "failed"
                       ELSE IF released THEN "completed"
                       ELSE IF managed THEN "unresolved" ELSE "pending"
             d == st.cleanup.done \/ released
             r == IF st.close.on THEN report ELSE st.close.report
             x == IF st.close.on /\ managed /\ ~released THEN "closed_unconfirmed"
                  ELSE IF released THEN st.cleanup.target ELSE st.status
  <1>1. Concluded(st, held, answer)
          = [st EXCEPT !.close = [@ EXCEPT !.report = r], !.cleanup = [@ EXCEPT !.done = d], !.status = x]
    BY DEF Concluded, Sound, State
  <1>2. st.cleanup.target \in Ended /\ st.status \in Statuses /\ st.cleanup.done \in BOOLEAN /\ st.close.report \in Reports
    BY StateTyped DEF Sound, Known, CleanupKnown, Cleanups, Closes
  <1>3. x \in Statuses /\ r \in Reports /\ d \in BOOLEAN
    BY <1>2 DEF Statuses, Reports
  <1> HIDE DEF x, r, d
  <1>4. Sound(Concluded(st, held, answer), hs) /\ Keeps(st, Concluded(st, held, answer))
    BY <1>1, <1>3, VerdictSound
  <1> QED  BY <1>4 DEF Keeps

-----------------------------------------------------------------------------
(* Processes.                                                              *)

\* A loop that nobody has created
LEMMA NoStateSound ==
    ASSUME NEW hs
    PROVE  Sound(NoState, hs) /\ ~NoState.on
  <1>1. MaxRounds \in Nat /\ MaxRounds >= 1
    BY LoopConstants
  <1>2. NewChild \in Child /\ NewChild.hold = NoHold
    BY <1>1 DEF NewChild, Child, NoHold, Offsets
  <1>3. NoCleanup \in Cleanups /\ CleanupKnown(NoCleanup)
    BY DEF NoCleanup, Cleanups, CleanupKnown
  <1>4. NoClose \in Closes /\ \A s \in Slots : ReportsKnown(NoClose.child[s], hs[s])
    BY DEF NoClose, Closes, Reports, ChildReports, ReportsKnown
  <1> DEFINE f == [s \in Slots |-> NewChild]
  <1>5. f \in [Slots -> Child] /\ \A s \in Slots : ChildKnown(f[s], hs[s])
    BY <1>2 DEF ChildKnown
  <1>6. NoState = [on |-> FALSE, named |-> FALSE, status |-> "acquiring", children |-> f,
                     cleanup |-> NoCleanup, close |-> NoClose]
    BY DEF NoState
  <1> HIDE DEF f
  <1>7. NoState \in State
    BY <1>3, <1>4, <1>5, <1>6 DEF State, Statuses, Cleanups, Closes, ChildReports
  <1> QED  BY <1>3, <1>4, <1>5, <1>6, <1>7 DEF Sound, Known

\* A process that does nothing
LEMMA IdleFits ==
    ASSUME NEW hs
    PROVE  Fits(Idle, hs) /\ Idle.pc = "idle" /\ Idle.st = NoState
  <1>1. NoState \in State /\ Known(NoState, hs)
    BY NoStateSound DEF Sound
  <1>2. NoBeat \in Row
    BY DEF NoBeat, Row
  <1>3. Idle \in Frames
    BY <1>1, <1>2 DEF Idle, Frames, Places, Ops
  <1> QED  BY <1>1, <1>3 DEF Fits, Idle, Works

\* A process that has died, or was started again
LEMMA DownFits ==
    ASSUME NEW hs, NEW up \in BOOLEAN
    PROVE  Fits([Idle EXCEPT !.up = up], hs) /\ [Idle EXCEPT !.up = up].pc = "idle"
  <1> DEFINE f == [Idle EXCEPT !.up = up]
  <1>1. Fits(Idle, hs) /\ Idle \in Frames /\ Idle.pc = "idle"
    BY IdleFits DEF Fits
  <1>2. f \in Frames
    BY <1>1, ZenonT(30) DEF Frames
  <1>3. f.pc = "idle" /\ f.st = Idle.st /\ f.todo = Idle.todo
    BY <1>1 DEF Frames
  <1> HIDE DEF f
  <1>4. Fits(f, hs) /\ f.pc = "idle"
    BY <1>1, <1>2, <1>3 DEF Fits, Works
  <1> QED  BY <1>4 DEF f

\* A process at a step of an operation
LEMMA DoingTyped ==
    ASSUME NEW op \in Ops, NEW pc \in Places, NEW st \in State
    PROVE  /\ Doing(op, pc, st) \in Frames
           /\ Doing(op, pc, st).pc = pc /\ Doing(op, pc, st).st = st /\ Doing(op, pc, st).todo = {}
  <1>1. Idle \in Frames /\ Idle.todo = {}
    BY IdleFits DEF Fits, Idle
  <1> DEFINE f == [Idle EXCEPT !.op = op, !.pc = pc, !.st = st]
  <1>2. f \in Frames
    BY <1>1, ZenonT(30) DEF Frames
  <1>3. f.pc = pc /\ f.st = st /\ f.todo = {}
    BY <1>1 DEF Frames
  <1>4. f = Doing(op, pc, st)
    BY DEF Doing
  <1> HIDE DEF f
  <1> QED  BY <1>2, <1>3, <1>4

\* It fits the invariant
LEMMA DoingFits ==
    ASSUME NEW hs, NEW op \in Ops, NEW st, Sound(st, hs), st.on,
           NEW pc \in {"create", "intent", "reload", "observe", "reconcile", "cancel", "drain", "save"},
           pc \in {"cancel", "drain"} => st.cleanup.on
    PROVE  Fits(Doing(op, pc, st), hs) /\ Doing(op, pc, st).pc = pc
  <1>1. pc \in Places /\ pc # "latch" /\ pc # "rotate" /\ st \in State
    BY DEF Places, Sound
  <1>2. /\ Doing(op, pc, st) \in Frames /\ Doing(op, pc, st).pc = pc
        /\ Doing(op, pc, st).st = st /\ Doing(op, pc, st).todo = {}
    BY <1>1, DoingTyped
  <1> QED  BY <1>1, <1>2 DEF Fits, Sound

\* _finish begins
LEMMA LatchingFits ==
    ASSUME NEW hs, NEW op \in Ops, NEW st, Sound(st, hs), st.on, NEW target \in Ended
    PROVE  Fits(Latching(op, st, target), hs) /\ Latching(op, st, target).pc = "latch"
  <1> DEFINE f == Doing(op, "latch", st)
             g == [f EXCEPT !.target = target]
  <1>1. "latch" \in Places /\ st \in State
    BY DEF Places, Sound
  <1>2. f \in Frames /\ f.pc = "latch" /\ f.st = st /\ f.todo = {}
    BY <1>1, DoingTyped
  <1>3. g = Latching(op, st, target)
    BY DEF Latching
  <1> HIDE DEF f
  <1>4. g \in Frames
    BY <1>2, ZenonT(30) DEF Frames
  <1>5. g.pc = "latch" /\ g.st = st /\ g.todo = {} /\ g.target = target
    BY <1>2 DEF Frames
  <1> HIDE DEF g
  <1>6. Fits(g, hs) /\ g.pc = "latch"
    BY <1>4, <1>5 DEF Fits, Sound
  <1> QED  BY <1>3, <1>6

\* The end of an operation
LEMMA OverFits ==
    ASSUME NEW hs, NEW op \in Ops, NEW st \in State
    PROVE  Fits(Over(op, st), hs) /\ Over(op, st).pc \in {"idle", "recording"}
  <1>1. CASE op # "beat"
    BY <1>1, IdleFits DEF Over
  <1>2. CASE op = "beat"
    <2> DEFINE w == Succeeds(st)
               f == [Idle EXCEPT !.pc = "recording", !.won = w]
    <2>1. Over(op, st) = f
      BY <1>2 DEF Over
    <2>2. w \in BOOLEAN
      BY StateTyped DEF Succeeds
    <2>3. Idle \in Frames /\ Known(Idle.st, hs) /\ Idle.todo = {}
      BY IdleFits DEF Fits, Idle
    <2> HIDE DEF w
    <2>4. f \in Frames
      BY <2>2, <2>3, ZenonT(30) DEF Frames, Places
    <2>5. f.pc = "recording" /\ f.st = Idle.st /\ f.todo = Idle.todo
      BY <2>3 DEF Frames
    <2> HIDE DEF f
    <2> QED  BY <2>1, <2>3, <2>4, <2>5 DEF Fits, Works
  <1> QED  BY <1>1, <1>2

-----------------------------------------------------------------------------
(* Holds are started in order, run and end.                                *)

\* A Hold that has started has no later one before it ends, so it may run on
LEMMA RunsOrdered ==
    ASSUME mix \in Mixes, NEW h \in [Offsets -> HoldRecs], Ordered(h), NEW o \in Offsets, NEW a \in HoldRecs,
           h[o].st = "running", a.st # "none", a.turns <= Budget(o)
    PROVE  Ordered([h EXCEPT ![o] = a])
  <1> DEFINE k == [h EXCEPT ![o] = a]
  <1>1. \A q \in Offsets : k[q] = IF q = o THEN a ELSE h[q]
    OBVIOUS
  <1> HIDE DEF k
  <1> SUFFICES ASSUME NEW p \in Offsets
               PROVE  /\ k[p].turns <= Budget(p)
                      /\ k[p].st = "none" => k[p].turns = 0
                      /\ k[p].st # "none" => k[0].st # "none"
                      /\ \A q \in Offsets :
                           q < p /\ k[p].st # "none" /\ k[q].st # "none" =>
                             /\ k[q].st = "ok" /\ k[q].turns = Budget(q)
                             /\ q + Budget(q) <= p
                             /\ k[q + Budget(q)].st # "none"
    BY DEF Ordered, k
  <1>2. 0 \in Offsets /\ \A q \in Offsets : q \in Nat
    BY LoopConstants DEF Offsets
  <1>3. k[p].turns <= Budget(p) /\ (k[p].st = "none" => k[p].turns = 0) /\ (k[p].st # "none" => k[0].st # "none")
    BY <1>1, <1>2 DEF Ordered
  <1>4. ASSUME NEW q \in Offsets, q < p, k[p].st # "none", k[q].st # "none"
        PROVE  /\ k[q].st = "ok" /\ k[q].turns = Budget(q)
               /\ q + Budget(q) <= p
               /\ k[q + Budget(q)].st # "none"
    <2>1. h[p].st # "none" /\ h[q].st # "none"
      BY <1>1, <1>4
    <2>2. h[q].st = "ok" /\ h[q].turns = Budget(q) /\ q + Budget(q) <= p /\ h[q + Budget(q)].st # "none"
      BY <1>4, <2>1 DEF Ordered
    <2>3. q # o /\ k[q] = h[q]
      BY <1>1, <2>2
    <2>4. Budget(q) \in Nat
      BY BudgetTyped
    <2>5. q + Budget(q) \in Offsets
      BY <1>2, <2>2, <2>4, LoopConstants DEF Offsets
    <2> QED  BY <1>1, <2>2, <2>3, <2>5
  <1> QED  BY <1>3, <1>4

\* What is not the status or the turns does not matter
LEMMA SameOrdered ==
    ASSUME mix \in Mixes, NEW h \in [Offsets -> HoldRecs], Ordered(h), NEW k \in [Offsets -> HoldRecs],
           \A o \in Offsets : k[o].st = h[o].st /\ k[o].turns = h[o].turns
    PROVE  Ordered(k)
  <1>1. \A q, p \in Offsets : q + Budget(q) <= p => q + Budget(q) \in Offsets
    <2> SUFFICES ASSUME NEW q \in Offsets, NEW p \in Offsets, q + Budget(q) <= p
                 PROVE  q + Budget(q) \in Offsets
      OBVIOUS
    <2> QED  BY BudgetTyped, LoopConstants DEF Offsets
  <1>2. 0 \in Offsets
    BY LoopConstants DEF Offsets
  <1> QED  BY <1>1, <1>2 DEF Ordered

\* A queued Hold has started, and is otherwise as it was
LEMMA QueuedTyped ==
    ASSUME NEW a \in HoldRecs
    PROVE  /\ Queued(a) \in HoldRecs /\ Grown(a, Queued(a))
           /\ Queued(a).st # "none" /\ Queued(a).turns = a.turns
           /\ a.st # "none" => Queued(a) = a
  <1>1. CASE a.st = "none"
    <2>1. Queued(a) = [a EXCEPT !.st = "running"]
      BY <1>1 DEF Queued
    <2>2. Queued(a) \in HoldRecs
      BY <2>1, ZenonT(30) DEF HoldRecs
    <2> QED  BY <1>1, <2>1, <2>2 DEF HoldRecs, Grown
  <1>2. CASE a.st # "none"
    BY <1>2 DEF Queued, HoldRecs, Grown
  <1> QED  BY <1>1, <1>2

\* The first Hold of a slot, and the next after one that has run its budget
LEMMA QueuedOrdered ==
    ASSUME mix \in Mixes, NEW h \in [Offsets -> HoldRecs], Ordered(h), NEW o \in Offsets,
           \/ o = 0
           \/ \E q \in Offsets : h[q].st = "ok" /\ h[q].turns = Budget(q) /\ o = q + Budget(q)
    PROVE  Ordered([h EXCEPT ![o] = Queued(@)])
  <1>1. CASE h[o].st # "none"
    <2>1. Queued(h[o]) = h[o]
      BY <1>1, QueuedTyped
    <2> QED  BY <2>1
  <1>2. CASE h[o].st = "none"
    <2> DEFINE a == Queued(h[o])
               k == [h EXCEPT ![o] = a]
    <2>1. a.st # "none" /\ a.turns = 0
      BY <1>2, QueuedTyped DEF Ordered
    <2>2. \A q \in Offsets : k[q] = IF q = o THEN a ELSE h[q]
      OBVIOUS
    <2>3. 0 \in Offsets /\ \A q \in Offsets : q \in Nat
      BY LoopConstants DEF Offsets
    <2>4. \A q \in Offsets : Budget(q) \in Nat /\ Budget(q) >= 1
      BY BudgetTyped
    <2>5. \A p, q \in Offsets :
             q < p /\ h[p].st # "none" /\ h[q].st # "none" =>
               /\ h[q].st = "ok" /\ h[q].turns = Budget(q)
               /\ q + Budget(q) <= p
               /\ h[q + Budget(q)].st # "none"
      BY DEF Ordered
    <2>6. \A p \in Offsets : /\ h[p].turns <= Budget(p)
                             /\ h[p].st = "none" => h[p].turns = 0
                             /\ h[p].st # "none" => h[0].st # "none"
      BY DEF Ordered
    <2> HIDE DEF a, k
    <2>7. ASSUME NEW p \in Offsets, h[p].st # "none" PROVE p < o
      <3>1. CASE o = 0
        BY <1>2, <2>6, <2>7, <3>1
      <3>2. CASE \E q \in Offsets : h[q].st = "ok" /\ h[q].turns = Budget(q) /\ o = q + Budget(q)
        <4>1. PICK q \in Offsets : h[q].st = "ok" /\ o = q + Budget(q)
          BY <3>2
        <4>2. q < p => FALSE
          BY <1>2, <2>5, <2>7, <4>1
        <4> QED  BY <2>3, <2>4, <4>1, <4>2
      <3> QED  BY <3>1, <3>2
    <2>8. ASSUME NEW p \in Offsets, NEW q \in Offsets, q < p, k[p].st # "none", k[q].st # "none"
          PROVE  /\ k[q].st = "ok" /\ k[q].turns = Budget(q)
                 /\ q + Budget(q) <= p
                 /\ k[q + Budget(q)].st # "none"
      <3>1. q # o
        BY <2>2, <2>3, <2>7, <2>8
      <3>2. k[q] = h[q] /\ h[q].st # "none"
        BY <2>2, <2>8, <3>1
      <3>3. q + Budget(q) <= p => q + Budget(q) \in Offsets
        BY <2>3, <2>4, LoopConstants DEF Offsets
      <3>4. CASE p # o
        <4>1. h[p].st # "none"
          BY <2>2, <2>8, <3>4
        <4>2. h[q].st = "ok" /\ h[q].turns = Budget(q) /\ q + Budget(q) <= p /\ h[q + Budget(q)].st # "none"
          BY <2>5, <2>8, <3>2, <4>1
        <4> QED  BY <2>1, <2>2, <3>2, <3>3, <4>2
      <3>5. CASE p = o
        <4>1. o # 0
          BY <2>3, <2>8, <3>5
        <4>2. PICK r \in Offsets : h[r].st = "ok" /\ h[r].turns = Budget(r) /\ o = r + Budget(r)
          BY <4>1
        <4>3. CASE q = r
          BY <2>1, <2>2, <3>2, <3>5, <4>2, <4>3
        <4>4. CASE q < r
          <5>1. h[q].st = "ok" /\ h[q].turns = Budget(q) /\ q + Budget(q) <= r /\ h[q + Budget(q)].st # "none"
            BY <2>5, <3>2, <4>2, <4>4
          <5>2. q + Budget(q) <= p /\ r \in Nat /\ q \in Nat
            BY <2>3, <2>4, <3>5, <4>2, <5>1
          <5> QED  BY <2>1, <2>2, <3>2, <3>3, <5>1, <5>2
        <4>5. CASE r < q
          BY <1>2, <2>5, <3>2, <4>2, <4>5
        <4> QED  BY <2>3, <4>3, <4>4, <4>5
      <3> QED  BY <3>4, <3>5
    <2>9. ASSUME NEW p \in Offsets
          PROVE  /\ k[p].turns <= Budget(p)
                 /\ k[p].st = "none" => k[p].turns = 0
                 /\ k[p].st # "none" => k[0].st # "none"
      <3>1. p # o => k[p] = h[p]
        BY <2>2
      <3>2. p = o => k[p] = a
        BY <2>2
      <3>3. k[p].turns <= Budget(p) /\ (k[p].st = "none" => k[p].turns = 0)
        BY <2>1, <2>4, <2>6, <3>1, <3>2
      <3>4. ASSUME k[p].st # "none" PROVE k[0].st # "none"
        <4>1. CASE o = 0
          BY <2>1, <2>2, <4>1
        <4>2. CASE o # 0
          <5>1. PICK r \in Offsets : h[r].st = "ok"
            BY <4>2
          <5> QED  BY <2>2, <2>3, <2>6, <4>2, <5>1
        <4> QED  BY <4>1, <4>2
      <3> QED  BY <3>3, <3>4
    <2>10. Ordered(k)
      BY <2>8, <2>9 DEF Ordered
    <2> QED  BY <2>10 DEF k, a
  <1> QED  BY <1>1, <1>2

-----------------------------------------------------------------------------
(* The steps.                                                              *)

\* The invariant's parts, after a step that leaves the configuration alone
LEMMA NextInv ==
    ASSUME Inv, mix' = mix, Sound(store', hold'),
           proc' \in [Procs -> Frames], \A p \in Procs : Fits(proc'[p], hold'),
           hold' \in Holds, \A s \in Slots : Ordered(hold'[s]),
           beat' \in Row, env' \in Envs, Starting'
    PROVE  Inv'
  <1>1. ASSUME NEW p \in Procs PROVE Fits(proc[p], hold)'
    <2>1. Fits(proc'[p], hold')
      OBVIOUS
    <2> QED  BY <2>1 DEF Fits, Held, Rotates, Budget
  <1>2. ASSUME NEW s \in Slots PROVE Ordered(hold[s])'
    <2>1. Ordered(hold'[s])
      OBVIOUS
    <2> QED  BY <2>1 DEF Ordered, Budget
  <1>3. mix' \in Mixes
    BY DEF Inv
  <1> QED  BY <1>1, <1>2, <1>3 DEF Inv

\* A process goes on, and what it writes is sound
LEMMA Writes ==
    ASSUME Inv, NEW p \in Procs, NEW f, Go(p, f), mix' = mix,
           hold' \in Holds, Grows(hold, hold'), \A s \in Slots : Ordered(hold'[s]),
           Sound(store', hold'), Fits(f, hold'), beat' \in Row, env' \in Envs,
           store.on => store'.on,
           ~store'.on => ~Stopped(store'),
           f.pc = "create" => p = "mcp" /\ ~store'.on,
           f.pc = "reload" => store'.on,
           p = "host" => store'.on = store.on /\ (f.pc \in Works => store.on)
    PROVE  Inv'
  <1>1. proc' = [proc EXCEPT ![p] = f] /\ proc \in [Procs -> Frames]
    BY DEF Go, Inv
  <1>2. f \in Frames
    BY DEF Fits
  <1>3. proc' \in [Procs -> Frames] /\ \A q \in Procs : proc'[q] = IF q = p THEN f ELSE proc[q]
    BY <1>1, <1>2
  <1>4. ASSUME NEW q \in Procs PROVE Fits(proc'[q], hold')
    <2>1. CASE q = p
      BY <1>3, <2>1
    <2>2. CASE q # p
      <3>1. proc'[q] = proc[q] /\ Fits(proc[q], hold) /\ hold \in Holds
        BY <1>3, <2>2 DEF Inv
      <3> QED  BY <3>1, FitsStays
    <2> QED  BY <2>1, <2>2
  <1>5. store.on \in BOOLEAN /\ store'.on \in BOOLEAN
    BY StateTyped DEF Inv, Sound
  <1>6. Starting'
    <2>1. p = "mcp" \/ p = "host"
      BY DEF Procs
    <2>2. "mcp" \in Procs /\ "host" \in Procs
      BY DEF Procs
    <2>3. Starting
      BY DEF Inv
    <2>4. CASE p = "mcp"
      <3>1. proc'["mcp"] = f /\ proc'["host"] = proc["host"]
        BY <1>3, <2>2, <2>4
      <3> QED  BY <1>5, <2>3, <2>4, <3>1 DEF Starting, Stopped
    <2>5. CASE p = "host"
      <3>1. proc'["host"] = f /\ proc'["mcp"] = proc["mcp"]
        BY <1>3, <2>2, <2>5
      <3> QED  BY <1>5, <2>3, <2>5, <3>1 DEF Starting, Stopped
    <2> QED  BY <2>1, <2>4, <2>5
  <1> QED  BY <1>3, <1>4, <1>6, NextInv

\* A process goes on, and writes nothing that others see but the heartbeat
LEMMA Moves ==
    ASSUME Inv, NEW p \in Procs, NEW f, Go(p, f), Fits(f, hold), UNCHANGED <<mix, store, hold>>,
           beat' \in Row, env' \in Envs, f.pc # "create", f.pc = "reload" => store.on,
           p = "host" /\ f.pc \in Works => store.on
    PROVE  Inv'
  <1>1. hold' \in Holds /\ Grows(hold, hold') /\ Sound(store', hold') /\ \A s \in Slots : Ordered(hold'[s])
    BY SameGrows DEF Inv
  <1>2. ~store'.on => ~Stopped(store')
    BY DEF Inv, Starting
  <1> QED  BY <1>1, <1>2, Writes

\* No process goes on
LEMMA Outside ==
    ASSUME Inv, UNCHANGED <<mix, proc>>,
           hold' \in Holds, Grows(hold, hold'), \A s \in Slots : Ordered(hold'[s]),
           Sound(store', hold'), beat' \in Row, env' \in Envs,
           store'.on = store.on, ~store.on => ~Stopped(store')
    PROVE  Inv'
  <1>1. ASSUME NEW q \in Procs PROVE Fits(proc'[q], hold')
    BY FitsStays DEF Inv
  <1>2. Starting'
    BY DEF Inv, Starting, Stopped
  <1> QED  BY <1>1, <1>2, NextInv DEF Inv

\* A call that failed is counted
LEMMA CallTyped ==
    ASSUME env \in Envs, NEW fails, Call(fails)
    PROVE  env' \in Envs
  <1> DEFINE n == env.failures + 1
  <1>1. env' = env \/ env' = [env EXCEPT !.failures = n]
    BY DEF Call
  <1>2. n \in Nat
    BY DEF Envs
  <1> HIDE DEF n
  <1>3. [env EXCEPT !.failures = n] \in Envs
    BY <1>2, ZenonT(30) DEF Envs
  <1> QED  BY <1>1, <1>3

-----------------------------------------------------------------------------
(* Operations begin.                                                       *)

\* status and tick
LEMMA BegunFits ==
    ASSUME Inv, NEW op \in Ops
    PROVE  Fits(Begun(op), hold) /\ Begun(op).pc # "create" /\ (Begun(op).pc \in Works => store.on)
  <1>1. Sound(store, hold) /\ store \in State
    BY DEF Inv, Sound
  <1>2. /\ "stopped" \in Ended /\ "expired" \in Ended
        /\ store.cleanup.on => store.cleanup.target \in Ended
    BY DEF Ended, Inv, Sound, Known, CleanupKnown
  <1>3. \/ Begun(op) = Over(op, store)
        \/ store.on /\ \E target \in Ended : Begun(op) = Latching(op, store, target)
        \/ store.on /\ Begun(op) = Doing(op, "observe", store)
    BY <1>2 DEF Begun
  <1>4. CASE Begun(op) = Over(op, store)
    <2>1. Fits(Over(op, store), hold) /\ Over(op, store).pc \in {"idle", "recording"}
      BY <1>1, OverFits
    <2> QED  BY <1>4, <2>1 DEF Works
  <1>5. CASE store.on /\ \E target \in Ended : Begun(op) = Latching(op, store, target)
    <2>1. PICK target \in Ended : Begun(op) = Latching(op, store, target)
      BY <1>5
    <2>2. Fits(Latching(op, store, target), hold) /\ Latching(op, store, target).pc = "latch"
      BY <1>1, <1>5, LatchingFits
    <2> QED  BY <1>5, <2>1, <2>2
  <1>6. CASE store.on /\ Begun(op) = Doing(op, "observe", store)
    <2>1. Fits(Doing(op, "observe", store), hold) /\ Doing(op, "observe", store).pc = "observe"
      BY <1>1, <1>6, DoingFits
    <2> QED  BY <1>6, <2>1
  <1> QED  BY <1>3, <1>4, <1>5, <1>6

\* stop, and close once its intent is on record
LEMMA StoppingFits ==
    ASSUME Inv, store.on, NEW op \in Ops
    PROVE  Fits(Stopping(op), hold) /\ Stopping(op).pc \in {"idle", "latch"}
  <1> DEFINE target == IF store.cleanup.on THEN store.cleanup.target ELSE "stopped"
  <1>1. target \in Ended /\ Sound(store, hold)
    BY DEF Inv, Sound, Known, CleanupKnown, Ended
  <1>2. Stopping(op) = Idle \/ Stopping(op) = Latching(op, store, target)
    BY DEF Stopping
  <1> HIDE DEF target
  <1>3. Fits(Latching(op, store, target), hold) /\ Latching(op, store, target).pc = "latch"
    BY <1>1, LatchingFits
  <1>4. Fits(Idle, hold) /\ Idle.pc = "idle"
    BY IdleFits
  <1> QED  BY <1>2, <1>3, <1>4

\* close, after its intent
LEMMA AfterIntentFits ==
    ASSUME NEW hs, NEW st, Sound(st, hs), st.on
    PROVE  Fits(AfterIntent(st), hs) /\ AfterIntent(st).pc \in {"idle", "save", "reload"}
  <1> DEFINE t == [st EXCEPT !.close.report = "completed"]
             on == st.close.on
  <1>1. Sound(t, hs) /\ t.on
    <2>1. t = Closing(st, on, "completed")
      BY StateTyped DEF Sound, State, Closes, Closing
    <2>2. on \in BOOLEAN /\ "completed" \in Reports
      BY StateTyped DEF Sound, Closes, Reports
    <2> HIDE DEF on, t
    <2> QED  BY <2>1, <2>2, CloseSound
  <1>2. AfterIntent(st) \in {Idle, Doing("close", "save", t), Doing("close", "reload", st)}
    BY DEF AfterIntent
  <1> HIDE DEF t, on
  <1>3. "close" \in Ops
    BY DEF Ops
  <1>4. Fits(Idle, hs) /\ Idle.pc = "idle"
    BY IdleFits
  <1>5. Fits(Doing("close", "save", t), hs) /\ Doing("close", "save", t).pc = "save"
    BY <1>1, <1>3, DoingFits
  <1>6. Fits(Doing("close", "reload", st), hs) /\ Doing("close", "reload", st).pc = "reload"
    BY <1>3, DoingFits
  <1> QED  BY <1>2, <1>4, <1>5, <1>6

\* What a process and its copy of the state are
LEMMA Working ==
    ASSUME Inv, NEW p \in Procs
    PROVE  /\ proc[p] \in Frames /\ Fits(proc[p], hold)
           /\ proc[p].op \in Ops /\ Sound(proc[p].st, hold)
           /\ proc[p].pc \in Works => proc[p].st.on
           /\ p = "host" /\ proc[p].pc \in Works => store.on
           /\ p = "host" => proc[p].pc # "create"
  <1>1. proc[p] \in Frames /\ Fits(proc[p], hold)
    BY DEF Inv
  <1>2. proc[p].op \in Ops /\ proc[p].st \in State
    BY <1>1 DEF Frames
  <1> QED  BY <1>1, <1>2 DEF Fits, Sound, Inv, Starting

\* The host's tick, the commands, and what follows an intent
LEMMA BeginSteps ==
    ASSUME Inv, Tick \/ Claim \/ (\E p \in Procs : Status(p)) \/ Stop \/ Close \/ Reload
    PROVE  Inv'
  <1>1. "mcp" \in Procs /\ "host" \in Procs /\ {"beat", "status", "stop", "close"} \subseteq Ops
    BY DEF Procs, Ops
  <1>2. beat \in Row /\ env \in Envs /\ Sound(store, hold)
    BY DEF Inv
  <1>3. ASSUME NEW op \in mix.ops, Commanded(op) PROVE env' \in Envs
    <2> DEFINE n == env.commands + 1
    <2>1. env' = [env EXCEPT !.commands = n]
      BY <1>3 DEF Commanded
    <2>2. n \in Nat
      BY <1>2 DEF Envs
    <2> HIDE DEF n
    <2> QED  BY <1>2, <2>1, <2>2, ZenonT(30) DEF Envs
  <1>4. CASE Claim
    <2>1. beat' \in Row
      <3>1. beat' = [beat EXCEPT !.next = "later"]
        BY <1>4 DEF Claim
      <3> QED  BY <1>2, <3>1, ZenonT(30) DEF Row
    <2>2. Fits(Begun("beat"), hold) /\ Begun("beat").pc # "create" /\ (Begun("beat").pc \in Works => store.on)
      BY <1>1, BegunFits
    <2>3. Go("host", Begun("beat")) /\ UNCHANGED <<mix, store, hold, env>>
      BY <1>4 DEF Claim
    <2>4. "reload" \in Works
      BY DEF Works, Places
    <2> QED  BY <1>1, <1>2, <2>1, <2>2, <2>3, <2>4, Moves
  <1>9. CASE Tick
    <2> DEFINE f == Doing("beat", "claim", NoState)
    <2>1. Go("host", f) /\ UNCHANGED <<mix, store, hold, beat, env>>
      BY <1>9 DEF Tick
    <2>2. NoState \in State /\ Known(NoState, hold) /\ "claim" \in Places
      BY NoStateSound DEF Sound, Places
    <2>3. f \in Frames /\ f.pc = "claim" /\ f.st = NoState /\ f.todo = {}
      BY <1>1, <2>2, DoingTyped
    <2> HIDE DEF f
    <2>4. Fits(f, hold)
      BY <2>2, <2>3 DEF Fits, Works
    <2> QED  BY <1>1, <1>2, <2>1, <2>3, <2>4, Moves DEF Works
  <1>5. ASSUME NEW p \in Procs, Status(p) PROVE Inv'
    <2>1. env' \in Envs
      <3>1. CASE p = "host"
        BY <1>2, <1>5, <3>1 DEF Status
      <3>2. CASE p # "host"
        BY <1>3, <1>5, <3>2 DEF Status, Commanded
      <3> QED  BY <3>1, <3>2
    <2>2. Fits(Begun("status"), hold) /\ Begun("status").pc # "create"
      BY <1>1, BegunFits
    <2>3. Go(p, Begun("status")) /\ UNCHANGED <<mix, store, hold, beat>> /\ store.on
      BY <1>5 DEF Status
    <2> QED  BY <1>2, <2>1, <2>2, <2>3, Moves
  <1>6. CASE Stop
    <2>1. env' \in Envs
      BY <1>3, <1>6 DEF Stop, Commanded
    <2>2. Go("mcp", Stopping("stop")) /\ UNCHANGED <<mix, store, hold, beat>> /\ store.on
      BY <1>6 DEF Stop
    <2>3. Fits(Stopping("stop"), hold) /\ Stopping("stop").pc \in {"idle", "latch"}
      BY <1>1, <2>2, StoppingFits
    <2> QED  BY <1>1, <1>2, <2>1, <2>2, <2>3, Moves
  <1>7. CASE Reload
    <2>1. UNCHANGED <<mix, store, hold, beat, env>> /\ Go("mcp", Stopping("close")) /\ store.on
      BY <1>7 DEF Reload, At, Inv, Starting
    <2>2. Fits(Stopping("close"), hold) /\ Stopping("close").pc \in {"idle", "latch"}
      BY <1>1, <2>1, StoppingFits
    <2> QED  BY <1>1, <1>2, <2>1, <2>2, Moves
  <1>8. CASE Close
    <2> DEFINE t == [store EXCEPT !.close.on = TRUE]
               r == store.close.report
    <2>1. env' \in Envs
      BY <1>3, <1>8 DEF Close, Commanded
    <2>2. UNCHANGED <<mix, store, hold, beat>> /\ store.on
      BY <1>8 DEF Close
    <2>3. Sound(t, hold) /\ t.on
      <3>1. t = Closing(store, TRUE, r)
        BY <1>2, StateTyped DEF Sound, State, Closes, Closing
      <3>2. r \in Reports
        BY <1>2, StateTyped DEF Sound, Closes
      <3> HIDE DEF t, r
      <3>3. Sound(Closing(store, TRUE, r), hold) /\ Closing(store, TRUE, r).on = store.on
        BY <1>2, <3>2, CloseSound
      <3> QED  BY <2>2, <3>1, <3>3
    <2>4. Go("mcp", AfterIntent(store)) \/ Go("mcp", Doing("close", "intent", t))
      BY <1>8 DEF Close
    <2> HIDE DEF t
    <2>5. Fits(Doing("close", "intent", t), hold) /\ Doing("close", "intent", t).pc = "intent"
      BY <1>1, <2>3, DoingFits
    <2>6. Fits(AfterIntent(store), hold) /\ AfterIntent(store).pc \in {"idle", "save", "reload"}
      BY <1>2, <2>2, AfterIntentFits
    <2>7. CASE Go("mcp", AfterIntent(store))
      BY <1>1, <1>2, <2>1, <2>2, <2>6, <2>7, Moves
    <2>8. CASE Go("mcp", Doing("close", "intent", t))
      BY <1>1, <1>2, <2>1, <2>2, <2>5, <2>8, Moves
    <2> QED  BY <2>4, <2>7, <2>8
  <1> QED  BY <1>4, <1>5, <1>6, <1>7, <1>8, <1>9

\* The saves: of start, of an intent, of the latch, and of what was concluded
LEMMA SaveSteps ==
    ASSUME Inv, NEW p \in Procs, Create(p) \/ (p = "mcp" /\ Intent) \/ Latch(p) \/ Save(p)
    PROVE  Inv'
  <1>1. /\ proc[p].op \in Ops /\ Sound(proc[p].st, hold) /\ Fits(proc[p], hold)
        /\ proc[p].pc \in Works => proc[p].st.on
        /\ p = "host" /\ proc[p].pc \in Works => store.on
        /\ p = "host" => proc[p].pc # "create"
    BY Working
  <1>2. {"create", "intent", "latch", "save"} \subseteq Works
    BY DEF Works, Places
  <1>3. UNCHANGED <<mix, hold, beat>>
    BY DEF Create, Intent, Latch, Save
  <1>4. beat' \in Row /\ env' \in Envs /\ Sound(store, hold) /\ (~store.on => ~Stopped(store))
    <2>1. env \in Envs
      BY DEF Inv
    <2>2. env' \in Envs
      BY <2>1, CallTyped DEF Create, Intent, Latch, Save
    <2> QED  BY <1>3, <2>2 DEF Inv, Starting
  <1>5. hold' \in Holds /\ Grows(hold, hold') /\ (\A s \in Slots : Ordered(hold'[s])) /\ hold \in Holds
    BY <1>3, SameGrows DEF Inv
  <1>6. store.on \in BOOLEAN /\ proc[p].st.on \in BOOLEAN
    BY <1>1, <1>4, StateTyped DEF Sound
  <1>7. ASSUME NEW copy, Sound(copy, hold), copy.on, store' = Merged(store, copy)
        PROVE  Sound(store', hold) /\ store'.on
    <2>1. Sound(Merged(store, copy), hold)
      BY <1>4, <1>5, <1>7, MergedSound
    <2>2. Merged(store, copy).on
      BY <1>4, <1>5, <1>7, MergedKeeps
    <2> QED  BY <1>7, <2>1, <2>2
  <1>8. ASSUME NEW f, Go(p, f), Fits(f, hold), f.pc # "create", Sound(store', hold), store'.on,
               proc[p].pc \in Works
        PROVE  Inv'
    <2>1. p = "host" => store'.on = store.on /\ store.on
      BY <1>1, <1>4, <1>6, <1>8
    <2> QED  BY <1>3, <1>4, <1>5, <1>8, <2>1, Writes
  <1>9. CASE Create(p)
    <2>1. /\ Go(p, Idle) /\ proc[p].pc = "create"
          /\ \E unread : store' = Refreshed(Observed(proc[p].st, unread))
      BY <1>9 DEF Create, At
    <2>2. PICK unread : store' = Refreshed(Observed(proc[p].st, unread))
      BY <2>1
    <2> DEFINE seen == Observed(proc[p].st, unread)
    <2>3. Sound(seen, hold) /\ Keeps(proc[p].st, seen)
      BY <1>1, ObservedSound
    <2>4. store' = Refreshed(seen)
      BY <2>2
    <2> HIDE DEF seen
    <2>5. Sound(Refreshed(seen), hold) /\ Keeps(seen, Refreshed(seen))
      BY <2>3, RefreshedSound
    <2>6. Sound(store', hold) /\ store'.on
      BY <1>1, <1>2, <2>1, <2>3, <2>4, <2>5 DEF Keeps
    <2>7. Fits(Idle, hold) /\ Idle.pc = "idle"
      BY IdleFits
    <2> QED  BY <1>2, <1>8, <2>1, <2>6, <2>7
  <1>10. CASE p = "mcp" /\ Intent
    <2>1. store' = Merged(store, proc[p].st) /\ Go(p, AfterIntent(store')) /\ proc[p].pc = "intent"
      BY <1>10 DEF Intent, At
    <2>2. Sound(store', hold) /\ store'.on
      BY <1>1, <1>2, <1>7, <2>1
    <2>3. Fits(AfterIntent(store'), hold) /\ AfterIntent(store').pc \in {"idle", "save", "reload"}
      BY <2>2, AfterIntentFits
    <2> QED  BY <1>2, <1>8, <2>1, <2>2, <2>3
  <1>11. CASE Save(p)
    <2>1. store' = Merged(store, proc[p].st) /\ Go(p, Over(proc[p].op, store')) /\ proc[p].pc = "save"
      BY <1>11 DEF Save, At
    <2>2. Sound(store', hold) /\ store'.on /\ store' \in State
      BY <1>1, <1>2, <1>7, <2>1 DEF Sound
    <2>3. Fits(Over(proc[p].op, store'), hold) /\ Over(proc[p].op, store').pc \in {"idle", "recording"}
      BY <1>1, <2>2, OverFits
    <2> QED  BY <1>2, <1>8, <2>1, <2>2, <2>3
  <1>12. CASE Latch(p)
    <2> DEFINE copy == Latched(proc[p].st, proc[p].target)
               f == [Idle EXCEPT !.up = p # "host"]
    <2>1. /\ store' = Merged(store, copy) /\ proc[p].pc = "latch"
          /\ \/ Go(p, f) \/ Go(p, Do(p, "save", store'))
             \/ store'.cleanup.on /\ Go(p, Do(p, "cancel", store'))
      BY <1>12 DEF Latch, At
    <2>2. proc[p].target \in Ended /\ proc[p].st.on
      BY <1>1, <1>2, <2>1 DEF Fits
    <2>3. Sound(copy, hold) /\ copy.on = proc[p].st.on
      BY <1>1, <2>2, LatchedSound
    <2> HIDE DEF copy
    <2>4. Sound(store', hold) /\ store'.on
      BY <1>7, <2>1, <2>2, <2>3
    <2>5. CASE Go(p, f)
      BY <1>2, <1>8, <2>1, <2>4, <2>5, DownFits
    <2>6. CASE Go(p, Do(p, "save", store'))
      <3>1. Fits(Doing(proc[p].op, "save", store'), hold) /\ Doing(proc[p].op, "save", store').pc = "save"
        BY <1>1, <2>4, DoingFits
      <3> QED  BY <1>2, <1>8, <2>1, <2>4, <2>6, <3>1 DEF Do
    <2>7. CASE store'.cleanup.on /\ Go(p, Do(p, "cancel", store'))
      <3>1. Fits(Doing(proc[p].op, "cancel", store'), hold) /\ Doing(proc[p].op, "cancel", store').pc = "cancel"
        BY <1>1, <2>4, <2>7, DoingFits
      <3> QED  BY <1>2, <1>8, <2>1, <2>4, <2>7, <3>1 DEF Do
    <2> QED  BY <2>1, <2>5, <2>6, <2>7
  <1> QED  BY <1>9, <1>10, <1>11, <1>12

-----------------------------------------------------------------------------
(* Reconciliation.                                                         *)

\* A child is written into the copy
LEMMA ChildSound ==
    ASSUME NEW hs, NEW st, Sound(st, hs), NEW s \in Slots, NEW c \in Child, ChildKnown(c, hs[s])
    PROVE  /\ Sound([st EXCEPT !.children[s] = c], hs)
           /\ [st EXCEPT !.children[s] = c].on = st.on
           /\ [st EXCEPT !.children[s] = c].children[s] = c
           /\ Held([st EXCEPT !.children[s] = c]) \ {s} = Held(st) \ {s}
           /\ c.hold = st.children[s].hold => Held([st EXCEPT !.children[s] = c]) = Held(st)
  <1> DEFINE f == [st.children EXCEPT ![s] = c]
             t == [st EXCEPT !.children = f]
  <1>1. st.children \in [Slots -> Child] /\ \A q \in Slots : ChildKnown(st.children[q], hs[q])
    BY StateTyped DEF Sound, Known
  <1>2. f \in [Slots -> Child] /\ \A q \in Slots : f[q] = IF q = s THEN c ELSE st.children[q]
    BY <1>1
  <1>3. [st EXCEPT !.children[s] = c] = t
    OBVIOUS
  <1>4. DOMAIN f = Slots /\ DOMAIN st.children = Slots /\ \A q : q \notin Slots => f[q] = st.children[q]
    BY <1>1
  <1> HIDE DEF f
  <1>5. Sound(t, hs) /\ Keeps(st, t) /\ t.children = f
    BY <1>1, <1>2, ChildrenSound
  <1> HIDE DEF t
  <1>6. Held(t) \ {s} = Held(st) \ {s} /\ (c.hold = st.children[s].hold => Held(t) = Held(st))
    BY <1>2, <1>4, <1>5 DEF Held
  <1> QED  BY <1>2, <1>3, <1>5, <1>6 DEF Keeps

\* Numbers have a least
LEMMA Next1Least ==
    ASSUME NEW p \in Procs, proc[p].todo \subseteq Nat, proc[p].todo # {}
    PROVE  /\ Next1(p) \in proc[p].todo
           /\ \A t \in proc[p].todo : Next1(p) <= t
           /\ \A s \in proc[p].todo : (\A t \in proc[p].todo : s <= t) => s = Next1(p)
  <1> DEFINE T == proc[p].todo
  <1>1. \E s \in T : \A t \in T : s <= t
    <2> DEFINE R == OpToRel(<, Nat)
    <2>1. IsWellFoundedOn(R, Nat)
      BY NatLessThanWellFounded
    <2>2. \A x, y \in Nat : y < x => <<y, x>> \in R
      BY DEF OpToRel
    <2> HIDE DEF R
    <2>3. PICK s \in T : \A t \in T : ~ (<<t, s>> \in R)
      BY <2>1, WFMin
    <2>4. \A t \in T : ~(t < s)
      BY <2>2, <2>3
    <2> QED  BY <2>4
  <1>2. Next1(p) \in T /\ \A t \in T : Next1(p) <= t
    BY <1>1 DEF Next1
  <1> QED  BY <1>2

\* A process changes what it has left to do
LEMMA TodoFits ==
    ASSUME NEW hs, NEW f, Fits(f, hs), f.pc = "reconcile", NEW todo \in SUBSET Slots, todo \subseteq Held(f.st)
    PROVE  Fits([f EXCEPT !.todo = todo], hs) /\ [f EXCEPT !.todo = todo].pc = "reconcile"
  <1> DEFINE g == [f EXCEPT !.todo = todo]
  <1>1. f \in Frames
    BY DEF Fits
  <1>2. g \in Frames
    BY <1>1, ZenonT(30) DEF Frames
  <1>3. g.pc = f.pc /\ g.st = f.st /\ g.todo = todo
    BY <1>1 DEF Frames
  <1> HIDE DEF g
  <1>4. Fits(g, hs) /\ g.pc = "reconcile"
    BY <1>2, <1>3 DEF Fits
  <1> QED  BY <1>4 DEF g

\* _observe, before the reconciliation
LEMMA ObserveStep ==
    ASSUME Inv, NEW p \in Procs, Observe(p)
    PROVE  Inv'
  <1>9. PICK unread \in SUBSET Held(proc[p].st) :
         LET st == Observed(proc[p].st, unread) IN
         /\ Call(unread # {})
         /\ Go(p, [Do(p, "reconcile", st) EXCEPT
                     !.todo = IF ~Automatic THEN {}
                              ELSE {s \in Held(st) : ~Finished(st.children[s])}])
    BY DEF Observe
  <1> DEFINE st == Observed(proc[p].st, unread)
             f == Do(p, "reconcile", st)
             todo == IF ~Automatic THEN {} ELSE {s \in Held(st) : ~Finished(st.children[s])}
  <1>1. /\ proc[p].op \in Ops /\ Sound(proc[p].st, hold)
        /\ proc[p].pc \in Works => proc[p].st.on
        /\ p = "host" /\ proc[p].pc \in Works => store.on
    BY Working
  <1>2. proc[p].pc = "observe" /\ "observe" \in Works /\ UNCHANGED <<mix, store, hold, beat>>
        /\ Go(p, [f EXCEPT !.todo = todo])
    BY <1>9 DEF Observe, At, Works, Places
  <1>3. mix.slots \subseteq Slots
    BY LoopConstants DEF Inv, MixType
  <1>4. Sound(st, hold) /\ st.on = proc[p].st.on
    BY <1>1, ObservedSound DEF Keeps
  <1>5. todo \in SUBSET Slots /\ todo \subseteq Held(st)
    BY <1>3 DEF Held
  <1> HIDE DEF st, todo
  <1>6. Fits(f, hold) /\ f.pc = "reconcile" /\ f.st = st
    <2>1. Fits(Doing(proc[p].op, "reconcile", st), hold) /\ Doing(proc[p].op, "reconcile", st).pc = "reconcile"
      BY <1>1, <1>2, <1>4, DoingFits
    <2>2. Doing(proc[p].op, "reconcile", st).st = st
      BY <1>1, <1>4, DoingTyped DEF Sound, Places
    <2> QED  BY <2>1, <2>2 DEF Do
  <1> HIDE DEF f
  <1>7. Fits([f EXCEPT !.todo = todo], hold) /\ [f EXCEPT !.todo = todo].pc = "reconcile"
    BY <1>5, <1>6, TodoFits
  <1>8. beat' \in Row /\ env' \in Envs
    BY <1>2, <1>9, CallTyped DEF Inv
  <1> QED  BY <1>1, <1>2, <1>7, <1>8, Moves

\* A terminal child is judged, and is left to be rotated or is over
LEMMA ReconcileStep ==
    ASSUME Inv, NEW p \in Procs, Reconcile(p)
    PROVE  Inv'
  <1> DEFINE s == Next1(p)
             st == proc[p].st
             h == HoldOf(st, s)
             rest == proc[p].todo \ {s}
  <1>1. /\ proc[p] \in Frames /\ Fits(proc[p], hold) /\ Sound(st, hold)
        /\ p = "host" /\ proc[p].pc \in Works => store.on
    BY Working
  <1>2. proc[p].pc = "reconcile" /\ {"reconcile", "rotate"} \subseteq Works /\ proc[p].todo # {}
        /\ UNCHANGED <<mix, store, hold, beat>>
    BY DEF Reconcile, At, Works, Places
  <1>3. beat' \in Row /\ env' \in Envs /\ mix \in Mixes
    <2>1. env \in Envs
      BY DEF Inv
    <2>2. env' = env \/ \E fails : Call(fails)
      BY DEF Reconcile
    <2>3. env' \in Envs
      BY <2>1, <2>2, CallTyped
    <2> QED  BY <1>2, <2>3 DEF Inv
  <1>4. proc[p].todo \subseteq Slots /\ Slots \subseteq Nat /\ proc[p].todo \subseteq Held(st) /\ st.on
    BY <1>1, <1>2, LoopConstants DEF Fits, Frames
  <1>5. s \in proc[p].todo /\ \A t \in proc[p].todo : s <= t
    <2>1. proc[p].todo \subseteq Nat
      BY <1>4
    <2> QED  BY <1>2, <2>1, Next1Least
  <1>6. s \in Slots /\ st.children[s].hold # NoHold /\ rest \in SUBSET Slots /\ rest \subseteq Held(st)
    BY <1>4, <1>5 DEF Held
  <1>7. CASE Go(p, [proc[p] EXCEPT !.todo = rest])
    <2>1. Go(p, [proc[p] EXCEPT !.todo = rest])
      BY <1>7
    <2> HIDE DEF rest
    <2>2. Fits([proc[p] EXCEPT !.todo = rest], hold) /\ [proc[p] EXCEPT !.todo = rest].pc = "reconcile"
      BY <1>1, <1>2, <1>6, TodoFits
    <2> QED  BY <1>1, <1>2, <1>3, <2>1, <2>2, Moves
  <1>8. CASE ~Go(p, [proc[p] EXCEPT !.todo = rest])
    <2>1. PICK verified \in BOOLEAN :
            LET c == Judged(st.children[s], h, verified)
                f == [proc[p] EXCEPT !.st.children[s] = c]
            IN Go(p, IF mix.mode = "rotating" /\ c.phase = "completed" /\ c.round < MaxRounds
                       THEN [f EXCEPT !.pc = "rotate"]
                       ELSE [f EXCEPT !.todo = rest, !.changed = @ \/ c.phase # "terminal"])
      BY <1>8 DEF Reconcile
    <2> DEFINE c == Judged(st.children[s], h, verified)
               t == [st EXCEPT !.children[s] = c]
               f == [proc[p] EXCEPT !.st = t]
               rotates == mix.mode = "rotating" /\ c.phase = "completed" /\ c.round < MaxRounds
               x == proc[p].changed \/ c.phase # "terminal"
    <2>2. st.children[s] \in Child /\ ChildKnown(st.children[s], hold[s])
      BY <1>1, <1>6, StateTyped DEF Sound, Known
    <2>3. hold[s] \in [Offsets -> HoldRecs] /\ Ordered(hold[s]) /\ h = hold[s][st.children[s].hold]
      BY <1>6 DEF Inv, Holds, HoldOf
    <2>4. c \in Child /\ ChildKnown(c, hold[s]) /\ c.hold = st.children[s].hold
          /\ (rotates => Rotates(c, hold[s]))
      <3> DEFINE b == st.children[s]
                 k == hold[s]
                 d == Judged(b, k[b.hold], verified)
      <3>1. b \in Child /\ ChildKnown(b, k) /\ k \in [Offsets -> HoldRecs] /\ Ordered(k)
        BY <2>2, <2>3
      <3>2. mix \in Mixes /\ b.hold # NoHold
        BY <1>3, <1>6
      <3>3. c = d
        BY <2>3
      <3> HIDE DEF b, k
      <3>4. /\ d \in Child /\ ChildKnown(d, k) /\ d.hold = b.hold
            /\ mix.mode = "rotating" /\ d.phase = "completed" /\ d.round < MaxRounds => Rotates(d, k)
        BY <3>1, <3>2, JudgedKnown
      <3> HIDE DEF c, d
      <3> QED  BY <3>3, <3>4 DEF b, k
    <2>5. Go(p, IF rotates THEN [f EXCEPT !.pc = "rotate"] ELSE [f EXCEPT !.todo = rest, !.changed = x])
      <3>1. [proc[p] EXCEPT !.st.children[s] = c] = f
        OBVIOUS
      <3>2. f.changed = proc[p].changed
        BY <1>1 DEF Frames
      <3> QED  BY <2>1, <3>1, <3>2
    <2>6. x \in BOOLEAN
      BY <1>1 DEF Frames
    <2> HIDE DEF c, rotates, x
    <2>7. Sound(t, hold) /\ t.on /\ t.children[s] = c /\ Held(t) = Held(st)
      BY <1>1, <1>4, <1>6, <2>4, ChildSound
    <2> HIDE DEF t
    <2>8. f \in Frames
      BY <1>1, <2>7, ZenonT(30) DEF Frames, Sound
    <2>9. f.pc = "reconcile" /\ f.st = t /\ f.todo = proc[p].todo
      BY <1>1, <1>2 DEF Frames
    <2> HIDE DEF f
    <2>10. CASE rotates
      <3> DEFINE g == [f EXCEPT !.pc = "rotate"]
      <3>1. "rotate" \in Places
        BY DEF Places
      <3>2. g \in Frames
        BY <2>8, <3>1, ZenonT(30) DEF Frames
      <3>3. g.pc = "rotate" /\ g.st = t /\ g.todo = proc[p].todo
        BY <2>8, <2>9 DEF Frames
      <3>4. Go(p, g)
        BY <2>5, <2>10
      <3> HIDE DEF g
      <3>5. Fits(g, hold)
        BY <1>4, <1>5, <2>4, <2>7, <2>10, <3>2, <3>3 DEF Fits, Sound
      <3> QED  BY <1>1, <1>2, <1>3, <3>3, <3>4, <3>5, Moves
    <2>11. CASE ~rotates
      <3> DEFINE g == [f EXCEPT !.todo = rest, !.changed = x]
      <3>1. g \in Frames
        BY <1>6, <2>6, <2>8, ZenonT(30) DEF Frames
      <3>2. g.pc = "reconcile" /\ g.st = t /\ g.todo = rest
        BY <2>8, <2>9 DEF Frames
      <3>3. Go(p, g)
        BY <2>5, <2>11
      <3> HIDE DEF g, rest
      <3>4. Fits(g, hold)
        BY <1>6, <2>7, <3>1, <3>2 DEF Fits, Sound
      <3> QED  BY <1>1, <1>2, <1>3, <3>2, <3>3, <3>4, Moves
    <2> QED  BY <2>10, <2>11
  <1> QED  BY <1>7, <1>8

\* The tick's verdict
LEMMA SettleStep ==
    ASSUME Inv, NEW p \in Procs, Settle(p)
    PROVE  Inv'
  <1>1. /\ proc[p].op \in Ops /\ Sound(proc[p].st, hold)
        /\ proc[p].pc \in Works => proc[p].st.on
        /\ p = "host" /\ proc[p].pc \in Works => store.on
    BY Working
  <1>2. proc[p].pc = "reconcile" /\ "reconcile" \in Works /\ UNCHANGED <<mix, store, hold, beat, env>>
    BY DEF Settle, At, Works, Places
  <1>3. beat' \in Row /\ env' \in Envs
    BY <1>2 DEF Inv
  <1>4. PICK verified \in SUBSET (IF Automatic THEN {} ELSE mix.slots) :
         LET st == IF Automatic THEN proc[p].st
                   ELSE [proc[p].st EXCEPT !.children =
                           [s \in Slots |-> Finalized(proc[p].st.children[s], s \in verified)]]
             target == IF \E s \in mix.slots : st.children[s].phase = "blocked"
                         THEN "blocked" ELSE "completed"
         IN Go(p, IF Automatic /\ ~proc[p].changed THEN Do(p, "save", st)
                  ELSE IF AllDone(st) THEN Latching(proc[p].op, st, target)
                  ELSE Do(p, "save", Refreshed(st)))
    BY DEF Settle
  <1> DEFINE g == [s \in Slots |-> Finalized(proc[p].st.children[s], s \in verified)]
             st == IF Automatic THEN proc[p].st ELSE [proc[p].st EXCEPT !.children = g]
             target == IF \E s \in mix.slots : st.children[s].phase = "blocked"
                         THEN "blocked" ELSE "completed"
  <1>5. Go(p, Do(p, "save", st)) \/ Go(p, Latching(proc[p].op, st, target)) \/ Go(p, Do(p, "save", Refreshed(st)))
    BY <1>4
  <1>6. ASSUME NEW s \in Slots PROVE g[s] \in Child /\ ChildKnown(g[s], hold[s])
    <2> DEFINE c == proc[p].st.children[s]
               ph == IF c.ok /\ s \in verified THEN "completed" ELSE "blocked"
    <2>1. c \in Child /\ ChildKnown(c, hold[s])
      BY <1>1, StateTyped DEF Sound, Known
    <2>2. g[s] = c \/ g[s] = [c EXCEPT !.phase = ph]
      BY DEF Finalized
    <2>3. ph \in {"acquiring", "running", "terminal", "completed", "blocked"}
      OBVIOUS
    <2> HIDE DEF g, c, ph
    <2>4. [c EXCEPT !.phase = ph] \in Child
      BY <2>1, <2>3, ZenonT(30) DEF Child
    <2>5. /\ [c EXCEPT !.phase = ph].hold = c.hold /\ [c EXCEPT !.phase = ph].done = c.done
          /\ [c EXCEPT !.phase = ph].rel = c.rel /\ [c EXCEPT !.phase = ph].round = c.round
      BY <2>1 DEF Child
    <2>6. ChildKnown([c EXCEPT !.phase = ph], hold[s])
      BY <2>1, <2>5 DEF ChildKnown
    <2> QED  BY <2>1, <2>2, <2>4, <2>6
  <1>7. g \in [Slots -> Child] /\ \A s \in Slots : ChildKnown(g[s], hold[s])
    BY <1>6
  <1> HIDE DEF g
  <1>8. Sound(st, hold) /\ st.on
    <2>1. Sound([proc[p].st EXCEPT !.children = g], hold) /\ Keeps(proc[p].st, [proc[p].st EXCEPT !.children = g])
      BY <1>1, <1>7, ChildrenSound
    <2> QED  BY <1>1, <1>2, <2>1 DEF Keeps
  <1>9. target \in Ended
    BY DEF Ended
  <1> HIDE DEF st, target
  <1>10. Sound(Refreshed(st), hold) /\ Refreshed(st).on
    BY <1>8, RefreshedSound DEF Keeps
  <1>11. ASSUME NEW x, Sound(x, hold), x.on, Go(p, Do(p, "save", x)) PROVE Inv'
    <2>1. Fits(Doing(proc[p].op, "save", x), hold) /\ Doing(proc[p].op, "save", x).pc = "save"
      BY <1>1, <1>11, DoingFits
    <2> QED  BY <1>1, <1>2, <1>3, <1>11, <2>1, Moves DEF Do
  <1>12. CASE Go(p, Latching(proc[p].op, st, target))
    <2>1. Fits(Latching(proc[p].op, st, target), hold) /\ Latching(proc[p].op, st, target).pc = "latch"
      BY <1>1, <1>8, <1>9, LatchingFits
    <2> QED  BY <1>1, <1>2, <1>3, <1>12, <2>1, Moves
  <1> QED  BY <1>5, <1>8, <1>10, <1>11, <1>12

\* What is at s is replaced
With(hs, s, h) == [hs EXCEPT ![s] = h]

\* One Hold of a slot grows
LEMMA HoldGrows ==
    ASSUME NEW hs \in Holds, \A t \in Slots : Ordered(hs[t]),
           NEW s \in Slots, NEW o \in Offsets, NEW a \in HoldRecs, Grown(hs[s][o], a),
           Ordered(With(hs[s], o, a))
    PROVE  LET ks == With(hs, s, With(hs[s], o, a)) IN
           ks \in Holds /\ Grows(hs, ks) /\ \A t \in Slots : Ordered(ks[t])
  <1> DEFINE k == With(hs[s], o, a)
             ks == With(hs, s, k)
  <1>1. hs[s] \in [Offsets -> HoldRecs]
    BY DEF Holds
  <1>2. k \in [Offsets -> HoldRecs] /\ \A r \in Offsets : k[r] = IF r = o THEN a ELSE hs[s][r]
    BY <1>1 DEF With
  <1> HIDE DEF k
  <1>3. ks \in Holds /\ \A t \in Slots : ks[t] = IF t = s THEN k ELSE hs[t]
    BY <1>2 DEF Holds, With
  <1> HIDE DEF ks
  <1>4. Grows(hs, ks)
    <2>1. Grows(hs, hs)
      BY SameGrows
    <2>2. ASSUME NEW t \in Slots, NEW r \in Offsets PROVE Grown(hs[t][r], ks[t][r])
      <3>1. Grown(hs[t][r], hs[t][r])
        BY <2>1 DEF Grows
      <3>2. CASE t = s /\ r = o
        <4>1. ks[t][r] = a /\ hs[t][r] = hs[s][o]
          BY <1>2, <1>3, <3>2
        <4> QED  BY <4>1
      <3>3. CASE ~(t = s /\ r = o)
        <4>1. ks[t][r] = hs[t][r]
          BY <1>2, <1>3, <3>3
        <4> QED  BY <3>1, <4>1
      <3> QED  BY <3>2, <3>3
    <2> QED  BY <2>2 DEF Grows
  <1>5. \A t \in Slots : Ordered(ks[t])
    BY <1>3 DEF k
  <1> QED  BY <1>3, <1>4, <1>5 DEF k, ks

\* The next Hold of a slot is queued
LEMMA QueueGrows ==
    ASSUME mix \in Mixes, NEW hs \in Holds, \A t \in Slots : Ordered(hs[t]),
           NEW s \in Slots, NEW o \in Offsets, NEW q \in Offsets,
           hs[s][q].st = "ok", hs[s][q].turns = Budget(q), o = q + Budget(q),
           NEW ks, ks = [hs EXCEPT ![s][o] = Queued(@)]
    PROVE  /\ ks \in Holds /\ Grows(hs, ks) /\ \A t \in Slots : Ordered(ks[t])
           /\ ks[s][o].st # "none"
  <1> DEFINE h == hs[s]
             a == Queued(hs[s][o])
             k == With(hs[s], o, a)
  <1>1. h \in [Offsets -> HoldRecs] /\ Ordered(h)
    BY DEF Holds
  <1>2. a \in HoldRecs /\ Grown(hs[s][o], a) /\ a.st # "none"
    BY <1>1, QueuedTyped
  <1>3. Ordered(k)
    BY <1>1, QueuedOrdered DEF With
  <1>4. ks = With(hs, s, k)
    BY DEF With
  <1> HIDE DEF a
  <1>5. k[o] = a /\ ks[s] = k
    BY <1>1, <1>4 DEF Holds, With
  <1> DEFINE m == With(hs, s, k)
  <1>6. m \in Holds /\ Grows(hs, m) /\ \A t \in Slots : Ordered(m[t])
    BY <1>2, <1>3, HoldGrows
  <1> HIDE DEF m
  <1>7. ks = m
    BY <1>4 DEF m
  <1> QED  BY <1>2, <1>5, <1>6, <1>7

\* The Hold of a rotation is started in its turn
LEMMA RotationGrows ==
    ASSUME Inv, NEW p \in Procs, proc[p].pc = "rotate", NEW s, s = Next1(p),
           NEW o, o = proc[p].st.children[s].round, NEW ks, ks = [hold EXCEPT ![s][o] = Queued(@)]
    PROVE  /\ s \in proc[p].todo /\ s \in Slots /\ o \in Offsets
           /\ ks \in Holds /\ Grows(hold, ks) /\ \A q \in Slots : Ordered(ks[q])
           /\ ks[s][o].st # "none"
  <1>1. proc[p] \in Frames /\ Fits(proc[p], hold) /\ Sound(proc[p].st, hold)
    BY Working
  <1>2. PICK x \in proc[p].todo : (\A t \in proc[p].todo : x <= t) /\ Rotates(proc[p].st.children[x], hold[x])
    BY <1>1 DEF Fits
  <1>3. x = s /\ s \in proc[p].todo /\ s \in Slots
    <2>1. proc[p].todo \subseteq Slots /\ Slots \subseteq Nat
      BY <1>1, LoopConstants DEF Frames
    <2>2. proc[p].todo \subseteq Nat /\ proc[p].todo # {}
      BY <1>2, <2>1
    <2>3. \A y \in proc[p].todo : (\A t \in proc[p].todo : y <= t) => y = Next1(p)
      BY <2>2, Next1Least
    <2> QED  BY <1>2, <2>1, <2>3
  <1> DEFINE c == proc[p].st.children[s]
             q == c.hold
  <1>4. c \in Child /\ Rotates(c, hold[s])
    BY <1>1, <1>2, <1>3, StateTyped DEF Sound
  <1>5. q \in Offsets /\ hold[s][q].st = "ok" /\ hold[s][q].turns = Budget(q) /\ o = q + Budget(q) /\ o < MaxRounds
    BY <1>4 DEF Rotates, Child
  <1>6. mix \in Mixes /\ hold \in Holds /\ hold[s] \in [Offsets -> HoldRecs] /\ Ordered(hold[s])
    BY <1>3 DEF Inv, Holds
  <1> HIDE DEF c, q
  <1>7. o \in Offsets
    <2>1. q \in Nat /\ Budget(q) \in Nat
      BY <1>5, <1>6, BudgetTyped
    <2> QED  BY <1>5, <2>1, LoopConstants DEF Offsets
  <1>8. \A t \in Slots : Ordered(hold[t])
    BY DEF Inv
  <1> QED  BY <1>3, <1>5, <1>6, <1>7, <1>8, QueueGrows

\* A rotation: the next Hold is queued and saved, or refused
LEMMA RotateStep ==
    ASSUME Inv, NEW p \in Procs, Rotate(p)
    PROVE  Inv'
  <1> DEFINE s == Next1(p)
             st == proc[p].st
             o == st.children[s].round
             ks == [hold EXCEPT ![s][o] = Queued(@)]
  <1>1. /\ proc[p] \in Frames /\ Fits(proc[p], hold) /\ Sound(st, hold) /\ proc[p].op \in Ops
        /\ p = "host" /\ proc[p].pc \in Works => store.on
        /\ proc[p].pc \in Works => st.on
    BY Working
  <1>2. proc[p].pc = "rotate" /\ {"rotate", "reconcile", "save"} \subseteq Works /\ UNCHANGED <<mix, beat, env>>
    BY DEF Rotate, At, Works, Places
  <1>3. beat' \in Row /\ env' \in Envs /\ hold \in Holds /\ Sound(store, hold) /\ \A t \in Slots : Ordered(hold[t])
    BY <1>2 DEF Inv
  <1>4. /\ s \in proc[p].todo /\ s \in Slots /\ o \in Offsets
        /\ ks \in Holds /\ Grows(hold, ks) /\ \A q \in Slots : Ordered(ks[q])
        /\ ks[s][o].st # "none"
    BY <1>2, RotationGrows
  <1>5. CASE Stopped(store)
    <2>1. Go(p, Do(p, "save", store)) /\ UNCHANGED <<store, hold>>
      BY <1>5 DEF Rotate
    <2>2. store.on
      BY <1>5 DEF Inv, Starting
    <2>3. Fits(Doing(proc[p].op, "save", store), hold) /\ Doing(proc[p].op, "save", store).pc = "save"
      BY <1>1, <1>3, <2>2, DoingFits
    <2> QED  BY <1>2, <1>3, <2>1, <2>2, <2>3, Moves DEF Do
  <1>6. CASE ~Stopped(store)
    <2>1. PICK accepted \in BOOLEAN :
            LET t == [st EXCEPT !.children[s] = Acquired(@, o, accepted)] IN
            /\ store' = t
            /\ hold' = IF accepted THEN ks ELSE hold
            /\ Go(p, [proc[p] EXCEPT !.pc = "reconcile", !.st = t, !.todo = @ \ {s}, !.changed = TRUE])
      BY <1>6 DEF Rotate
    <2> DEFINE c == Acquired(st.children[s], o, accepted)
               t == [st EXCEPT !.children[s] = c]
               rest == proc[p].todo \ {s}
               f == [proc[p] EXCEPT !.pc = "reconcile", !.st = t, !.todo = rest, !.changed = TRUE]
    <2>2. store' = t /\ Go(p, f) /\ hold' = IF accepted THEN ks ELSE hold
      BY <2>1
    <2> HIDE DEF ks
    <2>3. hold' \in Holds /\ Grows(hold, hold') /\ \A q \in Slots : Ordered(hold'[q])
      BY <1>3, <1>4, <2>2, SameGrows
    <2>4. Sound(st, hold')
      BY <1>1, <1>3, <2>3, KnownStays DEF Sound
    <2>5. c \in Child /\ ChildKnown(c, hold'[s])
      <3> DEFINE b == st.children[s]
                 n == IF accepted THEN o ELSE NoHold
                 ph == IF accepted THEN "acquiring" ELSE "blocked"
      <3>1. b \in Child
        BY <1>1, <1>4, StateTyped DEF Sound
      <3>2. c = [b EXCEPT !.done = o, !.hold = n, !.phase = ph, !.rel = FALSE]
        BY DEF Acquired
      <3>3. n \in Offsets \cup {NoHold} /\ ph \in {"acquiring", "running", "terminal", "completed", "blocked"}
        BY <1>4
      <3>4. b.round = o
        OBVIOUS
      <3> HIDE DEF c, b, ph, o
      <3>5. c \in Child
        BY <1>4, <3>1, <3>2, <3>3, ZenonT(30) DEF Child
      <3>6. c.hold = n /\ c.done = o /\ c.round = o /\ ~c.rel
        BY <3>1, <3>2, <3>4 DEF Child
      <3>7. CASE accepted
        <4>1. hold'[s][o] \in HoldRecs /\ hold'[s][o].st # "none" /\ o \in Nat
          BY <1>4, <2>2, <2>3, <3>7, LoopConstants DEF Holds, Offsets
        <4>2. o <= Larger(1, o + hold'[s][o].turns)
          BY <4>1, LoopConstants DEF HoldRecs, Larger
        <4> QED  BY <3>5, <3>6, <3>7, <4>1, <4>2 DEF ChildKnown
      <3>8. CASE ~accepted
        BY <3>5, <3>6, <3>8 DEF ChildKnown
      <3> QED  BY <3>7, <3>8
    <2> HIDE DEF c
    <2>6. Sound(t, hold') /\ t.on = st.on /\ Held(t) \ {s} = Held(st) \ {s}
      BY <1>4, <2>4, <2>5, ChildSound
    <2> HIDE DEF t
    <2>7. f \in Frames
      BY <1>1, <2>6, ZenonT(30) DEF Frames, Sound, Places
    <2>8. f.pc = "reconcile" /\ f.st = t /\ f.todo = rest
      BY <1>1 DEF Frames
    <2> HIDE DEF f
    <2>9. Fits(f, hold')
      <3>1. rest \subseteq Held(t)
        BY <1>1, <2>6 DEF Fits
      <3> QED  BY <1>1, <1>2, <2>6, <2>7, <2>8, <3>1 DEF Fits, Sound
    <2>10. t.on /\ (p = "host" => store.on)
      BY <1>1, <1>2, <2>6
    <2>11. store.on \in BOOLEAN /\ t.on \in BOOLEAN
      BY <1>3, <2>6, StateTyped DEF Sound
    <2> HIDE DEF s, o, st, rest
    <2>12. p = "host" => store'.on = store.on /\ store.on
      BY <2>2, <2>10, <2>11
    <2> QED  BY <1>2, <1>3, <2>2, <2>3, <2>6, <2>8, <2>9, <2>10, <2>12, Writes
  <1> QED  BY <1>5, <1>6

-----------------------------------------------------------------------------
(* The heartbeat's row, deaths and restarts.                               *)

\* _finish cancels the heartbeat
LEMMA CancelStep ==
    ASSUME Inv, NEW p \in Procs, Cancel(p)
    PROVE  Inv'
  <1> DEFINE st == proc[p].st
  <1>0. PICK over \in BOOLEAN :
          /\ \E fails : Call(fails)
          /\ beat' = beat \/ beat' = Cancelled(beat)
          /\ Go(p, Do(p, "drain", [st EXCEPT !.cleanup.beat = over]))
    BY DEF Cancel
  <1> DEFINE c == [st.cleanup EXCEPT !.beat = over]
             t == [st EXCEPT !.cleanup = c]
  <1>1. /\ Fits(proc[p], hold) /\ Sound(st, hold) /\ proc[p].op \in Ops
        /\ p = "host" /\ proc[p].pc \in Works => store.on
        /\ proc[p].pc \in Works => st.on
    BY Working
  <1>2. proc[p].pc = "cancel" /\ "cancel" \in Works /\ UNCHANGED <<mix, store, hold>>
    BY DEF Cancel, At, Works, Places
  <1>3. beat' \in Row /\ env' \in Envs
    <2>1. beat \in Row /\ env \in Envs
      BY DEF Inv
    <2>2. beat' \in {beat, [beat EXCEPT !.st = "CANCELLED", !.next = "none"]}
      BY <1>0 DEF Cancelled
    <2>3. [beat EXCEPT !.st = "CANCELLED", !.next = "none"] \in Row
      BY <2>1, ZenonT(30) DEF Row
    <2>4. env' \in Envs
      BY <1>0, <2>1, CallTyped
    <2> QED  BY <2>1, <2>2, <2>3, <2>4
  <1>4. st.cleanup \in Cleanups /\ CleanupKnown(st.cleanup) /\ st.cleanup.on
    BY <1>1, <1>2, StateTyped DEF Sound, Known, Fits
  <1>5. c \in Cleanups
    BY <1>4, ZenonT(30) DEF Cleanups
  <1>6. c.on = st.cleanup.on /\ c.target = st.cleanup.target
    BY <1>4 DEF Cleanups
  <1>7. [st EXCEPT !.cleanup.beat = over] = t
    OBVIOUS
  <1> HIDE DEF c
  <1>8. CleanupKnown(c)
    BY <1>4, <1>6 DEF CleanupKnown
  <1>9. Sound(t, hold) /\ t.on = st.on /\ t.cleanup = c
    BY <1>1, <1>5, <1>8, CleanupSound
  <1> HIDE DEF t
  <1>10. Fits(Doing(proc[p].op, "drain", t), hold) /\ Doing(proc[p].op, "drain", t).pc = "drain"
    BY <1>1, <1>2, <1>4, <1>6, <1>9, DoingFits
  <1> QED  BY <1>0, <1>1, <1>2, <1>3, <1>7, <1>10, Moves DEF Do

\* record, in its two statements, and the host's restart
LEMMA RecordSteps ==
    ASSUME Inv, ReadRow \/ WriteRow \/ Restart
    PROVE  Inv'
  <1>1. "host" \in Procs /\ beat \in Row /\ env \in Envs
    BY DEF Procs, Inv
  <1>2. proc["host"] \in Frames /\ Fits(proc["host"], hold)
    BY <1>1, Working
  <1>3. Fits(Idle, hold) /\ Idle.pc = "idle"
    BY IdleFits
  <1>4. CASE ReadRow
    <2> DEFINE f == [proc["host"] EXCEPT !.pc = "writing", !.row = beat]
    <2>1. Go("host", f) /\ UNCHANGED <<mix, store, hold, beat, env>>
      BY <1>4 DEF ReadRow
    <2>2. f \in Frames
      BY <1>1, <1>2, ZenonT(30) DEF Frames, Places
    <2>3. f.pc = "writing" /\ f.st = proc["host"].st /\ f.todo = proc["host"].todo
      BY <1>2 DEF Frames
    <2> HIDE DEF f
    <2>4. Fits(f, hold) /\ f.pc \notin Works
      BY <1>2, <2>2, <2>3 DEF Fits, Works
    <2> QED  BY <1>1, <2>1, <2>3, <2>4, Moves
  <1>5. CASE WriteRow
    <2> DEFINE row == proc["host"].row
               won == proc["host"].won
    <2>1. beat' = Recorded(row, won) /\ Go("host", Idle) /\ UNCHANGED <<mix, store, hold, env>>
      BY <1>5 DEF WriteRow
    <2>2. row \in Row
      BY <1>2 DEF Frames
    <2> HIDE DEF row, won
    <2>3. Recorded(row, won) \in Row
      <3> DEFINE runs == row.runs + (IF won THEN 1 ELSE 0)
                 fails == IF won THEN 0 ELSE row.fails + 1
                 st == IF row.st = "ACTIVE" /\ won /\ runs >= MaxRuns THEN "COMPLETED"
                       ELSE IF row.st = "ACTIVE" /\ fails >= 3 THEN "FAILED" ELSE row.st
                 next == IF st = "ACTIVE" THEN row.next ELSE "none"
      <3>1. Recorded(row, won) = [row EXCEPT !.runs = runs, !.fails = fails, !.st = st, !.next = next]
        BY DEF Recorded
      <3>2. runs \in Nat /\ fails \in Nat
        BY <2>2 DEF Row
      <3>3. st \in {"none", "ACTIVE", "CANCELLED", "COMPLETED", "FAILED"} /\ row.next \in {"none", "later", "due"}
        BY <2>2 DEF Row
      <3> HIDE DEF st
      <3>4. next \in {"none", "later", "due"}
        BY <3>3
      <3> HIDE DEF runs, fails, next
      <3> QED  BY <2>2, <3>1, <3>2, <3>3, <3>4, ZenonT(30) DEF Row
    <2> QED  BY <1>1, <1>3, <2>1, <2>3, Moves DEF Works
  <1>6. CASE Restart
    BY <1>1, <1>3, <1>6, Moves DEF Restart, Works
  <1> QED  BY <1>4, <1>5, <1>6

\* A process dies, also between a rotation's Hold and the state that names it
LEMMA CrashStep ==
    ASSUME Inv, NEW p \in Procs, Crash(p)
    PROVE  Inv'
  <1> DEFINE f == [Idle EXCEPT !.up = p # "host"]
             s == Next1(p)
             ks == [hold EXCEPT ![s][proc[p].st.children[s].round] = Queued(@)]
  <1>1. Go(p, f) /\ UNCHANGED <<mix, store, beat>> /\ (hold' = hold \/ (proc[p].pc = "rotate" /\ hold' = ks))
    BY DEF Crash
  <1>2. env' \in Envs
    <2> DEFINE n == env.crashes + 1
    <2>1. env' = [env EXCEPT !.crashes = n] /\ env \in Envs
      BY DEF Crash, Inv
    <2>2. n \in Nat
      BY <2>1 DEF Envs
    <2> HIDE DEF n
    <2> QED  BY <2>1, <2>2, ZenonT(30) DEF Envs
  <1>3. hold \in Holds /\ beat' \in Row /\ Sound(store, hold) /\ (\A t \in Slots : Ordered(hold[t]))
        /\ (~store.on => ~Stopped(store))
    BY <1>1 DEF Inv, Starting
  <1>4. proc[p].pc = "rotate" => ks \in Holds /\ Grows(hold, ks) /\ \A t \in Slots : Ordered(ks[t])
    BY RotationGrows
  <1> HIDE DEF ks
  <1>5. hold' \in Holds /\ Grows(hold, hold') /\ \A t \in Slots : Ordered(hold'[t])
    BY <1>1, <1>3, <1>4, SameGrows
  <1>6. Sound(store', hold')
    BY <1>1, <1>3, <1>5, KnownStays DEF Sound
  <1>7. Fits(f, hold') /\ f.pc = "idle"
    BY DownFits
  <1> HIDE DEF f
  <1> QED  BY <1>1, <1>2, <1>3, <1>5, <1>6, <1>7, Writes DEF Works

-----------------------------------------------------------------------------
(* start, and the drain.                                                   *)

\* start queues the first Holds
LEMMA StartStep ==
    ASSUME Inv, NEW p \in Procs, Start(p)
    PROVE  Inv'
  <1>1. PICK got \in SUBSET mix.slots, created \in BOOLEAN :
         /\ Call(~created)
         /\ LET st == [NoState EXCEPT !.on = TRUE, !.named = got # {}, !.children = [s \in Slots |->
                           IF s \in mix.slots THEN Acquired(NewChild, 0, s \in got) ELSE NewChild]]
            IN
            /\ hold' = [s \in Slots |-> IF s \in got THEN [hold[s] EXCEPT ![0] = Queued(hold[s][0])]
                                                     ELSE hold[s]]
            /\ IF got = {} \/ ~created
                 THEN /\ Go(p, Latching(proc[p].op, [st EXCEPT !.status = "blocked"], "blocked"))
                      /\ UNCHANGED beat
                 ELSE /\ Go(p, Do(p, "create", st))
                      /\ beat' = IF beat.st # "none" THEN beat
                                 ELSE [NoBeat EXCEPT !.st = "ACTIVE", !.next = "later"]
    BY DEF Start
  <1>2. p = "mcp" /\ ~store.on /\ UNCHANGED <<mix, store>>
    BY DEF Start
  <1>3. mix \in Mixes /\ hold \in Holds /\ Sound(store, hold) /\ env' \in Envs /\ beat \in Row /\ proc[p].op \in Ops
        /\ (~store.on => ~Stopped(store))
    <2>1. env \in Envs
      BY DEF Inv
    <2>2. env' \in Envs
      BY <1>1, <2>1, CallTyped
    <2> QED  BY <1>2, <2>2, Working DEF Inv, Starting
  <1>4. \A s \in Slots : hold[s] \in [Offsets -> HoldRecs] /\ Ordered(hold[s])
    BY DEF Inv, Holds
  <1>5. 0 \in Offsets /\ NewChild \in Child
    <2>1. MaxRounds \in Nat /\ MaxRounds >= 1
      BY LoopConstants
    <2> QED  BY <2>1 DEF NewChild, Child, NoHold, Offsets
  <1> DEFINE f == [s \in Slots |-> IF s \in mix.slots THEN Acquired(NewChild, 0, s \in got) ELSE NewChild]
             n0 == got # {}
             st == [NoState EXCEPT !.on = TRUE, !.named = n0, !.children = f]
             a(s) == Queued(hold[s][0])
  <1>6. ASSUME NEW s \in Slots
        PROVE  /\ [hold[s] EXCEPT ![0] = a(s)] \in [Offsets -> HoldRecs]
               /\ Ordered([hold[s] EXCEPT ![0] = a(s)])
               /\ \A o \in Offsets : Grown(hold[s][o], [hold[s] EXCEPT ![0] = a(s)][o])
               /\ [hold[s] EXCEPT ![0] = a(s)][0].st # "none"
    <2>1. hold[s][0] \in HoldRecs
      BY <1>4, <1>5
    <2>2. a(s) \in HoldRecs /\ Grown(hold[s][0], a(s)) /\ a(s).st # "none"
      BY <2>1, QueuedTyped
    <2>3. Ordered([hold[s] EXCEPT ![0] = a(s)])
      BY <1>3, <1>4, <1>5, QueuedOrdered
    <2> DEFINE k == [hold[s] EXCEPT ![0] = a(s)]
    <2> HIDE DEF a
    <2>4. k \in [Offsets -> HoldRecs] /\ k[0] = a(s) /\ \A o \in Offsets : o # 0 => k[o] = hold[s][o]
      BY <1>4, <1>5, <2>2
    <2> HIDE DEF k
    <2>5. \A o \in Offsets : Grown(hold[s][o], hold[s][o])
      BY <1>3, SameGrows DEF Grows
    <2>6. \A o \in Offsets : Grown(hold[s][o], k[o])
      BY <2>2, <2>4, <2>5
    <2> QED  BY <2>2, <2>3, <2>4, <2>6 DEF k
  <1>7. \A s \in Slots : hold'[s] = IF s \in got THEN [hold[s] EXCEPT ![0] = a(s)] ELSE hold[s]
    BY <1>1
  <1>8. hold' = [s \in Slots |-> hold'[s]]
    BY <1>1
  <1> HIDE DEF a
  <1>9. ASSUME NEW s \in Slots
        PROVE  /\ hold'[s] \in [Offsets -> HoldRecs] /\ Ordered(hold'[s])
               /\ \A o \in Offsets : Grown(hold[s][o], hold'[s][o])
               /\ s \in got => hold'[s][0].st # "none"
    <2>1. CASE s \in got
      <3>1. hold'[s] = [hold[s] EXCEPT ![0] = a(s)]
        BY <1>7, <2>1
      <3> QED  BY <1>6, <3>1
    <2>2. CASE s \notin got
      <3>1. hold'[s] = hold[s]
        BY <1>7, <2>2
      <3>2. \A o \in Offsets : Grown(hold[s][o], hold[s][o])
        BY <1>3, SameGrows DEF Grows
      <3> QED  BY <1>4, <2>2, <3>1, <3>2
    <2> QED  BY <2>1, <2>2
  <1>10. hold' \in Holds /\ Grows(hold, hold') /\ \A s \in Slots : Ordered(hold'[s])
    BY <1>8, <1>9 DEF Holds, Grows
  <1>11. ASSUME NEW s \in Slots PROVE f[s] \in Child /\ ChildKnown(f[s], hold'[s])
    <2>1. CASE s \in mix.slots
      <3> DEFINE x == s \in got
                 n == IF x THEN 0 ELSE NoHold
                 ph == IF x THEN "acquiring" ELSE "blocked"
      <3>1. f[s] = [NewChild EXCEPT !.done = 0, !.hold = n, !.phase = ph, !.rel = FALSE]
        BY <2>1 DEF Acquired
      <3>2. n \in Offsets \cup {NoHold} /\ ph \in {"acquiring", "running", "terminal", "completed", "blocked"}
        BY <1>5
      <3>3. NewChild.round = 0
        BY DEF NewChild
      <3>4. n # NoHold => hold'[s][0].st # "none" /\ n = 0 /\ hold'[s][0] \in HoldRecs
        BY <1>5, <1>9
      <3> HIDE DEF f, n, ph
      <3>5. f[s] \in Child
        BY <1>5, <3>1, <3>2, ZenonT(30) DEF Child
      <3>6. f[s].hold = n /\ f[s].done = 0 /\ f[s].round = 0 /\ ~f[s].rel
        BY <1>5, <3>1, <3>3 DEF Child
      <3>7. hold'[s][0] \in HoldRecs => 0 <= Larger(1, 0 + hold'[s][0].turns)
        BY LoopConstants DEF HoldRecs, Larger
      <3> QED  BY <3>4, <3>5, <3>6, <3>7 DEF ChildKnown
    <2>2. CASE s \notin mix.slots
      <3>1. f[s] = NewChild
        BY <2>2
      <3> QED  BY <1>5, <3>1 DEF ChildKnown, NewChild
    <2> QED  BY <2>1, <2>2
  <1>12. f \in [Slots -> Child] /\ \A s \in Slots : ChildKnown(f[s], hold'[s])
    BY <1>11
  <1> HIDE DEF f
  <1>13. Sound(st, hold') /\ st.on
    <2> DEFINE st0 == [NoState EXCEPT !.on = TRUE, !.named = n0]
    <2>0. n0 \in BOOLEAN
      OBVIOUS
    <2>1. Sound(NoState, hold')
      BY NoStateSound
    <2> HIDE DEF n0
    <2>2. st0 \in State
      BY <2>0, <2>1, ZenonT(30) DEF Sound, State
    <2>3. st0.on /\ st0.children = NoState.children /\ st0.close = NoState.close /\ st0.cleanup = NoState.cleanup
      BY <2>1 DEF Sound, State
    <2>4. st = [st0 EXCEPT !.children = f]
      OBVIOUS
    <2> HIDE DEF st0
    <2>5. Sound(st0, hold')
      BY <2>1, <2>2, <2>3 DEF Sound, Known
    <2> QED  BY <1>12, <2>3, <2>4, <2>5, ChildrenSound DEF Keeps
  <1> HIDE DEF st
  <1>14. Sound(store', hold') /\ store'.on = store.on
    BY <1>2, <1>3, <1>10, KnownStays DEF Sound
  <1>15. CASE got = {} \/ ~created
    <2> DEFINE t == [st EXCEPT !.status = "blocked"]
    <2>1. Sound(t, hold') /\ Keeps(st, t)
      BY <1>13, StatusSound DEF Statuses, Ended
    <2>2. Go(p, Latching(proc[p].op, t, "blocked")) /\ beat' \in Row
      BY <1>1, <1>3, <1>15 DEF st, f, n0
    <2> HIDE DEF t
    <2>3. Fits(Latching(proc[p].op, t, "blocked"), hold') /\ Latching(proc[p].op, t, "blocked").pc = "latch"
      BY <1>3, <1>13, <2>1, LatchingFits DEF Keeps, Ended
    <2> QED  BY <1>2, <1>3, <1>10, <1>14, <2>2, <2>3, Writes
  <1>16. CASE ~(got = {} \/ ~created)
    <2>1. Go(p, Doing(proc[p].op, "create", st))
      BY <1>1, <1>16 DEF st, f, n0, Do
    <2>2. beat' \in Row
      <3> DEFINE b == [NoBeat EXCEPT !.st = "ACTIVE", !.next = "later"]
      <3>1. beat' = beat \/ beat' = b
        BY <1>1, <1>16
      <3>2. b \in Row
        BY DEF NoBeat, Row
      <3> QED  BY <1>3, <3>1, <3>2
    <2>3. Fits(Doing(proc[p].op, "create", st), hold') /\ Doing(proc[p].op, "create", st).pc = "create"
      BY <1>3, <1>13, DoingFits
    <2> QED  BY <1>2, <1>3, <1>10, <1>14, <2>1, <2>2, <2>3, Writes
  <1> QED  BY <1>15, <1>16

\* The Holds are stopped or closed, and what their owners answer is recorded
LEMMA DrainStep ==
    ASSUME Inv, NEW p \in Procs, Drain(p)
    PROVE  /\ Inv' /\ Keeps(store, store')
           /\ \A s \in Slots, o \in Offsets : hold'[s][o].st = hold[s][o].st
  <1> DEFINE st == proc[p].st
             held == Held(st)
             bound == [s \in held |-> st.children[s].hold]
  <1>1. PICK answer \in [held -> {"failed", "completed", "pending", "managed"}],
             told \in SUBSET held, unread \in SUBSET held :
         /\ \A s \in held : answer[s] \in IF st.close.on THEN {"failed"} \cup Answers(HoldOf(st, s))
                                     ELSE {"pending"}
         /\ told # {} => st.close.on /\ \A s \in told : answer[s] = "failed"
         /\ Call(unread # {})
         /\ LET read == {s \in held : answer[s] # "failed"}
                st1 == [st EXCEPT !.children = [s \in Slots |->
                          IF s \in held
                            THEN [@[s] EXCEPT !.rel = s \in read \ unread /\ HoldOf(st, s).rel]
                            ELSE @[s]]]
            IN
            /\ hold' = [s \in Slots |-> [o \in Offsets |->
                  IF s \in read /\ o = bound[s]
                    THEN [hold[s][o] EXCEPT !.bound = @ \/ st.close.on]
                    ELSE hold[s][o]]]
            /\ store' = IF st.close.on THEN WithReports(store, bound, [s \in read \cup told |-> answer[s]])
                                       ELSE store
            /\ Go(p, Do(p, "save", Concluded(st1, held, answer)))
    BY DEF Drain
  <1> DEFINE read == {s \in held : answer[s] # "failed"}
             f == [s \in Slots |-> IF s \in held
                     THEN [st.children[s] EXCEPT !.rel = s \in read \ unread /\ HoldOf(st, s).rel]
                     ELSE st.children[s]]
             st1 == [st EXCEPT !.children = f]
             report == [s \in read \cup told |-> answer[s]]
  <1>2. /\ Fits(proc[p], hold) /\ Sound(st, hold) /\ proc[p].op \in Ops
        /\ p = "host" /\ proc[p].pc \in Works => store.on
        /\ proc[p].pc \in Works => st.on
    BY Working
  <1>3. proc[p].pc = "drain" /\ "drain" \in Works /\ UNCHANGED <<mix, beat>>
    BY DEF Drain, At, Works, Places
  <1>4. /\ beat' \in Row /\ env' \in Envs /\ mix \in Mixes /\ hold \in Holds /\ Sound(store, hold)
        /\ ~store.on => ~Stopped(store)
    <2>1. env \in Envs
      BY DEF Inv
    <2>2. env' \in Envs
      BY <1>1, <2>1, CallTyped
    <2> QED  BY <1>3, <2>2 DEF Inv, Starting
  <1>5. held \subseteq Slots /\ st.on /\ st.cleanup.on /\ st.close.on \in BOOLEAN
    <2>1. mix.slots \subseteq Slots
      BY <1>4, LoopConstants DEF MixType
    <2> QED  BY <1>2, <1>3, <2>1, StateTyped DEF Held, Fits, Sound, Closes
  <1>6. \A s \in held : /\ bound[s] \in Offsets /\ bound[s] = st.children[s].hold
                        /\ HoldOf(st, s) = hold[s][bound[s]]
    <2>1. \A s \in Slots : st.children[s] \in Child
      BY <1>2, StateTyped DEF Sound
    <2> QED  BY <1>5, <2>1 DEF Held, Child, HoldOf
  <1> HIDE DEF held, bound
  <1>7. ASSUME NEW s \in Slots, NEW o \in Offsets
        PROVE  /\ hold'[s][o] \in HoldRecs /\ hold'[s][o].st = hold[s][o].st
               /\ hold'[s][o].turns = hold[s][o].turns /\ hold'[s][o].rel = hold[s][o].rel
    <2> DEFINE a == hold[s][o]
               x == a.bound \/ st.close.on
    <2>1. hold'[s][o] = a \/ hold'[s][o] = [a EXCEPT !.bound = x]
      BY <1>1
    <2>2. a \in HoldRecs
      BY <1>4 DEF Holds
    <2>3. x \in BOOLEAN
      BY <1>5, <2>2 DEF HoldRecs
    <2> HIDE DEF a, x
    <2>4. [a EXCEPT !.bound = x] \in HoldRecs
      BY <2>2, <2>3, ZenonT(30) DEF HoldRecs
    <2>5. /\ [a EXCEPT !.bound = x].st = a.st
          /\ [a EXCEPT !.bound = x].turns = a.turns /\ [a EXCEPT !.bound = x].rel = a.rel
      BY <2>2 DEF HoldRecs
    <2>6. /\ hold'[s][o] \in HoldRecs /\ hold'[s][o].st = a.st
          /\ hold'[s][o].turns = a.turns /\ hold'[s][o].rel = a.rel
      BY <2>1, <2>2, <2>4, <2>5
    <2> QED  BY <2>6 DEF a
  <1>8. hold' \in Holds
    <2>1. \E g \in [Slots -> [Offsets -> HoldRecs]] : hold' = g
      <3> DEFINE g == [s \in Slots |-> [o \in Offsets |-> hold'[s][o]]]
      <3>1. hold' = g
        BY <1>1
      <3>2. g \in [Slots -> [Offsets -> HoldRecs]]
        BY <1>7
      <3> QED  BY <3>1, <3>2
    <2> QED  BY <2>1 DEF Holds
  <1>9. Grows(hold, hold')
    <2>1. \A s \in Slots, o \in Offsets : hold[s][o].turns \in Int
      BY <1>4 DEF Holds, HoldRecs
    <2> QED  BY <1>7, <2>1 DEF Grows, Grown
  <1>10. ASSUME NEW s \in Slots PROVE Ordered(hold'[s])
    <2>1. hold[s] \in [Offsets -> HoldRecs] /\ hold'[s] \in [Offsets -> HoldRecs] /\ Ordered(hold[s])
      BY <1>8 DEF Inv, Holds
    <2> QED  BY <1>4, <1>7, <2>1, SameOrdered
  <1>11. /\ store' = IF st.close.on THEN WithReports(store, bound, report) ELSE store
         /\ Go(p, Do(p, "save", Concluded(st1, held, answer)))
    BY <1>1
  <1>12. Sound(store', hold) /\ Keeps(store, store')
    <2>1. DOMAIN report = read \cup told /\ read \subseteq held /\ told \subseteq held
      BY <1>1
    <2>2. ASSUME st.close.on, NEW s \in DOMAIN report
          PROVE  /\ report[s] \in ChildReports /\ bound[s] \in Offsets
                 /\ report[s] = "completed" => hold[s][bound[s]].rel
      <3>1. s \in held /\ report[s] = answer[s] /\ bound[s] \in Offsets /\ HoldOf(st, s) = hold[s][bound[s]]
        BY <1>6, <2>1, <2>2
      <3>2. answer[s] \in {"failed"} \cup Answers(HoldOf(st, s))
        BY <1>1, <2>2, <3>1
      <3> QED  BY <3>1, <3>2 DEF Answers, ChildReports
    <2>3. DOMAIN report \subseteq Slots
      BY <1>5, <2>1
    <2> HIDE DEF report
    <2>4. CASE st.close.on
      <3>1. Sound(WithReports(store, bound, report), hold) /\ Keeps(store, WithReports(store, bound, report))
        BY <1>4, <2>2, <2>3, <2>4, WithReportsSound
      <3> QED  BY <1>11, <2>4, <3>1
    <2>5. CASE ~st.close.on
      BY <1>4, <1>11, <2>5 DEF Keeps
    <2> QED  BY <2>4, <2>5
  <1>13. ASSUME NEW s \in Slots PROVE f[s] \in Child /\ ChildKnown(f[s], hold[s])
    <2> DEFINE c == st.children[s]
               x == s \in read \ unread /\ HoldOf(st, s).rel
    <2>1. c \in Child /\ ChildKnown(c, hold[s])
      BY <1>2, StateTyped DEF Sound, Known
    <2>2. CASE s \in held
      <3>1. f[s] = [c EXCEPT !.rel = x]
        BY <2>2
      <3>2. x => hold[s][c.hold].rel
        BY <1>6, <2>2
      <3>3. x \in BOOLEAN
        <4>1. hold[s][bound[s]] \in HoldRecs
          BY <1>4, <1>6, <2>2 DEF Holds
        <4> QED  BY <1>6, <2>2, <4>1 DEF HoldRecs
      <3> HIDE DEF f, c, x
      <3>4. f[s] \in Child
        BY <2>1, <3>1, <3>3, ZenonT(30) DEF Child
      <3>5. f[s].hold = c.hold /\ f[s].done = c.done /\ f[s].round = c.round /\ f[s].rel = x
        BY <2>1, <3>1 DEF Child
      <3> QED  BY <2>1, <3>2, <3>4, <3>5 DEF ChildKnown
    <2>3. CASE s \notin held
      BY <2>1, <2>3
    <2> QED  BY <2>2, <2>3
  <1>14. f \in [Slots -> Child] /\ \A s \in Slots : ChildKnown(f[s], hold[s])
    BY <1>13
  <1> HIDE DEF f, read, report
  <1>15. Sound(st1, hold) /\ st1.on /\ st1.cleanup.on
    <2>1. Sound(st1, hold) /\ Keeps(st, st1)
      BY <1>2, <1>14, ChildrenSound
    <2> QED  BY <1>5, <2>1 DEF Keeps
  <1> HIDE DEF st1
  <1> DEFINE st2 == Concluded(st1, held, answer)
  <1>16. Sound(st2, hold) /\ st2.on
    BY <1>15, ConcludedSound
  <1> HIDE DEF st2
  <1>17. Sound(st2, hold') /\ Sound(store', hold')
    BY <1>4, <1>8, <1>9, <1>12, <1>16, KnownStays DEF Sound
  <1>18. Fits(Doing(proc[p].op, "save", st2), hold') /\ Doing(proc[p].op, "save", st2).pc = "save"
    BY <1>2, <1>16, <1>17, DoingFits
  <1>19. Go(p, Doing(proc[p].op, "save", st2))
    BY <1>11 DEF Do, st2
  <1>20. store'.on = store.on /\ (~store'.on => ~Stopped(store'))
    BY <1>4, <1>12 DEF Keeps, Stopped
  <1>21. Inv'
    BY <1>2, <1>3, <1>4, <1>8, <1>9, <1>10, <1>17, <1>18, <1>19, <1>20, Writes
  <1> QED  BY <1>7, <1>12, <1>21

-----------------------------------------------------------------------------
(* The environment.                                                        *)

\* A Hold runs a turn of its budget, fails or is cancelled, or is released
LEMMA HoldSteps ==
    ASSUME Inv, NEW s \in Slots, NEW o \in Offsets, HoldTurn(s, o) \/ HoldEnds(s, o)
    PROVE  Inv'
  <1> DEFINE h == hold[s]
             b == hold[s][o]
  <1>1. /\ mix \in Mixes /\ hold \in Holds /\ (\A t \in Slots : Ordered(hold[t]))
        /\ Sound(store, hold) /\ beat \in Row /\ env \in Envs /\ (~store.on => ~Stopped(store))
    BY DEF Inv, Starting
  <1>2. h \in [Offsets -> HoldRecs] /\ b \in HoldRecs /\ Ordered(h) /\ b = h[o]
    BY <1>1 DEF Holds
  <1>3. UNCHANGED <<mix, store, proc, beat, env>>
    BY DEF HoldTurn, HoldEnds
  <1>4. ASSUME NEW a \in HoldRecs, Grown(b, a), Ordered([h EXCEPT ![o] = a]),
               hold' = [hold EXCEPT ![s] = [h EXCEPT ![o] = a]]
        PROVE  Inv'
    <2> DEFINE ks == With(hold, s, With(hold[s], o, a))
    <2>1. Ordered(With(hold[s], o, a)) /\ hold' = ks
      BY <1>4 DEF With
    <2>2. ks \in Holds /\ Grows(hold, ks) /\ \A t \in Slots : Ordered(ks[t])
      BY <1>1, <1>4, <2>1, HoldGrows
    <2> HIDE DEF ks
    <2>3. hold' \in Holds /\ Grows(hold, hold') /\ \A t \in Slots : Ordered(hold'[t])
      BY <2>1, <2>2
    <2>4. Sound(store', hold')
      BY <1>1, <1>3, <2>3, KnownStays DEF Sound
    <2> QED  BY <1>1, <1>3, <2>3, <2>4, Outside
  <1>5. CASE HoldTurn(s, o)
    <2>1. PICK st \in {"running", "ok"} :
            hold' = [hold EXCEPT ![s][o].turns = @ + 1, ![s][o].st = st]
      BY <1>5 DEF HoldTurn
    <2>2. b.st = "running" /\ b.turns < Budget(o)
      BY <1>5 DEF HoldTurn
    <2> DEFINE n == b.turns + 1
               a == [b EXCEPT !.turns = n, !.st = st]
    <2>3. n \in 0..MaxRounds /\ n <= Budget(o) /\ b.turns <= n
      <3>1. Budget(o) \in Nat /\ o \in Nat /\ o + Budget(o) <= MaxRounds /\ b.turns \in Nat
        BY <1>1, <1>2, BudgetTyped DEF HoldRecs
      <3> QED  BY <2>2, <3>1, LoopConstants
    <2>4. hold' = [hold EXCEPT ![s] = [h EXCEPT ![o] = a]]
      BY <1>1, <1>2, <2>1 DEF Holds, HoldRecs
    <2> HIDE DEF n
    <2>5. a \in HoldRecs
      BY <1>2, <2>3, ZenonT(30) DEF HoldRecs
    <2>6. a.st = st /\ a.turns = n /\ a.rel = b.rel
      BY <1>2 DEF HoldRecs
    <2> HIDE DEF a, h, b
    <2>7. Grown(b, a)
      BY <2>2, <2>3, <2>6 DEF Grown
    <2>8. Ordered([h EXCEPT ![o] = a])
      BY <1>1, <1>2, <2>2, <2>3, <2>5, <2>6, RunsOrdered
    <2> QED  BY <1>4, <2>4, <2>5, <2>7, <2>8
  <1>6. CASE HoldEnds(s, o)
    <2> DEFINE x == [b EXCEPT !.st = "bad"]
               y == [b EXCEPT !.rel = TRUE]
    <2>1. \/ b.st = "running" /\ hold' = [hold EXCEPT ![s] = [h EXCEPT ![o] = x]]
          \/ hold' = [hold EXCEPT ![s] = [h EXCEPT ![o] = y]]
      BY <1>6 DEF HoldEnds
    <2>2. x \in HoldRecs /\ y \in HoldRecs
      BY <1>2, ZenonT(30) DEF HoldRecs
    <2>3. /\ x.st = "bad" /\ x.turns = b.turns /\ x.rel = b.rel
          /\ y.st = b.st /\ y.turns = b.turns /\ y.rel
      BY <1>2 DEF HoldRecs
    <2>4. b.turns <= b.turns /\ b.turns <= Budget(o)
      <3>1. b.turns <= b.turns
        BY <1>2 DEF HoldRecs
      <3> QED  BY <1>2, <3>1 DEF Ordered
    <2> HIDE DEF x, y, b, h
    <2>5. CASE b.st = "running" /\ hold' = [hold EXCEPT ![s] = [h EXCEPT ![o] = x]]
      <3>1. Grown(b, x)
        BY <2>3, <2>4, <2>5 DEF Grown
      <3>2. Ordered([h EXCEPT ![o] = x])
        BY <1>1, <1>2, <2>2, <2>3, <2>4, <2>5, RunsOrdered
      <3> QED  BY <1>4, <2>2, <2>5, <3>1, <3>2
    <2>6. CASE hold' = [hold EXCEPT ![s] = [h EXCEPT ![o] = y]]
      <3>1. Grown(b, y)
        BY <2>3, <2>4 DEF Grown
      <3>2. Ordered([h EXCEPT ![o] = y])
        <4> DEFINE k == [h EXCEPT ![o] = y]
        <4>1. k \in [Offsets -> HoldRecs] /\ \A q \in Offsets : k[q] = IF q = o THEN y ELSE h[q]
          BY <1>2, <2>2
        <4> HIDE DEF k
        <4>2. \A q \in Offsets : k[q].st = h[q].st /\ k[q].turns = h[q].turns
          BY <1>2, <2>3, <4>1
        <4>3. Ordered(k)
          BY <1>1, <1>2, <4>1, <4>2, SameOrdered
        <4> QED  BY <4>3 DEF k
      <3> QED  BY <1>4, <2>2, <2>6, <3>1, <3>2
    <2> QED  BY <2>1, <2>5, <2>6
  <1> QED  BY <1>5, <1>6

\* A Host's report of a Hold
LEMMA ReportKeeps ==
    ASSUME Inv, NEW s \in Slots, NEW o \in Offsets, ChildReport(s, o)
    PROVE  Sound(store', hold) /\ Keeps(store, store')
  <1> DEFINE r == IF hold[s][o].rel THEN "completed" ELSE "managed"
             bound == [t \in {s} |-> o]
             report == [t \in {s} |-> r]
  <1>1. store' = WithReports(store, bound, report)
    BY DEF ChildReport
  <1>2. DOMAIN report \subseteq Slots /\ hold \in Holds /\ Sound(store, hold)
    BY DEF Inv
  <1>3. \A t \in DOMAIN report : /\ report[t] \in ChildReports
                                 /\ bound[t] \in Offsets
                                 /\ report[t] = "completed" => hold[t][bound[t]].rel
    BY DEF ChildReports
  <1> HIDE DEF bound, report
  <1>4. /\ Sound(WithReports(store, bound, report), hold)
        /\ Keeps(store, WithReports(store, bound, report))
    BY <1>2, <1>3, WithReportsSound
  <1> QED  BY <1>1, <1>4

\* Reports, and time
LEMMA EnvSteps ==
    ASSUME Inv, Time \/ \E s \in Slots, o \in Offsets : ChildReport(s, o)
    PROVE  Inv'
  <1>1. /\ hold \in Holds /\ (\A t \in Slots : Ordered(hold[t])) /\ Grows(hold, hold)
        /\ Sound(store, hold) /\ beat \in Row /\ env \in Envs /\ (~store.on => ~Stopped(store))
    BY SameGrows DEF Inv, Starting
  <1>2. CASE Time
    <2>1. UNCHANGED <<mix, store, proc, hold>>
      BY <1>2 DEF Time
    <2> DEFINE b == [beat EXCEPT !.next = "due"]
               e == [env EXCEPT !.expired = TRUE]
    <2>2. (beat' = beat \/ beat' = b) /\ (env' = env \/ env' = e)
      BY <1>2 DEF Time
    <2>3. b \in Row /\ e \in Envs
      <3>1. b \in Row
        BY <1>1, ZenonT(30) DEF Row
      <3>2. e \in Envs
        BY <1>1, ZenonT(30) DEF Envs
      <3> QED  BY <3>1, <3>2
    <2> HIDE DEF b, e
    <2> QED  BY <1>1, <2>1, <2>2, <2>3, Outside
  <1>3. CASE \E s \in Slots, o \in Offsets : ChildReport(s, o)
    <2>1. Sound(store', hold) /\ Keeps(store, store') /\ UNCHANGED <<mix, proc, hold, beat, env>>
      BY <1>3, ReportKeeps DEF ChildReport
    <2>2. Sound(store', hold') /\ store'.on = store.on /\ (~store.on => ~Stopped(store'))
      BY <1>1, <2>1 DEF Keeps, Stopped
    <2>3. hold' \in Holds /\ Grows(hold, hold') /\ \A t \in Slots : Ordered(hold'[t])
      BY <1>1, <2>1
    <2>4. beat' \in Row /\ env' \in Envs
      BY <1>1, <2>1
    <2> QED  BY <1>1, <2>1, <2>2, <2>3, <2>4, Outside
  <1> QED  BY <1>2, <1>3

-----------------------------------------------------------------------------
(* The invariant.                                                          *)

\* It holds at first
LEMMA InitInv == Init => Inv
  <1> SUFFICES ASSUME Init PROVE Inv
    OBVIOUS
  <1>1. mix \in Mixes /\ Sound(store, hold) /\ ~store.on
    BY NoStateSound DEF Init
  <1>2. Idle \in Frames /\ Fits(Idle, hold)
    BY IdleFits DEF Fits
  <1>3. proc \in [Procs -> Frames] /\ \A p \in Procs : Fits(proc[p], hold) /\ proc[p] = Idle
    BY <1>2 DEF Init
  <1>4. NotStarted \in HoldRecs /\ NotStarted.st = "none" /\ NotStarted.turns = 0
    BY LoopConstants DEF NotStarted, HoldRecs
  <1>5. hold \in Holds
    BY <1>4 DEF Init, Holds
  <1>6. ASSUME NEW s \in Slots PROVE Ordered(hold[s])
    <2>1. \A o \in Offsets : hold[s][o].st = "none" /\ hold[s][o].turns = 0
      BY <1>4 DEF Init
    <2>2. \A o \in Offsets : Budget(o) >= 1
      BY <1>1, BudgetTyped
    <2>3. \A o \in Offsets : 0 <= Budget(o)
      BY <1>1, BudgetTyped
    <2> QED  BY <2>1, <2>3 DEF Ordered
  <1>7. beat \in Row /\ env \in Envs
    BY DEF Init, NoBeat, Row, Envs
  <1>8. Starting
    <2>1. "mcp" \in Procs /\ "host" \in Procs
      BY DEF Procs
    <2>2. proc["mcp"].pc = "idle" /\ proc["host"].pc = "idle"
      BY <1>3, <2>1, IdleFits
    <2>3. ~Stopped(store)
      BY DEF Init, Stopped, NoState, NoClose, NoCleanup
    <2> QED  BY <2>2, <2>3 DEF Starting, Works
  <1> QED  BY <1>1, <1>3, <1>5, <1>6, <1>7, <1>8 DEF Inv

\* Every step keeps it
LEMMA StepInv ==
    ASSUME Inv, [Next]_vars
    PROVE  Inv'
  <1>1. ASSUME NEW p \in Procs, Step(p) PROVE Inv'
    BY <1>1, SaveSteps, ObserveStep, ReconcileStep, RotateStep, SettleStep, CancelStep, DrainStep DEF Step
  <1>2. ASSUME NEW p \in Procs, Start(p) \/ Status(p) \/ Crash(p) PROVE Inv'
    BY <1>2, StartStep, BeginSteps, CrashStep
  <1>3. CASE Tick \/ Claim \/ Stop \/ Close \/ Reload
    BY <1>3, BeginSteps
  <1>4. CASE Intent
    <2>1. "mcp" \in Procs
      BY DEF Procs
    <2> QED  BY <1>4, <2>1, SaveSteps
  <1>5. CASE ReadRow \/ WriteRow \/ Restart
    BY <1>5, RecordSteps
  <1>6. CASE Time
    BY <1>6, EnvSteps
  <1>7. ASSUME NEW s \in Slots, NEW o \in Offsets, HoldTurn(s, o) \/ HoldEnds(s, o) \/ ChildReport(s, o)
        PROVE  Inv'
    BY <1>7, HoldSteps, EnvSteps
  <1>8. CASE UNCHANGED vars
    <2>1. UNCHANGED <<mix, proc, hold, store, beat, env>>
      BY <1>8 DEF vars
    <2>2. /\ hold \in Holds /\ (\A t \in Slots : Ordered(hold[t])) /\ Grows(hold, hold)
          /\ Sound(store, hold) /\ beat \in Row /\ env \in Envs /\ (~store.on => ~Stopped(store))
      BY SameGrows DEF Inv, Starting
    <2> QED  BY <2>1, <2>2, Outside
  <1> QED  BY <1>1, <1>2, <1>3, <1>4, <1>5, <1>6, <1>7, <1>8 DEF Next

-----------------------------------------------------------------------------
(* What a stop forbids, step by step.                                      *)

Final ==
    /\ store.close.on => store'.close.on
    /\ store.cleanup.on => /\ store'.cleanup.on
                           /\ store'.cleanup.target = store.cleanup.target
    /\ Stopped(store) => \A s \in Slots, o \in Offsets :
          hold[s][o].st = "none" => hold'[s][o].st = "none"

\* The saves merge with what is on record
LEMMA SavesFinal ==
    ASSUME Inv, NEW p \in Procs, Create(p) \/ (p = "mcp" /\ Intent) \/ Latch(p) \/ Save(p)
    PROVE  Final
  <1>1. /\ Sound(proc[p].st, hold) /\ Fits(proc[p], hold) /\ (proc[p].pc \in Works => proc[p].st.on)
        /\ (p = "host" => proc[p].pc # "create") /\ (p = "mcp" \/ p = "host")
    BY Working DEF Procs
  <1>2. hold \in Holds /\ Sound(store, hold) /\ (~store.on => ~Stopped(store))
    BY DEF Inv, Starting
  <1>3. {"create", "intent", "latch", "save"} \subseteq Works
    BY DEF Works, Places
  <1>4. UNCHANGED hold
    BY DEF Create, Intent, Latch, Save
  <1>5. ASSUME NEW copy, Sound(copy, hold), copy.on, store' = Merged(store, copy) PROVE Final
    <2>1. /\ store.close.on => Merged(store, copy).close.on
          /\ store.cleanup.on => /\ Merged(store, copy).cleanup.on
                                 /\ Merged(store, copy).cleanup.target = store.cleanup.target
      BY <1>2, <1>5, MergedKeeps
    <2> QED  BY <1>4, <1>5, <2>1 DEF Final
  <1>6. CASE Create(p)
    <2>1. proc["mcp"].pc = "create"
      BY <1>1, <1>6 DEF Create, At
    <2>2. ~Stopped(store)
      BY <1>2, <2>1 DEF Inv, Starting
    <2> QED  BY <2>2 DEF Final, Stopped
  <1>7. CASE (p = "mcp" /\ Intent) \/ Save(p)
    <2>1. store' = Merged(store, proc[p].st) /\ proc[p].pc \in {"intent", "save"}
      BY <1>7 DEF Intent, Save, At
    <2> QED  BY <1>1, <1>3, <1>5, <2>1
  <1>8. CASE Latch(p)
    <2> DEFINE copy == Latched(proc[p].st, proc[p].target)
    <2>1. store' = Merged(store, copy) /\ proc[p].pc = "latch"
      BY <1>8 DEF Latch, At
    <2>2. proc[p].target \in Ended /\ proc[p].st.on
      BY <1>1, <1>3, <2>1 DEF Fits
    <2>3. Sound(copy, hold) /\ copy.on = proc[p].st.on
      BY <1>1, <2>2, LatchedSound
    <2> HIDE DEF copy
    <2> QED  BY <1>5, <2>1, <2>2, <2>3
  <1> QED  BY <1>6, <1>7, <1>8

\* A rotation, also one that a crash cuts short, and start look at what is on
\* record before they queue a Hold
LEMMA QueuesFinal ==
    ASSUME Inv, NEW p \in Procs, Start(p) \/ Rotate(p) \/ Crash(p)
    PROVE  Final
  <1>1. ~store.on => ~Stopped(store)
    BY DEF Inv, Starting
  <1>2. CASE Stopped(store)
    <2>1. UNCHANGED <<store, hold>>
      BY <1>1, <1>2 DEF Start, Rotate, Crash
    <2> QED  BY <2>1 DEF Final
  <1>3. CASE ~Stopped(store)
    BY <1>3 DEF Final, Stopped
  <1> QED  BY <1>2, <1>3

\* A Hold that has not started neither runs nor ends
LEMMA HoldsFinal ==
    ASSUME Inv, NEW s \in Slots, NEW o \in Offsets, HoldTurn(s, o) \/ HoldEnds(s, o)
    PROVE  Final
  <1>1. hold \in [Slots -> [Offsets -> HoldRecs]] /\ UNCHANGED store
    BY DEF Inv, Holds, HoldTurn, HoldEnds
  <1>2. hold[s][o].st # "none"
    BY DEF HoldTurn, HoldEnds
  <1>3. \E x : hold' = [hold EXCEPT ![s] = [hold[s] EXCEPT ![o] = x]]
    <2>1. CASE HoldTurn(s, o)
      <3>1. PICK st \in {"running", "ok"} :
              hold' = [hold EXCEPT ![s][o].turns = @ + 1, ![s][o].st = st]
        BY <2>1 DEF HoldTurn
      <3>2. hold' = [hold EXCEPT ![s] = [hold[s] EXCEPT ![o] =
                       [hold[s][o] EXCEPT !.turns = hold[s][o].turns + 1, !.st = st]]]
        BY <1>1, <3>1 DEF HoldRecs
      <3> QED  BY <3>2
    <2>2. CASE HoldEnds(s, o)
      <3>1. \/ hold' = [hold EXCEPT ![s] = [hold[s] EXCEPT ![o] = [hold[s][o] EXCEPT !.st = "bad"]]]
            \/ hold' = [hold EXCEPT ![s] = [hold[s] EXCEPT ![o] = [hold[s][o] EXCEPT !.rel = TRUE]]]
        BY <2>2 DEF HoldEnds
      <3> QED  BY <3>1
    <2> QED  BY <2>1, <2>2
  <1>4. \A t \in Slots, r \in Offsets : hold[t][r].st = "none" => hold'[t][r] = hold[t][r]
    BY <1>1, <1>2, <1>3
  <1> QED  BY <1>1, <1>4 DEF Final

\* No step undoes a stop, or starts a Hold after it
LEMMA StepFinal ==
    ASSUME Inv, [Next]_vars
    PROVE  Final
  <1>1. ASSUME Keeps(store, store'), \A s \in Slots, o \in Offsets : hold'[s][o].st = hold[s][o].st
        PROVE  Final
    BY <1>1 DEF Keeps, Final
  <1>2. ASSUME UNCHANGED <<store, hold>> PROVE Final
    BY <1>2 DEF Final
  <1>3. ASSUME NEW p \in Procs, Step(p) \/ Start(p) \/ Status(p) \/ Crash(p)
        PROVE  Final
    <2>1. CASE Create(p) \/ Latch(p) \/ Save(p)
      BY <2>1, SavesFinal
    <2>2. CASE Start(p) \/ Rotate(p) \/ Crash(p)
      BY <2>2, QueuesFinal
    <2>3. CASE Drain(p)
      BY <1>1, <2>3, DrainStep
    <2>4. CASE Status(p) \/ Observe(p) \/ Reconcile(p) \/ Settle(p) \/ Cancel(p)
      BY <1>2, <2>4 DEF Status, Observe, Reconcile, Settle, Cancel
    <2> QED  BY <1>3, <2>1, <2>2, <2>3, <2>4 DEF Step
  <1>4. CASE Intent
    <2>1. "mcp" \in Procs
      BY DEF Procs
    <2> QED  BY <1>4, <2>1, SavesFinal
  <1>5. CASE Tick \/ Claim \/ Stop \/ Close \/ Reload \/ ReadRow \/ WriteRow \/ Time \/ Restart \/ UNCHANGED vars
    BY <1>2, <1>5 DEF Tick, Claim, Stop, Close, Reload, ReadRow, WriteRow, Time, Restart, vars
  <1>6. ASSUME NEW s \in Slots, NEW o \in Offsets, ChildReport(s, o) PROVE Final
    <2>1. Keeps(store, store') /\ UNCHANGED hold
      BY <1>6, ReportKeeps DEF ChildReport
    <2> QED  BY <1>1, <2>1
  <1>7. ASSUME NEW s \in Slots, NEW o \in Offsets, HoldTurn(s, o) \/ HoldEnds(s, o) PROVE Final
    BY <1>7, HoldsFinal
  <1> QED  BY <1>3, <1>4, <1>5, <1>6, <1>7 DEF Next

-----------------------------------------------------------------------------
(* The theorems.                                                           *)

\* The inductive invariant, in every reachable state
THEOREM LoopInvariant == Spec => []Inv
  <1>1. Init => Inv
    BY InitInv
  <1>2. Inv /\ [Next]_vars => Inv'
    BY StepInv
  <1> QED  BY <1>1, <1>2, PTL DEF Spec

\* The state on record, the copies, the Holds and the row keep their types,
\* whatever dies or races.
THEOREM TypeCorrect == Spec => []TypeOK
  <1>1. Inv => TypeOK
    BY DEF Inv, TypeOK, Sound, Frames, Ops, Holds, HoldRecs, Envs
  <1> QED  BY <1>1, LoopInvariant, PTL

\* A loop whose cleanup is reported completed has released every Hold that its
\* children name: no tick, close, stop or report of a Host, however late its
\* copy of the state, records a release that has not been.
THEOREM CleanupReleasesHolds == Spec => []CleanupReleases
  <1>1. Inv => CleanupReleases
    <2> SUFFICES ASSUME Inv, Evidence(store), NEW s \in Held(store)
                 PROVE  HoldOf(store, s).rel
      BY DEF CleanupReleases
    <2>1. mix.slots \subseteq Slots
      BY LoopConstants DEF Inv, MixType
    <2>2. s \in Slots /\ store.children[s].hold # NoHold /\ store.children[s].rel
      BY <2>1 DEF Held, Evidence
    <2>3. ChildKnown(store.children[s], hold[s])
      BY <2>2 DEF Inv, Sound, Known
    <2> QED  BY <2>2, <2>3 DEF ChildKnown, HoldOf
  <1> QED  BY <1>1, LoopInvariant, PTL

\* The Holds of a slot share its rounds: together they never run more turns
\* than max_rounds, and none runs a round that an earlier one has run.
THEOREM RoundsOnceHolds == Spec => []RoundsOnce
  <1>1. Inv => RoundsOnce
    <2> SUFFICES ASSUME Inv, NEW s \in Slots, NEW o \in Offsets
                 PROVE  /\ o + hold[s][o].turns <= MaxRounds
                        /\ \A q \in Offsets : (q < o /\ hold[s][o].st # "none") => q + hold[s][q].turns <= o
      BY DEF RoundsOnce
    <2>1. mix \in Mixes /\ Ordered(hold[s]) /\ \A q \in Offsets : hold[s][q] \in HoldRecs
      BY DEF Inv, Holds
    <2>2. \A q \in Offsets : hold[s][q].turns \in Nat /\ hold[s][q].turns <= Budget(q)
      BY <2>1 DEF Ordered, HoldRecs
    <2>3. \A q \in Offsets : Budget(q) \in Nat /\ q \in Nat /\ q + Budget(q) <= MaxRounds
      BY <2>1, BudgetTyped
    <2>4. o + hold[s][o].turns <= MaxRounds
      BY <2>2, <2>3, LoopConstants
    <2>5. ASSUME NEW q \in Offsets, q < o, hold[s][o].st # "none" PROVE q + hold[s][q].turns <= o
      <3>1. CASE hold[s][q].st = "none"
        BY <2>1, <2>3, <2>5, <3>1 DEF Ordered
      <3>2. CASE hold[s][q].st # "none"
        BY <2>1, <2>2, <2>3, <2>5, <3>2 DEF Ordered
      <3> QED  BY <3>1, <3>2
    <2> QED  BY <2>4, <2>5
  <1> QED  BY <1>1, LoopInvariant, PTL

\* A stop is final: an intent on record, and what it ends in, is not undone by
\* an operation that had loaded the state before, and no Hold is started after
\* it, by a rotation, a late start or a crash between the two.
THEOREM StopFinal == Spec => StopIsFinal
  <1>1. Inv /\ [Next]_vars => [Final]_vars
    BY StepFinal
  <1>2. StopIsFinal <=> [][Final]_vars
    BY DEF StopIsFinal, Final
  <1> HIDE DEF Final
  <1> QED  BY <1>1, <1>2, LoopInvariant, PTL DEF Spec
=============================================================================
