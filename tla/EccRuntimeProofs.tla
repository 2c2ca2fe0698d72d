-------------------------- MODULE EccRuntimeProofs --------------------------
(***************************************************************************)
(* Theorems about EccRuntime, for every set of runs and trackers and every *)
(* bound: what an operation shows never goes back, an ended one has ended, *)
(* a start excludes others, the service is the life cycle it promises, and *)
(* an operation called running is followed until it settles.               *)
(***************************************************************************)
EXTENDS EccRuntime, TLAPS

LEMMA TerminalStateType ==
  ASSUME NEW s \in FlowStates, NEW c \in BOOLEAN
  PROVE  terminalState(s, c) \in TerminalStates
BY DEF terminalState, FlowStates, TerminalStates

LEMMA NewTrackerType ==
  ASSUME NEW r \in Runs, NEW step \in {"spawning", "adopted"},
         NEW p \in BOOLEAN, NEW isRerun \in BOOLEAN
  PROVE  NewTracker(r, step, p, isRerun) \in Tracker
BY DEF NewTracker, Tracker, StartSteps

LEMMA AbsentType == Absent \in Tracker
BY DEF Absent, Tracker, StartSteps

LEMMA ProjectedType ==
  ASSUME NEW x \in Tracker, NEW q \in Read, q.man # "unread", q.flow # NoFlow
  PROVE  /\ Projected(x, q) \in Tracker
         /\ Projected(x, q).state \in {x.state} \union TerminalStates
         /\ Projected(x, q).shown = q.flow.ver
         /\ Projected(x, q).run = x.run
         /\ Projected(x, q).start = x.start
         /\ Projected(x, q).announced = x.announced
         /\ Projected(x, q).state \in TerminalStates => q.man = "other"
                                              \/ x.state \in TerminalStates
<1>1. q.flow \in Flow /\ x.cancel \in BOOLEAN
  BY DEF Read, Tracker
<1>2. q.flow.state \in FlowStates /\ q.flow.ver \in Nat
  BY <1>1 DEF Flow
<1>3. terminalState(q.flow.state, x.cancel) \in TerminalStates
  BY <1>1, <1>2, TerminalStateType
<1>4. QED
  BY <1>2, <1>3 DEF Projected, Tracker, Read

LEMMA BeginRefreshType ==
  ASSUME TypeOK, NEW t \in Trackers, NEW x, BeginRefresh(t, x)
  PROVE  reads' \in [Trackers -> SUBSET Read]
<1>1. Fresh \in Read
  BY DEF Fresh, Read
<1>2. ASSUME NEW q \in Read
      PROVE  [q EXCEPT !.current = FALSE] \in Read
  BY DEF Read
<1>3. reads[t] \subseteq Read
  BY DEF TypeOK
<1>4. Superseded(reads[t]) \subseteq Read
  BY <1>2, <1>3 DEF Superseded
<1>5. Superseded(reads[t]) \union {Fresh} \in SUBSET Read
  BY <1>1, <1>4
<1>6. QED
  BY <1>5 DEF TypeOK, BeginRefresh

LEMMA ProcessReconcileType ==
  ASSUME TypeOK, NEW r, ProcessReconcile(r)
  PROVE  /\ proc' = proc
         /\ entry' \in Runs \union {NoRun}
         /\ flow' \in Flow
BY DEF TypeOK, ProcessReconcile, SetFlow, Flow, FlowStates, env

LEMMA BecomesType ==
  ASSUME TypeOK, NEW t \in Trackers, NEW x \in Tracker, Becomes(t, x)
  PROVE  trk' \in [Trackers -> Tracker]
BY DEF TypeOK, Becomes

(* The field updates the actions make keep a tracker well-typed. *)
LEMMA UpdateTypes ==
  ASSUME NEW x \in Tracker, NEW step \in StartSteps,
         NEW event \in {"watched", "seen", "lost"}
  PROVE  /\ [x EXCEPT !.cancel = TRUE] \in Tracker
         /\ [x EXCEPT !.pending = FALSE] \in Tracker
         /\ [x EXCEPT !.start = step] \in Tracker
         /\ [x EXCEPT !.start = step, !.live = TRUE] \in Tracker
         /\ [x EXCEPT !.start = step, !.pending = FALSE, !.live = TRUE]
               \in Tracker
         /\ [x EXCEPT !.start = step, !.child = event] \in Tracker
         /\ [x EXCEPT !.child = event, !.pending = FALSE] \in Tracker
         /\ [x EXCEPT !.announced = TRUE, !.live = FALSE] \in Tracker
BY DEF Tracker

LEMMA TrackType ==
  ASSUME TypeOK, NEW r \in Runs, NEW t \in Trackers, NEW isRerun \in BOOLEAN,
         Track(r, t, isRerun)
  PROVE  /\ trk' \in [Trackers -> Tracker]
         /\ operations' \in [Runs -> Trackers \union {NoTracker}]
<1>1. NewTracker(r, "spawning", TRUE, isRerun) \in Tracker
  BY NewTrackerType
<1>2. QED
  BY <1>1, BecomesType DEF TypeOK, Track

LEMMA AdoptionCounts ==
  ASSUME NEW a \in Adoption
  PROVE  /\ [a EXCEPT !.asked = @ + 1] \in Adoption
         /\ a.asked > 0 => \A x \in {0, 1} :
              [asked |-> a.asked - 1, alive |-> a.alive + x] \in Adoption
         /\ a.alive > 0 => [a EXCEPT !.alive = @ - 1] \in Adoption
BY DEF Adoption

(* The type invariant of the specification. *)
THEOREM TypeCorrect == Spec => []TypeOK
<1>1. Init => TypeOK
  <2> SUFFICES ASSUME Init
               PROVE  TypeOK
    OBVIOUS
  <2>1. flow \in Flow
    BY ConstantsAssumption DEF Init, Flow, FlowStates
  <2>2. trk \in [Trackers -> Tracker]
    BY AbsentType DEF Init
  <2>3. NoAdoption \in Adoption
    BY DEF NoAdoption, Adoption
  <2>4. QED
    BY <2>1, <2>2, <2>3 DEF Init, TypeOK, ProcStates
<1>2. TypeOK /\ [Next]_vars => TypeOK'
  <2> SUFFICES ASSUME TypeOK, [Next]_vars
               PROVE  TypeOK'
    OBVIOUS
  <2>1. ASSUME NEW r \in Runs, CliNext(r)
        PROVE  TypeOK'
    BY <2>1, ConstantsAssumption
    DEF TypeOK, CliNext, TerminalStartsRun, CliRegisters, CliRefused,
        CliWritesFlow, CliUnregisters, CliExits, SetFlow, service, ProcStates,
        Flow, FlowStates
  <2>2. ASSUME NEW r \in Runs, RunNext(r)
        PROVE  TypeOK'
    <3>1. ASSUME NEW t \in Trackers, StartPlain(r, t)
          PROVE  TypeOK'
      BY <3>1, TrackType DEF TypeOK, StartPlain, env
    <3>2. ASSUME NEW t \in Trackers, RerunPlanned(r, t)
          PROVE  TypeOK'
      BY <3>2, TrackType DEF TypeOK, RerunPlanned, env
    <3>3. CASE StartRerun(r)
      BY <3>3 DEF TypeOK, StartRerun, env
    <3>4. CASE AdoptBegin(r)
      BY <3>4, AdoptionCounts DEF TypeOK, AdoptBegin, env
    <3>5. CASE AdoptDead(r)
      BY <3>5, ProcessReconcileType, AdoptionCounts DEF TypeOK, AdoptDead, InspectEnds
    <3>6. CASE AdoptFails(r) \/ InspectAlive(r)
      BY <3>6, AdoptionCounts DEF TypeOK, AdoptFails, InspectAlive, InspectEnds, env
    <3>7. ASSUME NEW t \in Trackers, AdoptAlive(r, t)
          PROVE  TypeOK'
      <4>1. NewTracker(r, "adopted", FALSE, FALSE) \in Tracker
        BY NewTrackerType
      <4>2. trk' \in [Trackers -> Tracker]
        BY <3>7, <4>1, BecomesType DEF AdoptAlive
      <4>3. adopting' \in [Runs -> Adoption]
        BY <3>7, AdoptionCounts DEF TypeOK, AdoptAlive
      <4>4. operations' \in [Runs -> Trackers \union {NoTracker}]
        BY <3>7 DEF TypeOK, AdoptAlive
      <4>5. QED
        BY <3>7, <4>2, <4>3, <4>4 DEF TypeOK, AdoptAlive, env
    <3>8. CASE cancelOperation(r)
      <4>1. operations[r] \in Trackers
        BY <3>8 DEF TypeOK, cancelOperation, Active
      <4>2. [trk[operations[r]] EXCEPT !.cancel = TRUE] \in Tracker
        BY <4>1, UpdateTypes DEF TypeOK, StartSteps
      <4>3. QED
        BY <3>8, <4>1, <4>2, BecomesType DEF TypeOK, cancelOperation, env
    <3>9. QED
      BY <2>2, <3>1, <3>2, <3>3, <3>4, <3>5, <3>6, <3>7, <3>8 DEF RunNext
  <2>3. ASSUME NEW t \in Trackers, RefreshNext(t)
        PROVE  TypeOK'
    <3>1. ASSUME NEW q \in reads[t], ReadManifest(t, q)
          PROVE  TypeOK'
      BY <3>1 DEF TypeOK, ReadManifest, Read, env
    <3>2. ASSUME NEW q \in reads[t], ReadFlow(t, q)
          PROVE  TypeOK'
      BY <3>2 DEF TypeOK, ReadFlow, Read, env
    <3>3. ASSUME NEW q \in reads[t], ReadFails(t, q)
          PROVE  TypeOK'
      BY <3>3 DEF TypeOK, ReadFails, env
    <3>4. ASSUME NEW q \in reads[t], FinishRefresh(t, q)
          PROVE  TypeOK'
      <4>1. Projected(trk[t], q) \in Tracker
        BY <3>4, ProjectedType DEF TypeOK, FinishRefresh
      <4>2. QED
        BY <3>4, <4>1, BecomesType DEF TypeOK, FinishRefresh, env
    <3>5. CASE AnnounceOutcome(t)
      BY <3>5, UpdateTypes, BecomesType
      DEF TypeOK, AnnounceOutcome, StartSteps, env
    <3>6. QED
      BY <2>3, <3>1, <3>2, <3>3, <3>4, <3>5 DEF RefreshNext
  <2>4. ASSUME NEW t \in Trackers, StartNext(t)
        PROVE  TypeOK'
    <3>1. CASE SpawnFails(t)
      BY <3>1, UpdateTypes, BecomesType
      DEF TypeOK, SpawnFails, StartSteps, env
    <3>2. CASE ChildSpawned(t)
      BY <3>2 DEF TypeOK, ChildSpawned, ProcStates, service
    <3>3. CASE SpawnReturns(t)
      BY <3>3, UpdateTypes, BecomesType
      DEF TypeOK, SpawnReturns, StartSteps, env
    <3>4. CASE ChildExits(t)
      BY <3>4, BeginRefreshType, UpdateTypes, BecomesType
      DEF TypeOK, ChildExits, StartSteps, env
    <3>5. CASE HandshakeMatches(t)
      BY <3>5, UpdateTypes, BecomesType
      DEF TypeOK, HandshakeMatches, StartSteps, env
    <3>6. CASE HandshakeGivesUp(t)
      BY <3>6, UpdateTypes, BecomesType
      DEF TypeOK, HandshakeGivesUp, StartSteps, env
    <3>7. CASE HandshakeAborts(t)
      BY <3>7, UpdateTypes, BecomesType
      DEF TypeOK, HandshakeAborts, StartSteps, env
    <3>8. CASE WatcherReady(t)
      BY <3>8, BeginRefreshType, UpdateTypes, BecomesType
      DEF TypeOK, WatcherReady, StartSteps, env
    <3>9. QED
      BY <2>4, <3>1, <3>2, <3>3, <3>4, <3>5, <3>6, <3>7, <3>8 DEF StartNext
  <2>5. ASSUME NEW t \in Trackers, Trigger(t)
        PROVE  TypeOK'
    BY <2>5, BeginRefreshType DEF TypeOK, Trigger, env
  <2>6. ASSUME NEW t \in Trackers, inspectTrackedProcess(t)
        PROVE  TypeOK'
    BY <2>6, BeginRefreshType, ProcessReconcileType, UpdateTypes, BecomesType
    DEF TypeOK, inspectTrackedProcess, StartSteps
  <2>7. CASE UNCHANGED vars
    BY <2>7 DEF TypeOK, vars
  <2>8. QED
    BY <2>1, <2>2, <2>3, <2>4, <2>5, <2>6, <2>7 DEF Next
<1>3. QED
  BY <1>1, <1>2, PTL DEF Spec

-----------------------------------------------------------------------------
(* What a step does to the refreshes and the projection of each tracker. *)

ProjectionInv == \A t \in Trackers : AbsentIsQuiet(t) /\ ReadsOrdered(t)

ProjectionKept == /\ ProjectionInv'
                  /\ \A t \in Trackers : trk[t].shown <= trk'[t].shown

(* A step that leaves a tracker's projection and refreshes alone. *)
LEMMA ProjectionFrame ==
  ASSUME TypeOK, ProjectionInv, NEW t \in Trackers,
         trk'[t] = trk[t], reads'[t] = reads[t],
         flow.ver <= flow'.ver, flow'.ver \in Nat
  PROVE  /\ (AbsentIsQuiet(t) /\ ReadsOrdered(t))'
         /\ trk[t].shown <= trk'[t].shown
<1>1. trk[t] \in Tracker /\ flow \in Flow
  BY DEF TypeOK
<1>2. trk[t].shown \in Nat /\ flow.ver \in Nat
  BY <1>1 DEF Tracker, Flow
<1>3. \A q \in reads[t] : q.flow # NoFlow => q.flow.ver \in Nat
  BY DEF TypeOK, Read, Flow
<1>4. AbsentIsQuiet(t) /\ ReadsOrdered(t)
  BY DEF ProjectionInv
<1>5. AbsentIsQuiet(t)'
  BY <1>4 DEF AbsentIsQuiet, Absent
<1>6. ReadsOrdered(t)'
  BY <1>2, <1>3, <1>4 DEF ReadsOrdered, NoFlow
<1>7. QED
  BY <1>2, <1>5, <1>6

(* A step that changes one tracker, its projection excepted, and may begin a *)
(* refresh of it.                                                            *)
LEMMA ProjectionBegin ==
  ASSUME TypeOK, ProjectionInv, NEW t \in Trackers,
         trk'[t].shown = trk[t].shown, trk[t].state # "absent",
         trk'[t].state # "absent",
         \/ reads'[t] = reads[t]
         \/ reads'[t] = Superseded(reads[t]) \union {Fresh},
         flow.ver <= flow'.ver, flow'.ver \in Nat
  PROVE  /\ (AbsentIsQuiet(t) /\ ReadsOrdered(t))'
         /\ trk[t].shown <= trk'[t].shown
<1>1. trk[t] \in Tracker /\ flow \in Flow
  BY DEF TypeOK
<1>2. trk[t].shown \in Nat /\ flow.ver \in Nat
  BY <1>1 DEF Tracker, Flow
<1>3. \A q \in reads[t] : q.flow # NoFlow => q.flow.ver \in Nat
  BY DEF TypeOK, Read, Flow
<1>4. ReadsOrdered(t)
  BY DEF ProjectionInv
<1>5. AbsentIsQuiet(t)'
  BY DEF AbsentIsQuiet
<1>6. CASE reads'[t] = reads[t]
  BY <1>2, <1>3, <1>4, <1>5, <1>6 DEF ReadsOrdered, NoFlow
<1>7. CASE reads'[t] = Superseded(reads[t]) \union {Fresh}
  <2>1. ASSUME NEW q \in reads'[t]
        PROVE  \/ q = Fresh
               \/ ~q.current /\ \E p \in reads[t] : q.flow = p.flow
    <3>1. ASSUME NEW p \in Read
          PROVE  /\ ~[p EXCEPT !.current = FALSE].current
                 /\ [p EXCEPT !.current = FALSE].flow = p.flow
      BY DEF Read
    <3>2. \A p \in reads[t] : p \in Read
      BY DEF TypeOK
    <3>3. QED
      BY <1>7, <3>1, <3>2 DEF Superseded
  <2>2. Fresh.flow = NoFlow
    BY DEF Fresh
  <2>3. QED
    BY <1>2, <1>3, <1>4, <1>5, <2>1, <2>2 DEF ReadsOrdered, NoFlow
<1>8. QED
  BY <1>6, <1>7

LEMMA BecomesEffect ==
  ASSUME TypeOK, NEW t \in Trackers, NEW x, Becomes(t, x)
  PROVE  trk'[t] = x /\ \A u \in Trackers : u # t => trk'[u] = trk[u]
BY DEF TypeOK, Becomes

LEMMA BeginRefreshEffect ==
  ASSUME TypeOK, NEW t \in Trackers, NEW x, BeginRefresh(t, x)
  PROVE  /\ \/ reads'[t] = reads[t]
            \/ reads'[t] = Superseded(reads[t]) \union {Fresh}
         /\ \A u \in Trackers : u # t => reads'[u] = reads[u]
BY DEF TypeOK, BeginRefresh

LEMMA FlowGrows ==
  ASSUME TypeOK, NEW r, \/ UNCHANGED flow
                        \/ \E s : SetFlow(s)
                        \/ ProcessReconcile(r)
  PROVE  flow.ver <= flow'.ver /\ flow'.ver \in Nat
BY DEF TypeOK, SetFlow, ProcessReconcile, Flow, env

(* A step that changes only tracker t leaves the others' projection alone. *)
LEMMA ProjectionOthers ==
  ASSUME TypeOK, ProjectionInv, NEW t \in Trackers,
         \A u \in Trackers : u # t => trk'[u] = trk[u] /\ reads'[u] = reads[u],
         flow.ver <= flow'.ver, flow'.ver \in Nat,
         (AbsentIsQuiet(t) /\ ReadsOrdered(t))', trk[t].shown <= trk'[t].shown
  PROVE  ProjectionKept
<1>1. ASSUME NEW u \in Trackers
      PROVE  /\ (AbsentIsQuiet(u) /\ ReadsOrdered(u))'
             /\ trk[u].shown <= trk'[u].shown
  <2>1. CASE u = t
    BY <2>1
  <2>2. CASE u # t
    BY <2>2, ProjectionFrame
  <2>3. QED
    BY <2>1, <2>2
<1>2. QED
  BY <1>1 DEF ProjectionKept, ProjectionInv

LEMMA ProjectionSame ==
  ASSUME TypeOK, ProjectionInv, UNCHANGED <<trk, reads>>,
         flow.ver <= flow'.ver, flow'.ver \in Nat
  PROVE  ProjectionKept
BY ProjectionFrame DEF ProjectionKept, ProjectionInv

(* Creating a tracker: it shows nothing yet and no refresh of it is running. *)
LEMMA ProjectionCreate ==
  ASSUME TypeOK, ProjectionInv, NEW t \in Trackers, trk[t].state = "absent",
         NEW r \in Runs, NEW step, NEW p, NEW b, Becomes(t, NewTracker(r, step, p, b)),
         UNCHANGED <<flow, reads>>
  PROVE  ProjectionKept
<1>1. trk[t].shown = 0 /\ reads[t] = {}
  BY DEF ProjectionInv, AbsentIsQuiet, Absent
<1>2. /\ trk'[t].shown = 0 /\ trk'[t].state = "running"
      /\ \A u \in Trackers : u # t => trk'[u] = trk[u]
  BY BecomesEffect DEF NewTracker
<1>3. flow.ver \in Nat
  BY DEF TypeOK, Flow
<1>4. (AbsentIsQuiet(t) /\ ReadsOrdered(t))'
  BY <1>1, <1>2, <1>3 DEF AbsentIsQuiet, ReadsOrdered
<1>5. QED
  BY <1>1, <1>2, <1>3, <1>4, ProjectionOthers

(* Changing fields other than `shown` of an existing tracker. *)
LEMMA ProjectionUpdate ==
  ASSUME TypeOK, ProjectionInv, NEW t \in Trackers, trk[t].state # "absent",
         NEW x, x.shown = trk[t].shown, x.state # "absent",
         trk' = trk \/ Becomes(t, x),
         UNCHANGED reads \/ BeginRefresh(t, trk[t]),
         flow.ver <= flow'.ver, flow'.ver \in Nat
  PROVE  ProjectionKept
<1>1. /\ trk'[t].shown = trk[t].shown /\ trk'[t].state # "absent"
      /\ \A u \in Trackers : u # t => trk'[u] = trk[u]
  BY BecomesEffect
<1>2. /\ \/ reads'[t] = reads[t]
         \/ reads'[t] = Superseded(reads[t]) \union {Fresh}
      /\ \A u \in Trackers : u # t => reads'[u] = reads[u]
  BY BeginRefreshEffect
<1>3. (AbsentIsQuiet(t) /\ ReadsOrdered(t))' /\ trk[t].shown <= trk'[t].shown
  BY <1>1, <1>2, ProjectionBegin
<1>4. QED
  BY <1>1, <1>2, <1>3, ProjectionOthers

(* The refresh q of tracker t gives way to those of N, at most one, which is
   current only if q was and has read no flow but q's or the present one. *)
ReadGivesWay(t, q, N) ==
  /\ \A n \in N : n.current => q.current
  /\ \A n \in N : n.flow = q.flow \/ n.flow = flow
  /\ \A m, n \in N : m = n
  /\ reads' = [reads EXCEPT ![t] = (@ \ {q}) \union N]
  /\ UNCHANGED <<flow, trk>>

(* One of the two reads of a refresh returns, or the refresh gives up. *)
LEMMA ProjectionRead ==
  ASSUME TypeOK, ProjectionInv, NEW t \in Trackers, NEW q \in reads[t],
         NEW N, ReadGivesWay(t, q, N)
  PROVE  ProjectionKept
<1> USE DEF ReadGivesWay
<1>1. trk[t] \in Tracker /\ flow \in Flow
  BY DEF TypeOK
<1>2. trk[t].shown \in Nat /\ flow.ver \in Nat
  BY <1>1 DEF Tracker, Flow
<1>3. AbsentIsQuiet(t) /\ ReadsOrdered(t)
  BY DEF ProjectionInv
<1>4. /\ reads'[t] = (reads[t] \ {q}) \union N
      /\ \A u \in Trackers : u # t => reads'[u] = reads[u]
  BY DEF TypeOK
<1>5. AbsentIsQuiet(t)'
  BY <1>3 DEF AbsentIsQuiet, Absent
<1>6. ReadsOrdered(t)'
  <2>1. trk'[t].shown <= flow'.ver
    BY <1>3 DEF ReadsOrdered
  <2>2. ASSUME NEW p \in reads'[t], p.flow # NoFlow
        PROVE  /\ p.flow.ver <= flow.ver
               /\ p.current => trk[t].shown <= p.flow.ver
    <3>1. CASE p \in reads[t]
      BY <1>3, <2>2, <3>1 DEF ReadsOrdered
    <3>2. CASE p \in N /\ p.flow = q.flow
      BY <1>3, <2>2, <3>2 DEF ReadsOrdered
    <3>3. CASE p \in N /\ p.flow = flow
      BY <1>2, <1>3, <3>3 DEF ReadsOrdered
    <3>4. QED
      BY <1>4, <2>2, <3>1, <3>2, <3>3
  <2>3. ASSUME NEW m \in reads'[t], NEW n \in reads'[t], m.current, n.current
        PROVE  m = n
    <3>1. \A a, b \in reads[t] : a.current /\ b.current => a = b
      BY <1>3 DEF ReadsOrdered
    <3>2. CASE m \in N
      <4>0. q.current
        BY <2>3, <3>2
      <4>1. n \notin reads[t] \ {q}
        BY <2>3, <3>1, <4>0
      <4>2. QED
        BY <1>4, <3>2, <4>1
    <3>3. CASE n \in N
      <4>0. q.current
        BY <2>3, <3>3
      <4>1. m \notin reads[t] \ {q}
        BY <2>3, <3>1, <4>0
      <4>2. QED
        BY <1>4, <3>3, <4>1
    <3>4. QED
      BY <1>4, <2>3, <3>1, <3>2, <3>3
  <2>4. QED
    BY <2>1, <2>2, <2>3 DEF ReadsOrdered
<1>7. QED
  BY <1>2, <1>4, <1>5, <1>6, ProjectionOthers

(* A refresh finishes: only if it is still current does it move the projection. *)
LEMMA ProjectionFinish ==
  ASSUME TypeOK, ProjectionInv, NEW t \in Trackers, NEW q \in reads[t],
         FinishRefresh(t, q)
  PROVE  ProjectionKept
<1>1. trk[t] \in Tracker /\ flow \in Flow /\ q \in Read
  BY DEF TypeOK
<1>2. trk[t].shown \in Nat /\ flow.ver \in Nat
  BY <1>1 DEF Tracker, Flow
<1>3. AbsentIsQuiet(t) /\ ReadsOrdered(t)
  BY DEF ProjectionInv
<1>4. /\ reads'[t] = reads[t] \ {q}
      /\ \A u \in Trackers : u # t => reads'[u] = reads[u]
      /\ flow' = flow
  BY DEF TypeOK, FinishRefresh, env
<1>5. trk[t].state # "absent"
  BY <1>3 DEF AbsentIsQuiet
<1>6. CASE q.current /\ trk[t].state = "running"
  <2>1. /\ trk'[t] = Projected(trk[t], q)
        /\ \A u \in Trackers : u # t => trk'[u] = trk[u]
    BY <1>6, BecomesEffect DEF FinishRefresh
  <2>2. q.man # "unread" /\ q.flow # NoFlow
    BY DEF FinishRefresh
  <2>3. /\ trk'[t].shown = q.flow.ver
        /\ trk'[t].state \in {"running"} \union TerminalStates
    BY <1>1, <1>6, <2>1, <2>2, ProjectedType
  <2>4. q.flow.ver \in Nat
    BY <1>1, <2>2 DEF Read, Flow
  <2>5. AbsentIsQuiet(t)'
    BY <2>3 DEF AbsentIsQuiet, TerminalStates
  <2>6. \A p \in reads'[t] : ~p.current
    BY <1>3, <1>4, <1>6 DEF ReadsOrdered
  <2>7. trk[t].shown <= trk'[t].shown /\ trk'[t].shown <= flow'.ver
    BY <1>2, <1>3, <1>4, <1>6, <2>2, <2>3, <2>4 DEF ReadsOrdered
  <2>8. ReadsOrdered(t)'
    BY <1>3, <1>4, <2>6, <2>7 DEF ReadsOrdered
  <2>9. QED
    BY <1>2, <1>4, <2>1, <2>5, <2>7, <2>8, ProjectionOthers
<1>7. CASE ~(q.current /\ trk[t].state = "running")
  <2>1. trk' = trk
    BY <1>7 DEF FinishRefresh
  <2>2. AbsentIsQuiet(t)'
    BY <1>5, <2>1 DEF AbsentIsQuiet
  <2>3. ReadsOrdered(t)'
    BY <1>2, <1>3, <1>4, <2>1 DEF ReadsOrdered
  <2>4. QED
    BY <1>2, <1>4, <2>1, <2>2, <2>3, ProjectionOthers
<1>8. QED
  BY <1>6, <1>7

(* An existing tracker is one that was started, is live or was spawned. *)
LEMMA Exists ==
  ASSUME ProjectionInv, NEW t \in Trackers,
         \/ trk[t].start # "none" \/ trk[t].live \/ trk[t].child = "watched"
  PROVE  trk[t].state # "absent"
BY DEF ProjectionInv, AbsentIsQuiet, Absent

(* Updating other fields leaves the projection and the lifecycle state alone. *)
LEMMA UpdateKeeps ==
  ASSUME NEW x \in Tracker, NEW step, NEW event
  PROVE  LET Keeps(y) == y.shown = x.shown /\ y.state = x.state
         IN  /\ Keeps([x EXCEPT !.cancel = TRUE])
             /\ Keeps([x EXCEPT !.pending = FALSE])
             /\ Keeps([x EXCEPT !.start = step])
             /\ Keeps([x EXCEPT !.start = step, !.live = TRUE])
             /\ Keeps([x EXCEPT !.start = step, !.pending = FALSE,
                                !.live = TRUE])
             /\ Keeps([x EXCEPT !.start = step, !.child = event])
             /\ Keeps([x EXCEPT !.child = event, !.pending = FALSE])
             /\ Keeps([x EXCEPT !.announced = TRUE, !.live = FALSE])
BY DEF Tracker

LEMMA ProjectionInit == Init => ProjectionInv
<1> SUFFICES ASSUME Init, NEW t \in Trackers
             PROVE  AbsentIsQuiet(t) /\ ReadsOrdered(t)
  BY DEF ProjectionInv
<1>1. trk[t] = Absent /\ reads[t] = {} /\ flow.ver = 1
  BY DEF Init
<1>2. Absent.shown = 0
  BY DEF Absent
<1>3. QED
  BY <1>1, <1>2 DEF AbsentIsQuiet, ReadsOrdered

LEMMA ProjectionStep == TypeOK /\ ProjectionInv /\ [Next]_vars => ProjectionKept
<1> SUFFICES ASSUME TypeOK, ProjectionInv, [Next]_vars
             PROVE  ProjectionKept
  OBVIOUS
<1>0. /\ UNCHANGED flow => flow.ver <= flow'.ver /\ flow'.ver \in Nat
      /\ \A t \in Trackers : trk[t] \in Tracker
  BY FlowGrows DEF TypeOK
<1>1. ASSUME NEW r \in Runs, CliNext(r)
      PROVE  ProjectionKept
  <2>1. UNCHANGED <<trk, reads>>
    BY <1>1 DEF CliNext, TerminalStartsRun, CliRegisters, CliRefused,
                CliWritesFlow, CliUnregisters, CliExits, service
  <2>2. UNCHANGED flow \/ \E s : SetFlow(s)
    BY <1>1 DEF CliNext, TerminalStartsRun, CliRegisters, CliRefused,
                CliWritesFlow, CliUnregisters, CliExits
  <2>3. QED
    BY <2>1, <2>2, FlowGrows, ProjectionSame
<1>2. ASSUME NEW r \in Runs, RunNext(r)
      PROVE  ProjectionKept
  <2>1. ASSUME NEW t \in Trackers, StartPlain(r, t)
        PROVE  ProjectionKept
    BY <2>1, ProjectionCreate DEF StartPlain, Track, env
  <2>2. ASSUME NEW t \in Trackers, RerunPlanned(r, t)
        PROVE  ProjectionKept
    BY <2>2, ProjectionCreate DEF RerunPlanned, Track, env
  <2>3. ASSUME NEW t \in Trackers, AdoptAlive(r, t)
        PROVE  ProjectionKept
    BY <2>3, ProjectionCreate DEF AdoptAlive, env
  <2>4. CASE StartRerun(r) \/ AdoptBegin(r) \/ InspectAlive(r) \/ AdoptFails(r)
    BY <1>0, <2>4, ProjectionSame DEF StartRerun, AdoptBegin, InspectAlive, AdoptFails, env
  <2>5. CASE AdoptDead(r)
    BY <2>5, FlowGrows, ProjectionSame DEF AdoptDead
  <2>6. CASE cancelOperation(r)
    <3>1. operations[r] \in Trackers /\ trk[operations[r]].state = "running"
      BY <2>6 DEF TypeOK, cancelOperation, Active
    <3>2. LET x == [trk[operations[r]] EXCEPT !.cancel = TRUE]
          IN  x.shown = trk[operations[r]].shown /\ x.state = "running"
      BY <1>0, <3>1, UpdateKeeps
    <3>3. QED
      BY <1>0, <2>6, <3>1, <3>2, ProjectionUpdate DEF cancelOperation, env
  <2>7. QED
    BY <1>2, <2>1, <2>2, <2>3, <2>4, <2>5, <2>6 DEF RunNext
<1>3. ASSUME NEW t \in Trackers, RefreshNext(t)
      PROVE  ProjectionKept
  <2>1. ASSUME NEW q \in reads[t], ReadManifest(t, q)
        PROVE  ProjectionKept
    <3>1. PICK seen : reads' = [reads EXCEPT ![t] =
                         (@ \ {q}) \union {[q EXCEPT !.man = seen]}]
      BY <2>1 DEF ReadManifest
    <3>2. q \in Read
      BY DEF TypeOK
    <3>3. /\ [q EXCEPT !.man = seen].current => q.current
          /\ [q EXCEPT !.man = seen].flow = q.flow
      BY <3>2 DEF Read
    <3>4. UNCHANGED <<flow, trk>>
      BY <2>1 DEF ReadManifest, env
    <3> DEFINE N == {[q EXCEPT !.man = seen]}
    <3>5. ReadGivesWay(t, q, N)
      BY <3>1, <3>3, <3>4 DEF ReadGivesWay
    <3> HIDE DEF N
    <3>6. QED
      BY <3>5, ProjectionRead
  <2>2. ASSUME NEW q \in reads[t], ReadFlow(t, q)
        PROVE  ProjectionKept
    <3>1. q \in Read
      BY DEF TypeOK
    <3>2. /\ [q EXCEPT !.flow = flow].current => q.current
          /\ [q EXCEPT !.flow = flow].flow = flow
      BY <3>1 DEF Read
    <3>3. reads' = [reads EXCEPT ![t] =
                      (@ \ {q}) \union {[q EXCEPT !.flow = flow]}]
      BY <2>2 DEF ReadFlow
    <3>4. UNCHANGED <<flow, trk>>
      BY <2>2 DEF ReadFlow, env
    <3> DEFINE N == {[q EXCEPT !.flow = flow]}
    <3>5. ReadGivesWay(t, q, N)
      BY <3>2, <3>3, <3>4 DEF ReadGivesWay
    <3> HIDE DEF N
    <3>6. QED
      BY <3>5, ProjectionRead
  <2>3. ASSUME NEW q \in reads[t], ReadFails(t, q)
        PROVE  ProjectionKept
    <3>1. ReadGivesWay(t, q, {})
      BY <2>3 DEF ReadFails, ReadGivesWay, env
    <3>2. QED
      BY <3>1, ProjectionRead
  <2>4. ASSUME NEW q \in reads[t], FinishRefresh(t, q)
        PROVE  ProjectionKept
    BY <2>4, ProjectionFinish
  <2>5. CASE AnnounceOutcome(t)
    <3>1. trk[t].state # "absent"
      BY <2>5 DEF AnnounceOutcome, TerminalStates
    <3>2. LET x == [trk[t] EXCEPT !.announced = TRUE, !.live = FALSE]
          IN  x.shown = trk[t].shown /\ x.state # "absent"
      BY <1>0, <3>1, UpdateKeeps
    <3>3. QED
      BY <1>0, <2>5, <3>1, <3>2, ProjectionUpdate DEF AnnounceOutcome, env
  <2>6. QED
    BY <1>3, <2>1, <2>2, <2>3, <2>4, <2>5 DEF RefreshNext
<1>4. ASSUME NEW t \in Trackers, StartNext(t)
      PROVE  ProjectionKept
  <2>1. CASE SpawnFails(t)
    <3>1. trk[t].state # "absent"
      BY <2>1, Exists DEF SpawnFails
    <3>2. LET x == [trk[t] EXCEPT !.start = "failed"]
          IN  x.shown = trk[t].shown /\ x.state # "absent"
      BY <1>0, <3>1, UpdateKeeps
    <3>3. QED
      BY <1>0, <2>1, <3>1, <3>2, ProjectionUpdate DEF SpawnFails, env
  <2>2. CASE ChildExits(t)
    <3>1. trk[t].state # "absent"
      BY <2>2, Exists DEF ChildExits
    <3>2. LET x == [trk[t] EXCEPT !.child = "seen", !.pending = FALSE]
          IN  x.shown = trk[t].shown /\ x.state # "absent"
      BY <1>0, <3>1, UpdateKeeps
    <3>3. QED
      BY <1>0, <2>2, <3>1, <3>2, ProjectionUpdate DEF ChildExits, env
  <2>3. CASE HandshakeMatches(t)
    <3>1. trk[t].state # "absent"
      BY <2>3, Exists DEF HandshakeMatches
    <3>2. LET x == [trk[t] EXCEPT !.start = "ready", !.pending = FALSE,
                                !.live = TRUE]
          IN  x.shown = trk[t].shown /\ x.state # "absent"
      BY <1>0, <3>1, UpdateKeeps
    <3>3. QED
      BY <1>0, <2>3, <3>1, <3>2, ProjectionUpdate DEF HandshakeMatches, env
  <2>4. CASE HandshakeGivesUp(t)
    <3>1. trk[t].state # "absent"
      BY <2>4, Exists DEF HandshakeGivesUp
    <3>2. LET x == [trk[t] EXCEPT !.start = "ready", !.live = TRUE]
          IN  x.shown = trk[t].shown /\ x.state # "absent"
      BY <1>0, <3>1, UpdateKeeps
    <3>3. QED
      BY <1>0, <2>4, <3>1, <3>2, ProjectionUpdate DEF HandshakeGivesUp, env
  <2>5. CASE HandshakeAborts(t)
    <3>1. trk[t].state # "absent"
      BY <2>5, Exists DEF HandshakeAborts
    <3>2. LET x == [trk[t] EXCEPT !.start = "failed"]
          IN  x.shown = trk[t].shown /\ x.state # "absent"
      BY <1>0, <3>1, UpdateKeeps
    <3>3. QED
      BY <1>0, <2>5, <3>1, <3>2, ProjectionUpdate DEF HandshakeAborts, env
  <2>6. CASE WatcherReady(t)
    <3>1. trk[t].state # "absent"
      BY <2>6, Exists DEF WatcherReady
    <3>2. LET x == [trk[t] EXCEPT !.start = "done"]
          IN  x.shown = trk[t].shown /\ x.state # "absent"
      BY <1>0, <3>1, UpdateKeeps
    <3>3. QED
      BY <1>0, <2>6, <3>1, <3>2, ProjectionUpdate DEF WatcherReady, env
  <2>7. CASE ChildSpawned(t)
    BY <1>0, <2>7, ProjectionSame DEF ChildSpawned, service
  <2>8. CASE SpawnReturns(t)
    <3>1. trk[t].state # "absent"
      BY <2>8, Exists DEF SpawnReturns
    <3>2. PICK event :
            Becomes(t, [trk[t] EXCEPT !.start = "handshake", !.child = event])
      BY <2>8 DEF SpawnReturns
    <3>3. LET x == [trk[t] EXCEPT !.start = "handshake", !.child = event]
          IN  x.shown = trk[t].shown /\ x.state # "absent"
      BY <1>0, <3>1, UpdateKeeps
    <3>4. QED
      BY <1>0, <2>8, <3>1, <3>2, <3>3, ProjectionUpdate DEF SpawnReturns, env
  <2>9. QED
    BY <1>4, <2>1, <2>2, <2>3, <2>4, <2>5, <2>6, <2>7, <2>8 DEF StartNext
<1>5. ASSUME NEW t \in Trackers, Trigger(t)
      PROVE  ProjectionKept
  BY <1>0, <1>5, ProjectionUpdate DEF Trigger, env
<1>6. ASSUME NEW t \in Trackers, inspectTrackedProcess(t)
      PROVE  ProjectionKept
  <2>1. trk[t].state = "running"
    BY <1>6 DEF inspectTrackedProcess
  <2>2. LET x == [trk[t] EXCEPT !.pending = FALSE]
        IN  x.shown = trk[t].shown /\ x.state # "absent"
    BY <1>0, <2>1, UpdateKeeps
  <2>3. flow.ver <= flow'.ver /\ flow'.ver \in Nat
    BY <1>6, FlowGrows DEF inspectTrackedProcess
  <2>4. QED
    BY <1>6, <2>1, <2>2, <2>3, ProjectionUpdate DEF inspectTrackedProcess
<1>7. CASE UNCHANGED vars
  BY <1>0, <1>7, ProjectionSame DEF vars
<1>8. QED
  BY <1>1, <1>2, <1>3, <1>4, <1>5, <1>6, <1>7 DEF Next

(* However many refreshes of an operation overlap, the flow it projects is   *)
(* never replaced by an older version of flow.json.                          *)
THEOREM ProjectionMonotonic == Spec => ProjectionNeverGoesBack
<1>1. Init => ProjectionInv
  BY ProjectionInit
<1>2. TypeOK /\ ProjectionInv /\ [Next]_vars => ProjectionInv'
  BY ProjectionStep DEF ProjectionKept
<1>3. TypeOK /\ ProjectionInv /\ [Next]_vars
        => \A t \in Trackers : trk[t].shown <= trk'[t].shown
  BY ProjectionStep DEF ProjectionKept
<1>4. QED
  BY <1>1, <1>2, <1>3, TypeCorrect, PTL DEF Spec, ProjectionNeverGoesBack

-----------------------------------------------------------------------------
(* Adopted operations: what the manifest and the refreshes know of the run. *)

Adopting(r) == adopting[r].asked > 0 \/ adopting[r].alive > 0
AdoptionInv == /\ \A r \in Runs : Registration(r) /\ (Adopting(r) => WasNamed(r))
               /\ \A t \in Trackers : AdoptionKnown(t)

(* The ECC processes only move forward: a run that has unregistered stays so. *)
Unregistered == {"closed", "exited"}
Registered   == {"registered", "settled"}
Forward == \A r \in Runs :
             /\ proc[r] \in Unregistered => proc'[r] \in Unregistered
             /\ proc[r] \in Registered => proc'[r] \in Registered \union Unregistered

LEMMA RegistrationStep ==
  TypeOK /\ AdoptionInv /\ [Next]_vars
    => Forward /\ \A r \in Runs : Registration(r)'
<1> SUFFICES ASSUME TypeOK, AdoptionInv, [Next]_vars
             PROVE  Forward /\ \A r \in Runs : Registration(r)'
  OBVIOUS
<1>0. \A r \in Runs : Registration(r)
  BY DEF AdoptionInv
<1>1. CASE UNCHANGED <<proc, entry>>
  BY <1>0, <1>1 DEF Registration, Forward, Registered, Unregistered
<1>2. ASSUME NEW r \in Runs, CliNext(r)
      PROVE  Forward /\ \A s \in Runs : Registration(s)'
  <2>1. CASE TerminalStartsRun(r)
    BY <1>0, <2>1 DEF TypeOK, TerminalStartsRun, Registration, Forward,
                     Registered, Unregistered
  <2>2. CASE CliRegisters(r)
    BY <1>0, <2>2, ConstantsAssumption
    DEF TypeOK, CliRegisters, Registration, Forward, Registered,
        Unregistered, Gone
  <2>3. CASE CliRefused(r)
    BY <1>0, <2>3 DEF TypeOK, CliRefused, Registration, Forward,
                     Registered, Unregistered
  <2>4. CASE \E s \in WrittenFlows : CliWritesFlow(r, s)
    BY <1>0, <2>4 DEF TypeOK, CliWritesFlow, Registration, Forward,
                     Registered, Unregistered
  <2>5. CASE CliUnregisters(r)
    BY <1>0, <2>5, ConstantsAssumption
    DEF TypeOK, CliUnregisters, Registration, Forward, Registered,
        Unregistered
  <2>6. CASE CliExits(r)
    BY <1>0, <2>6 DEF TypeOK, CliExits, Registration, Forward,
                     Registered, Unregistered
  <2>7. QED
    BY <1>2, <2>1, <2>2, <2>3, <2>4, <2>5, <2>6 DEF CliNext
<1>3. ASSUME NEW r, r \in Runs, ProcessReconcile(r)
      PROVE  Forward /\ \A s \in Runs : Registration(s)'
  BY <1>0, <1>3, ConstantsAssumption
  DEF TypeOK, ProcessReconcile, Registration, Forward, Registered,
      Unregistered, Gone, env
<1>4. ASSUME NEW r \in Runs, RunNext(r)
      PROVE  Forward /\ \A s \in Runs : Registration(s)'
  <2>1. CASE AdoptDead(r)
    BY <1>3, <2>1 DEF AdoptDead
  <2>2. CASE ~AdoptDead(r)
    BY <1>1, <1>4, <2>2
    DEF RunNext, StartPlain, RerunPlanned, StartRerun, AdoptBegin, AdoptFails,
        InspectAlive, AdoptAlive, cancelOperation, env
  <2>3. QED
    BY <2>1, <2>2
<1>5. ASSUME NEW t \in Trackers, RefreshNext(t)
      PROVE  Forward /\ \A s \in Runs : Registration(s)'
  BY <1>1, <1>5 DEF RefreshNext, ReadManifest, ReadFlow, ReadFails,
                    FinishRefresh, AnnounceOutcome, env
<1>6. ASSUME NEW t \in Trackers, StartNext(t)
      PROVE  Forward /\ \A s \in Runs : Registration(s)'
  <2>1. CASE ChildSpawned(t)
    BY <1>0, <2>1 DEF TypeOK, ChildSpawned, Registration, Forward,
                      Registered, Unregistered
  <2>2. CASE ~ChildSpawned(t)
    BY <1>1, <1>6, <2>2
    DEF StartNext, SpawnFails, SpawnReturns, ChildExits, HandshakeMatches,
        HandshakeGivesUp, HandshakeAborts, WatcherReady, env
  <2>3. QED
    BY <2>1, <2>2
<1>7. ASSUME NEW t \in Trackers, Trigger(t)
      PROVE  Forward /\ \A s \in Runs : Registration(s)'
  BY <1>1, <1>7 DEF Trigger, env
<1>8. ASSUME NEW t \in Trackers, inspectTrackedProcess(t)
      PROVE  Forward /\ \A s \in Runs : Registration(s)'
  <2>1. CASE trk[t].run \in Runs
    BY <1>3, <1>8, <2>1 DEF inspectTrackedProcess
  <2>2. CASE trk[t].run \notin Runs
    BY <1>0, <1>8, <2>2, ConstantsAssumption
    DEF TypeOK, inspectTrackedProcess, ProcessReconcile, Registration, Forward,
        Registered, Unregistered, Gone, env, Tracker
  <2>3. QED
    BY <2>1, <2>2
<1>9. QED
  BY <1>1, <1>2, <1>4, <1>5, <1>6, <1>7, <1>8 DEF Next, vars

(* x tells no more of an adopted run than the tracker it replaces. *)
NoNews(x, old) == x.start = "adopted" =>
                    /\ old.start = "adopted"
                    /\ x.run = old.run
                    /\ x.state \in TerminalStates => old.state \in TerminalStates

LEMMA AdoptionFrame ==
  ASSUME AdoptionInv, Forward, NEW t \in Trackers, NoNews(trk'[t], trk[t]),
         \A q \in reads'[t] : q.man = "other" => \E p \in reads[t] : p.man = "other"
  PROVE  AdoptionKnown(t)'
<1>1. SUFFICES ASSUME trk'[t].start = "adopted"
               PROVE  AdoptionKnown(t)'
  BY DEF AdoptionKnown
<1>2. /\ trk[t].start = "adopted" /\ trk'[t].run = trk[t].run
      /\ trk'[t].state \in TerminalStates => trk[t].state \in TerminalStates
  BY <1>1 DEF NoNews
<1>3. AdoptionKnown(t)
  BY DEF AdoptionInv
<1>4. /\ trk[t].run \in Runs
      /\ proc[trk[t].run] \in Registered \union Unregistered
      /\ (\/ trk[t].state \in TerminalStates
          \/ \E q \in reads[t] : q.man = "other")
         => proc[trk[t].run] \in Unregistered
  BY <1>2, <1>3 DEF AdoptionKnown, Registered, Unregistered
<1>5. /\ proc'[trk[t].run] \in Registered \union Unregistered
      /\ (\/ trk'[t].state \in TerminalStates
          \/ \E q \in reads'[t] : q.man = "other")
         => proc'[trk[t].run] \in Unregistered
  BY <1>2, <1>4 DEF Forward
<1>6. QED
  BY <1>2, <1>4, <1>5 DEF AdoptionKnown, Registered, Unregistered

LEMMA SupersededKeepsManifest ==
  ASSUME TypeOK, NEW t \in Trackers,
         NEW q \in Superseded(reads[t]) \union {Fresh}, q.man = "other"
  PROVE  \E p \in reads[t] : p.man = "other"
<1>1. Fresh.man = "unread"
  BY DEF Fresh
<1>2. PICK p \in reads[t] : q = [p EXCEPT !.current = FALSE]
  BY <1>1 DEF Superseded
<1>3. p \in Read
  BY DEF TypeOK
<1>4. QED
  BY <1>2, <1>3 DEF Read

(* A step that updates one tracker and may begin a refresh of it. *)
LEMMA AdoptionUpdate ==
  ASSUME TypeOK, AdoptionInv, Forward, NEW t \in Trackers,
         NEW x, NoNews(x, trk[t]), Becomes(t, x),
         UNCHANGED reads \/ BeginRefresh(t, trk[t])
  PROVE  \A u \in Trackers : AdoptionKnown(u)'
<1>1. trk'[t] = x /\ \A u \in Trackers : u # t => trk'[u] = trk[u]
  BY BecomesEffect
<1>2. ASSUME NEW u \in Trackers
      PROVE  \/ reads'[u] = reads[u]
             \/ reads'[u] = Superseded(reads[u]) \union {Fresh}
  BY BeginRefreshEffect
<1>3. ASSUME NEW u \in Trackers
      PROVE  \A q \in reads'[u] : q.man = "other"
               => \E p \in reads[u] : p.man = "other"
  BY <1>2, SupersededKeepsManifest
<1>4. ASSUME NEW u \in Trackers
      PROVE  NoNews(trk'[u], trk[u])
  BY <1>1 DEF NoNews
<1>5. QED
  BY <1>3, <1>4, AdoptionFrame

(* A step that updates no tracker and removes, or only begins, refreshes. *)
LEMMA AdoptionSame ==
  ASSUME TypeOK, AdoptionInv, Forward, UNCHANGED trk,
         UNCHANGED reads \/ \E t \in Trackers : BeginRefresh(t, trk[t])
  PROVE  \A u \in Trackers : AdoptionKnown(u)'
<1>1. ASSUME NEW u \in Trackers
      PROVE  \/ reads'[u] = reads[u]
             \/ reads'[u] = Superseded(reads[u]) \union {Fresh}
  BY BeginRefreshEffect
<1>2. ASSUME NEW u \in Trackers
      PROVE  \A q \in reads'[u] : q.man = "other"
               => \E p \in reads[u] : p.man = "other"
  BY <1>1, SupersededKeepsManifest
<1>3. ASSUME NEW u \in Trackers
      PROVE  NoNews(trk'[u], trk[u])
  BY DEF NoNews
<1>4. QED
  BY <1>2, <1>3, AdoptionFrame

(* What each of the field updates says of an adopted run: nothing. *)
LEMMA UpdateNoNews ==
  ASSUME NEW x \in Tracker, NEW event,
         NEW step \in {"handshake", "ready", "done", "failed"}
  PROVE  /\ NoNews([x EXCEPT !.cancel = TRUE], x)
         /\ NoNews([x EXCEPT !.pending = FALSE], x)
         /\ NoNews([x EXCEPT !.start = step], x)
         /\ NoNews([x EXCEPT !.start = step, !.live = TRUE], x)
         /\ NoNews([x EXCEPT !.start = step, !.pending = FALSE, !.live = TRUE], x)
         /\ NoNews([x EXCEPT !.start = step, !.child = event], x)
         /\ NoNews([x EXCEPT !.child = event, !.pending = FALSE], x)
         /\ NoNews([x EXCEPT !.announced = TRUE, !.live = FALSE], x)
BY DEF Tracker, NoNews

(* One of the two reads returns: a manifest that names another run, or none,  *)
(* says that the adopted run has unregistered.                                *)
LEMMA AdoptionRead ==
  ASSUME TypeOK, AdoptionInv, Forward, NEW t \in Trackers, NEW q \in reads[t],
         ReadManifest(t, q) \/ ReadFlow(t, q) \/ ReadFails(t, q)
  PROVE  \A u \in Trackers : AdoptionKnown(u)'
<1>1. /\ UNCHANGED <<trk, proc>>
      /\ \A u \in Trackers : u # t => reads'[u] = reads[u]
  BY DEF TypeOK, ReadManifest, ReadFlow, ReadFails, env
<1>2. ASSUME NEW u \in Trackers
      PROVE  NoNews(trk'[u], trk[u])
  BY <1>1 DEF NoNews
<1>3. q \in Read
  BY DEF TypeOK
<1>4. ASSUME NEW u \in Trackers, u # t
      PROVE  AdoptionKnown(u)'
  BY <1>1, <1>2, <1>4, AdoptionFrame
<1>5. AdoptionKnown(t)'
  <2>1. CASE ReadFlow(t, q) \/ ReadFails(t, q)
    <3>1. \A p \in reads'[t] : p \in reads[t] \/ p.man = q.man
      BY <1>3, <2>1 DEF TypeOK, ReadFlow, ReadFails, Read
    <3>2. QED
      BY <1>2, <3>1, AdoptionFrame
  <2>2. CASE ReadManifest(t, q)
    <3>1. CASE entry = trk[t].run
      <4>1. reads' = [reads EXCEPT ![t] =
                        (@ \ {q}) \union {[q EXCEPT !.man = "mine"]}]
        BY <2>2, <3>1 DEF ReadManifest
      <4>2. \A p \in reads'[t] : p \in reads[t] \/ p.man = "mine"
        BY <1>3, <4>1 DEF TypeOK, Read
      <4>3. QED
        BY <1>2, <4>2, AdoptionFrame
    <3>2. CASE entry # trk[t].run
      <4>1. SUFFICES ASSUME trk[t].start = "adopted"
                     PROVE  AdoptionKnown(t)'
        BY <1>1 DEF AdoptionKnown
      <4>2. /\ trk[t].run \in Runs
            /\ proc[trk[t].run] \in Registered \union Unregistered
        BY <4>1 DEF AdoptionInv, AdoptionKnown, Registered, Unregistered
      <4>3. proc[trk[t].run] \in Unregistered
        BY <3>2, <4>2 DEF AdoptionInv, Registration, Registered
      <4>4. QED
        BY <1>1, <4>2, <4>3 DEF AdoptionKnown, Unregistered
    <3>3. QED
      BY <3>1, <3>2
  <2>3. QED
    BY <2>1, <2>2
<1>6. QED
  BY <1>4, <1>5

(* A refresh settles an adopted run only on a manifest that names another. *)
LEMMA AdoptionFinish ==
  ASSUME TypeOK, AdoptionInv, Forward, NEW t \in Trackers, NEW q \in reads[t],
         FinishRefresh(t, q)
  PROVE  \A u \in Trackers : AdoptionKnown(u)'
<1>1. /\ reads'[t] = reads[t] \ {q} /\ proc' = proc
      /\ \A u \in Trackers : u # t => reads'[u] = reads[u]
  BY DEF TypeOK, FinishRefresh, env
<1>2. CASE trk' = trk
  <2>1. ASSUME NEW u \in Trackers
        PROVE  NoNews(trk'[u], trk[u])
    BY <1>2 DEF NoNews
  <2>2. QED
    BY <1>1, <2>1, AdoptionFrame
<1>3. CASE Becomes(t, Projected(trk[t], q))
  <2>1. /\ trk'[t] = Projected(trk[t], q)
        /\ \A u \in Trackers : u # t => trk'[u] = trk[u]
    BY <1>3, BecomesEffect
  <2>2. /\ trk[t] \in Tracker /\ q \in Read
        /\ q.man # "unread" /\ q.flow # NoFlow
    BY DEF TypeOK, FinishRefresh
  <2>3. /\ trk'[t].run = trk[t].run /\ trk'[t].start = trk[t].start
        /\ trk'[t].state \in TerminalStates
             => q.man = "other" \/ trk[t].state \in TerminalStates
    BY <2>1, <2>2, ProjectedType
  <2>4. ASSUME NEW u \in Trackers, u # t
        PROVE  AdoptionKnown(u)'
    <3>1. NoNews(trk'[u], trk[u])
      BY <2>1, <2>4 DEF NoNews
    <3>2. QED
      BY <1>1, <2>4, <3>1, AdoptionFrame
  <2>5. AdoptionKnown(t)'
    <3>1. AdoptionKnown(t)
      BY DEF AdoptionInv
    <3>2. QED
      BY <1>1, <2>3, <3>1 DEF AdoptionKnown
  <2>6. QED
    BY <2>4, <2>5
<1>4. QED
  BY <1>2, <1>3 DEF FinishRefresh

(* An adoption begins with a run that the manifest has named.                *)
AdoptingQuiet == \A r \in Runs : Adopting(r)'
                   => Adopting(r) \/ (WasNamed(r) /\ operations[r] = NoTracker)

LEMMA AdoptingUnchanged ==
  ASSUME UNCHANGED adopting
  PROVE  AdoptingQuiet
BY DEF AdoptingQuiet, Adopting

LEMMA AdoptingStep ==
  ASSUME TypeOK, [Next]_vars
  PROVE  AdoptingQuiet
<1>1. ASSUME NEW r \in Runs, adopting' = [adopting EXCEPT ![r] = adopting'[r]],
             Adopting(r) \/ (WasNamed(r) /\ operations[r] = NoTracker)
      PROVE  AdoptingQuiet
  <2>1. \A s \in Runs : s # r => adopting'[s] = adopting[s]
    BY <1>1 DEF TypeOK
  <2>2. QED
    BY <1>1, <2>1 DEF AdoptingQuiet, Adopting
<1>2. ASSUME NEW r \in Runs, RunNext(r)
      PROVE  AdoptingQuiet
  <2>1. CASE AdoptBegin(r)
    <3>1. adopting' = [adopting EXCEPT ![r] = adopting'[r]]
      BY <2>1 DEF TypeOK, AdoptBegin
    <3>2. QED
      BY <1>1, <2>1, <3>1 DEF AdoptBegin
  <2>2. CASE InspectAlive(r) \/ AdoptDead(r) \/ AdoptFails(r)
    <3>1. adopting' = [adopting EXCEPT ![r] = adopting'[r]]
      BY <2>2 DEF TypeOK, InspectAlive, AdoptDead, AdoptFails, InspectEnds
    <3>2. Adopting(r)
      BY <2>2 DEF Adopting, InspectAlive, AdoptDead, AdoptFails
    <3>3. QED
      BY <1>1, <3>1, <3>2
  <2>3. ASSUME NEW t \in Trackers, AdoptAlive(r, t)
        PROVE  AdoptingQuiet
    <3>1. adopting' = [adopting EXCEPT ![r] = adopting'[r]]
      BY <2>3 DEF TypeOK, AdoptAlive
    <3>2. Adopting(r)
      BY <2>3 DEF Adopting, AdoptAlive
    <3>3. QED
      BY <1>1, <3>1, <3>2
  <2>4. CASE UNCHANGED adopting
    BY <2>4, AdoptingUnchanged
  <2>5. QED
    BY <1>2, <2>1, <2>2, <2>3, <2>4
    DEF RunNext, StartPlain, RerunPlanned, StartRerun, cancelOperation
<1>3. ASSUME NEW r \in Runs, CliNext(r)
      PROVE  UNCHANGED adopting
  BY <1>3 DEF CliNext, TerminalStartsRun, CliRegisters, CliRefused, CliWritesFlow,
              CliUnregisters, CliExits, service
<1>4. ASSUME NEW t \in Trackers,
             RefreshNext(t) \/ StartNext(t) \/ Trigger(t) \/ inspectTrackedProcess(t)
      PROVE  UNCHANGED adopting
  <2>1. CASE RefreshNext(t)
    BY <2>1 DEF RefreshNext, ReadManifest, ReadFlow, ReadFails, FinishRefresh, AnnounceOutcome
  <2>2. CASE StartNext(t)
    BY <2>2 DEF StartNext, SpawnFails, ChildSpawned, SpawnReturns, ChildExits, HandshakeMatches,
                HandshakeGivesUp, HandshakeAborts, WatcherReady, service
  <2>3. CASE Trigger(t) \/ inspectTrackedProcess(t)
    BY <2>3 DEF Trigger, inspectTrackedProcess
  <2>4. QED
    BY <1>4, <2>1, <2>2, <2>3
<1>5. CASE UNCHANGED vars
  BY <1>5, AdoptingUnchanged DEF vars
<1>6. QED
  BY <1>2, <1>3, <1>4, <1>5, AdoptingUnchanged DEF Next

LEMMA AdoptingNamed ==
  ASSUME TypeOK, AdoptionInv, [Next]_vars, Forward
  PROVE  \A r \in Runs : Adopting(r)' => WasNamed(r)'
<1>1. \A r \in Runs : WasNamed(r) => WasNamed(r)'
  BY DEF Forward, WasNamed, Registered, Unregistered
<1>2. QED
  BY <1>1, AdoptingStep DEF AdoptingQuiet, AdoptionInv

(* A tracker is created for a run that Studio starts, or for a run that the   *)
(* manifest has named.                                                       *)
LEMMA AdoptionCreate ==
  ASSUME TypeOK, ProjectionInv, AdoptionInv, Forward,
         NEW r \in Runs, NEW t \in Trackers, NEW step, NEW p, NEW b,
         trk[t].state = "absent", Becomes(t, NewTracker(r, step, p, b)),
         step # "adopted" \/ WasNamed(r),
         UNCHANGED <<proc, reads>>
  PROVE  \A u \in Trackers : AdoptionKnown(u)'
<1>1. /\ trk'[t] = NewTracker(r, step, p, b)
      /\ \A u \in Trackers : u # t => trk'[u] = trk[u]
  BY BecomesEffect
<1>2. reads'[t] = {}
  BY DEF ProjectionInv, AbsentIsQuiet
<1>3. ASSUME NEW u \in Trackers, u # t
      PROVE  AdoptionKnown(u)'
  <2>1. NoNews(trk'[u], trk[u])
    BY <1>1, <1>3 DEF NoNews
  <2>2. QED
    BY <2>1, AdoptionFrame
<1>4. /\ trk'[t].start = step /\ trk'[t].run = r /\ trk'[t].state = "running"
  BY <1>1 DEF NewTracker
<1>5. AdoptionKnown(t)'
  BY <1>2, <1>4 DEF AdoptionKnown, WasNamed, TerminalStates
<1>6. QED
  BY <1>3, <1>5

LEMMA AdoptionStep ==
  TypeOK /\ ProjectionInv /\ AdoptionInv /\ [Next]_vars => AdoptionInv'
<1> SUFFICES ASSUME TypeOK, ProjectionInv, AdoptionInv, [Next]_vars
             PROVE  \A u \in Trackers : AdoptionKnown(u)'
  BY RegistrationStep, AdoptingNamed DEF AdoptionInv
<1>0. Forward /\ \A t \in Trackers : trk[t] \in Tracker
  BY RegistrationStep DEF TypeOK
<1> DEFINE Known == \A u \in Trackers : AdoptionKnown(u)'
<1>1. ASSUME NEW r \in Runs, CliNext(r)
      PROVE  Known
  <2>1. UNCHANGED <<trk, reads>>
    BY <1>1 DEF CliNext, TerminalStartsRun, CliRegisters, CliRefused,
                CliWritesFlow, CliUnregisters, CliExits, service
  <2>2. QED
    BY <1>0, <2>1, AdoptionSame
<1>2. ASSUME NEW r \in Runs, RunNext(r)
      PROVE  Known
  <2>1. ASSUME NEW t \in Trackers, StartPlain(r, t)
        PROVE  Known
    <3>1. /\ trk[t].state = "absent" /\ UNCHANGED <<proc, reads>>
          /\ Becomes(t, NewTracker(r, "spawning", TRUE, FALSE))
      BY <2>1 DEF StartPlain, Track, env
    <3>2. QED
      BY <1>0, <3>1, AdoptionCreate
  <2>2. ASSUME NEW t \in Trackers, RerunPlanned(r, t)
        PROVE  Known
    <3>1. /\ trk[t].state = "absent" /\ UNCHANGED <<proc, reads>>
          /\ Becomes(t, NewTracker(r, "spawning", TRUE, TRUE))
      BY <2>2 DEF RerunPlanned, Track, env
    <3>2. QED
      BY <1>0, <3>1, AdoptionCreate
  <2>3. ASSUME NEW t \in Trackers, AdoptAlive(r, t)
        PROVE  Known
    <3>1. WasNamed(r)
      BY <2>3 DEF AdoptAlive, AdoptionInv, Adopting
    <3>2. QED
      BY <1>0, <2>3, <3>1, AdoptionCreate DEF AdoptAlive, env
  <2>4. CASE StartRerun(r) \/ AdoptBegin(r) \/ InspectAlive(r) \/ AdoptFails(r) \/ AdoptDead(r)
    BY <1>0, <2>4, AdoptionSame
    DEF StartRerun, AdoptBegin, InspectAlive, AdoptFails, AdoptDead, env
  <2>5. CASE cancelOperation(r)
    <3>1. operations[r] \in Trackers
      BY <2>5 DEF TypeOK, cancelOperation, Active
    <3>2. NoNews([trk[operations[r]] EXCEPT !.cancel = TRUE], trk[operations[r]])
      BY <1>0, <3>1, UpdateNoNews
    <3>3. QED
      BY <1>0, <2>5, <3>1, <3>2, AdoptionUpdate DEF cancelOperation
  <2>6. QED
    BY <1>2, <2>1, <2>2, <2>3, <2>4, <2>5 DEF RunNext
<1>3. ASSUME NEW t \in Trackers, RefreshNext(t)
      PROVE  Known
  <2>1. CASE AnnounceOutcome(t)
    <3>1. NoNews([trk[t] EXCEPT !.announced = TRUE, !.live = FALSE], trk[t])
      BY <1>0, UpdateNoNews
    <3>2. QED
      BY <1>0, <2>1, <3>1, AdoptionUpdate DEF AnnounceOutcome
  <2>2. QED
    BY <1>0, <1>3, <2>1, AdoptionRead, AdoptionFinish DEF RefreshNext
<1>4. ASSUME NEW t \in Trackers, StartNext(t)
      PROVE  Known
  <2>1. CASE SpawnFails(t)
    <3>1. NoNews([trk[t] EXCEPT !.start = "failed"], trk[t])
      BY <1>0, UpdateNoNews
    <3>2. QED
      BY <1>0, <2>1, <3>1, AdoptionUpdate DEF SpawnFails
  <2>2. CASE ChildExits(t)
    <3>1. NoNews([trk[t] EXCEPT !.child = "seen", !.pending = FALSE], trk[t])
      BY <1>0, UpdateNoNews
    <3>2. QED
      BY <1>0, <2>2, <3>1, AdoptionUpdate DEF ChildExits
  <2>3. CASE HandshakeMatches(t)
    <3>1. NoNews([trk[t] EXCEPT !.start = "ready", !.pending = FALSE,
                        !.live = TRUE], trk[t])
      BY <1>0, UpdateNoNews
    <3>2. QED
      BY <1>0, <2>3, <3>1, AdoptionUpdate DEF HandshakeMatches
  <2>4. CASE HandshakeGivesUp(t)
    <3>1. NoNews([trk[t] EXCEPT !.start = "ready", !.live = TRUE], trk[t])
      BY <1>0, UpdateNoNews
    <3>2. QED
      BY <1>0, <2>4, <3>1, AdoptionUpdate DEF HandshakeGivesUp
  <2>5. CASE HandshakeAborts(t)
    <3>1. NoNews([trk[t] EXCEPT !.start = "failed"], trk[t])
      BY <1>0, UpdateNoNews
    <3>2. QED
      BY <1>0, <2>5, <3>1, AdoptionUpdate DEF HandshakeAborts
  <2>6. CASE WatcherReady(t)
    <3>1. NoNews([trk[t] EXCEPT !.start = "done"], trk[t])
      BY <1>0, UpdateNoNews
    <3>2. QED
      BY <1>0, <2>6, <3>1, AdoptionUpdate DEF WatcherReady
  <2>7. CASE ChildSpawned(t)
    BY <1>0, <2>7, AdoptionSame DEF ChildSpawned, service
  <2>8. CASE SpawnReturns(t)
    <3>1. PICK event :
            Becomes(t, [trk[t] EXCEPT !.start = "handshake", !.child = event])
      BY <2>8 DEF SpawnReturns
    <3>2. NoNews([trk[t] EXCEPT !.start = "handshake", !.child = event], trk[t])
      BY <1>0, UpdateNoNews
    <3>3. UNCHANGED reads
      BY <2>8 DEF SpawnReturns
    <3>4. QED
      BY <1>0, <3>1, <3>2, <3>3, AdoptionUpdate
  <2>9. QED
    BY <1>4, <2>1, <2>2, <2>3, <2>4, <2>5, <2>6, <2>7, <2>8 DEF StartNext
<1>5. ASSUME NEW t \in Trackers, Trigger(t)
      PROVE  Known
  BY <1>0, <1>5, AdoptionSame DEF Trigger
<1>6. ASSUME NEW t \in Trackers, inspectTrackedProcess(t)
      PROVE  Known
  <2>1. NoNews([trk[t] EXCEPT !.pending = FALSE], trk[t])
    BY <1>0, UpdateNoNews
  <2>2. Becomes(t, [trk[t] EXCEPT !.pending = FALSE]) /\ BeginRefresh(t, trk[t])
    BY <1>6 DEF inspectTrackedProcess
  <2>3. QED
    BY <1>0, <2>1, <2>2, AdoptionUpdate
<1>7. CASE UNCHANGED vars
  BY <1>0, <1>7, AdoptionSame DEF vars
<1>8. QED
  BY <1>1, <1>2, <1>3, <1>4, <1>5, <1>6, <1>7 DEF Next

(* An adopted operation is never declared terminal while its ECC process is  *)
(* still registered in the Project Manifest.                                 *)
THEOREM AdoptedStops == Spec => []AdoptedTerminalMeansStopped
<1>1. Init => ProjectionInv /\ AdoptionInv
  <2>1. Init => \A t \in Trackers : AdoptionKnown(t)
    BY DEF Init, AdoptionKnown, Absent
  <2>2. Init => \A r \in Runs : Registration(r) /\ ~Adopting(r)
    BY ConstantsAssumption DEF Init, Registration, Adopting, NoAdoption
  <2>3. QED
    BY <2>1, <2>2, ProjectionInit DEF AdoptionInv
<1>2. TypeOK /\ ProjectionInv /\ AdoptionInv /\ [Next]_vars
        => (ProjectionInv /\ AdoptionInv)'
  BY ProjectionStep, AdoptionStep DEF ProjectionKept
<1>3. AdoptionInv => AdoptedTerminalMeansStopped
  BY DEF AdoptionInv, AdoptionKnown, AdoptedTerminalMeansStopped
<1>4. QED
  BY <1>1, <1>2, <1>3, TypeCorrect, PTL DEF Spec

-----------------------------------------------------------------------------
(* Refinement: every operation behaves as OperationLifecycle promises. *)

LifecycleStep == [Lifecycle!Next]_(Lifecycle!vars)

(* What a step may make of the lifecycle of one tracker. *)
LifecycleMove(x, y) ==
  \/ y.state = x.state /\ y.announced = x.announced
  \/ x.state = "absent" /\ y.state = "running" /\ y.announced = x.announced
  \/ x.state = "running" /\ y.state \in TerminalStates /\ y.announced = x.announced
  \/ /\ x.state \in TerminalStates /\ y.state = x.state
     /\ ~x.announced /\ y.announced = TRUE

LEMMA LifecycleUpdate ==
  ASSUME TypeOK, NEW t \in Trackers, NEW x, Becomes(t, x), LifecycleMove(trk[t], x)
  PROVE  LifecycleStep
<1> DEFINE st == [u \in Trackers |-> trk[u].state]
           an == [u \in Trackers |-> trk[u].announced]
<1>1. trk'[t] = x /\ \A u \in Trackers : u # t => trk'[u] = trk[u]
  BY BecomesEffect
<1>2. st' = [st EXCEPT ![t] = x.state]
  BY <1>1
<1>3. an' = [an EXCEPT ![t] = x.announced]
  BY <1>1
<1>4. st[t] = trk[t].state /\ an[t] = trk[t].announced
  OBVIOUS
<1>5. x.state = trk[t].state => st' = st
  BY <1>2, <1>4
<1>6. x.announced = trk[t].announced => an' = an
  BY <1>3, <1>4
<1>7. CASE x.state = trk[t].state /\ x.announced = trk[t].announced
  BY <1>5, <1>6, <1>7 DEF LifecycleStep, Lifecycle!vars
<1>8. CASE /\ trk[t].state = "absent" /\ x.state = "running"
           /\ x.announced = trk[t].announced
  <2>1. Lifecycle!Create(t)
    BY <1>2, <1>4, <1>6, <1>8 DEF Lifecycle!Create
  <2>2. QED
    BY <2>1 DEF LifecycleStep, Lifecycle!Next
<1>9. CASE /\ trk[t].state = "running" /\ x.state \in TerminalStates
           /\ x.announced = trk[t].announced
  <2>1. Lifecycle!Settle(t, x.state)
    BY <1>2, <1>4, <1>6, <1>9 DEF Lifecycle!Settle
  <2>2. QED
    BY <1>9, <2>1 DEF LifecycleStep, Lifecycle!Next
<1>10. CASE /\ trk[t].state \in TerminalStates /\ x.state = trk[t].state
            /\ ~trk[t].announced /\ x.announced = TRUE
  <2>1. Lifecycle!Announce(t)
    BY <1>3, <1>4, <1>5, <1>10 DEF Lifecycle!Announce
  <2>2. QED
    BY <2>1 DEF LifecycleStep, Lifecycle!Next
<1>11. QED
  BY <1>7, <1>8, <1>9, <1>10 DEF LifecycleMove

LEMMA LifecycleSame ==
  ASSUME UNCHANGED trk
  PROVE  LifecycleStep
BY DEF LifecycleStep, Lifecycle!vars

(* What the field updates do to the lifecycle. *)
LEMMA UpdateMoves ==
  ASSUME NEW x \in Tracker, NEW step, NEW event
  PROVE  /\ LifecycleMove(x, [x EXCEPT !.cancel = TRUE])
         /\ LifecycleMove(x, [x EXCEPT !.pending = FALSE])
         /\ LifecycleMove(x, [x EXCEPT !.start = step])
         /\ LifecycleMove(x, [x EXCEPT !.start = step, !.live = TRUE])
         /\ LifecycleMove(x, [x EXCEPT !.start = step, !.pending = FALSE,
                                       !.live = TRUE])
         /\ LifecycleMove(x, [x EXCEPT !.start = step, !.child = event])
         /\ LifecycleMove(x, [x EXCEPT !.child = event, !.pending = FALSE])
         /\ x.state \in TerminalStates /\ ~x.announced
              => LifecycleMove(x, [x EXCEPT !.announced = TRUE, !.live = FALSE])
BY DEF Tracker, LifecycleMove

LEMMA CreateMoves ==
  ASSUME ProjectionInv, NEW t \in Trackers, trk[t].state = "absent",
         NEW r, NEW step, NEW p, NEW b
  PROVE  LifecycleMove(trk[t], NewTracker(r, step, p, b))
<1>1. trk[t].announced = FALSE
  BY DEF ProjectionInv, AbsentIsQuiet, Absent
<1>2. LET y == NewTracker(r, step, p, b)
      IN  y.state = "running" /\ y.announced = FALSE
  BY DEF NewTracker
<1>3. QED
  BY <1>1, <1>2 DEF LifecycleMove

LEMMA LifecycleNext ==
  TypeOK /\ ProjectionInv /\ [Next]_vars => LifecycleStep
<1> SUFFICES ASSUME TypeOK, ProjectionInv, [Next]_vars
             PROVE  LifecycleStep
  OBVIOUS
<1>0. \A t \in Trackers : trk[t] \in Tracker
  BY DEF TypeOK
<1>1. ASSUME NEW r \in Runs, CliNext(r)
      PROVE  LifecycleStep
  <2>1. UNCHANGED trk
    BY <1>1 DEF CliNext, TerminalStartsRun, CliRegisters, CliRefused,
                CliWritesFlow, CliUnregisters, CliExits, service
  <2>2. QED
    BY <2>1, LifecycleSame
<1>2. ASSUME NEW r \in Runs, RunNext(r)
      PROVE  LifecycleStep
  <2>1. ASSUME NEW t \in Trackers, StartPlain(r, t)
        PROVE  LifecycleStep
    BY <2>1, CreateMoves, LifecycleUpdate DEF StartPlain, Track
  <2>2. ASSUME NEW t \in Trackers, RerunPlanned(r, t)
        PROVE  LifecycleStep
    BY <2>2, CreateMoves, LifecycleUpdate DEF RerunPlanned, Track
  <2>3. ASSUME NEW t \in Trackers, AdoptAlive(r, t)
        PROVE  LifecycleStep
    BY <2>3, CreateMoves, LifecycleUpdate DEF AdoptAlive
  <2>4. CASE StartRerun(r) \/ AdoptBegin(r) \/ InspectAlive(r) \/ AdoptFails(r) \/ AdoptDead(r)
    BY <2>4, LifecycleSame DEF StartRerun, AdoptBegin, InspectAlive, AdoptFails, AdoptDead
  <2>5. CASE cancelOperation(r)
    <3>1. operations[r] \in Trackers
      BY <2>5 DEF TypeOK, cancelOperation, Active
    <3>2. LifecycleMove(trk[operations[r]],
                        [trk[operations[r]] EXCEPT !.cancel = TRUE])
      BY <1>0, <3>1, UpdateMoves
    <3>3. QED
      BY <2>5, <3>1, <3>2, LifecycleUpdate DEF cancelOperation
  <2>6. QED
    BY <1>2, <2>1, <2>2, <2>3, <2>4, <2>5 DEF RunNext
<1>3. ASSUME NEW t \in Trackers, RefreshNext(t)
      PROVE  LifecycleStep
  <2>1. ASSUME NEW q \in reads[t], FinishRefresh(t, q)
        PROVE  LifecycleStep
    <3>1. q \in Read /\ q.man # "unread" /\ q.flow # NoFlow
      BY <2>1 DEF TypeOK, FinishRefresh
    <3>2. LET y == Projected(trk[t], q)
          IN  /\ y.announced = trk[t].announced
              /\ y.state \in {trk[t].state} \union TerminalStates
      BY <1>0, <3>1, ProjectedType
    <3>3. CASE UNCHANGED trk
      BY <3>3, LifecycleSame
    <3>4. CASE /\ trk[t].state = "running"
               /\ Becomes(t, Projected(trk[t], q))
      <4>1. LifecycleMove(trk[t], Projected(trk[t], q))
        BY <3>2, <3>4 DEF LifecycleMove
      <4>2. QED
        BY <3>4, <4>1, LifecycleUpdate
    <3>5. QED
      BY <2>1, <3>3, <3>4 DEF FinishRefresh
  <2>2. CASE AnnounceOutcome(t)
    <3>1. LifecycleMove(trk[t], [trk[t] EXCEPT !.announced = TRUE, !.live = FALSE])
      BY <1>0, <2>2, UpdateMoves DEF AnnounceOutcome
    <3>2. QED
      BY <2>2, <3>1, LifecycleUpdate DEF AnnounceOutcome
  <2>3. QED
    BY <1>3, <2>1, <2>2, LifecycleSame
    DEF RefreshNext, ReadManifest, ReadFlow, ReadFails
<1>4. ASSUME NEW t \in Trackers, StartNext(t)
      PROVE  LifecycleStep
  <2>1. CASE SpawnFails(t)
    <3>1. LifecycleMove(trk[t],
                        [trk[t] EXCEPT !.start = "failed"])
      BY <1>0, UpdateMoves
    <3>2. QED
      BY <2>1, <3>1, LifecycleUpdate DEF SpawnFails
  <2>2. CASE ChildExits(t)
    <3>1. LifecycleMove(trk[t],
                        [trk[t] EXCEPT !.child = "seen", !.pending = FALSE])
      BY <1>0, UpdateMoves
    <3>2. QED
      BY <2>2, <3>1, LifecycleUpdate DEF ChildExits
  <2>3. CASE HandshakeMatches(t)
    <3>1. LifecycleMove(trk[t],
                        [trk[t] EXCEPT !.start = "ready", !.pending = FALSE,
                                        !.live = TRUE])
      BY <1>0, UpdateMoves
    <3>2. QED
      BY <2>3, <3>1, LifecycleUpdate DEF HandshakeMatches
  <2>4. CASE HandshakeGivesUp(t)
    <3>1. LifecycleMove(trk[t],
                        [trk[t] EXCEPT !.start = "ready", !.live = TRUE])
      BY <1>0, UpdateMoves
    <3>2. QED
      BY <2>4, <3>1, LifecycleUpdate DEF HandshakeGivesUp
  <2>5. CASE HandshakeAborts(t)
    <3>1. LifecycleMove(trk[t],
                        [trk[t] EXCEPT !.start = "failed"])
      BY <1>0, UpdateMoves
    <3>2. QED
      BY <2>5, <3>1, LifecycleUpdate DEF HandshakeAborts
  <2>6. CASE WatcherReady(t)
    <3>1. LifecycleMove(trk[t],
                        [trk[t] EXCEPT !.start = "done"])
      BY <1>0, UpdateMoves
    <3>2. QED
      BY <2>6, <3>1, LifecycleUpdate DEF WatcherReady
  <2>7. CASE ChildSpawned(t)
    BY <2>7, LifecycleSame DEF ChildSpawned, service
  <2>8. CASE SpawnReturns(t)
    <3>1. PICK event :
            Becomes(t, [trk[t] EXCEPT !.start = "handshake", !.child = event])
      BY <2>8 DEF SpawnReturns
    <3>2. LifecycleMove(trk[t],
                        [trk[t] EXCEPT !.start = "handshake", !.child = event])
      BY <1>0, UpdateMoves
    <3>3. QED
      BY <3>1, <3>2, LifecycleUpdate
  <2>9. QED
    BY <1>4, <2>1, <2>2, <2>3, <2>4, <2>5, <2>6, <2>7, <2>8 DEF StartNext
<1>5. ASSUME NEW t \in Trackers, Trigger(t)
      PROVE  LifecycleStep
  BY <1>5, LifecycleSame DEF Trigger
<1>6. ASSUME NEW t \in Trackers, inspectTrackedProcess(t)
      PROVE  LifecycleStep
  <2>1. LifecycleMove(trk[t], [trk[t] EXCEPT !.pending = FALSE])
    BY <1>0, UpdateMoves
  <2>2. Becomes(t, [trk[t] EXCEPT !.pending = FALSE])
    BY <1>6 DEF inspectTrackedProcess
  <2>3. QED
    BY <2>1, <2>2, LifecycleUpdate
<1>7. CASE UNCHANGED vars
  BY <1>7, LifecycleSame DEF vars
<1>8. QED
  BY <1>1, <1>2, <1>3, <1>4, <1>5, <1>6, <1>7 DEF Next

(* The runtime implements the lifecycle it promises to its callers: every    *)
(* operation settles at most once, in one outcome that never changes, and    *)
(* announces it at most once, after it is known.                             *)
THEOREM LifecycleRefined == Spec => LifecycleSpec
<1>1. Init => Lifecycle!Init
  BY DEF Init, Lifecycle!Init, Absent
<1>2. Init => ProjectionInv
  BY ProjectionInit
<1>3. TypeOK /\ ProjectionInv /\ [Next]_vars => ProjectionInv'
  BY ProjectionStep DEF ProjectionKept
<1>4. TypeOK /\ ProjectionInv /\ [Next]_vars => [Lifecycle!Next]_(Lifecycle!vars)
  BY LifecycleNext DEF LifecycleStep
<1>5. QED
  BY <1>1, <1>2, <1>3, <1>4, TypeCorrect, PTL
  DEF Spec, LifecycleSpec, Lifecycle!Spec
-----------------------------------------------------------------------------
(* Starts and adoptions: which operations may be active together, and which *)
(* runs may be tracked again. *)

(* What the runtime knows of the runs it has tracked, is about to track or   *)
(* is about to adopt.                                                        *)
Tracked(r) == \E t \in Trackers : trk[t].run = r

MapNamesTrackers == \A r \in Runs : operations[r] # NoTracker
                                      => trk[operations[r]].state # "absent"

PlannedIsNew == \A r \in planning : proc[r] = "none" /\ ~Tracked(r)

ForgottenIsGone == \A t \in Trackers : \A r \in Runs :
  trk[t].run = r => operations[r] # NoTracker \/ Gone(r)

ExitSeenIsGone == \A t \in Trackers : \A r \in Runs :
  trk[t].run = r /\ trk[t].child = "seen" => Gone(r)

AdoptedWasUntracked == \A r \in Runs : Adopting(r) =>
  \A t \in Trackers : trk[t].run = r => trk[t].start = "adopted" \/ Gone(r)

StartInv == /\ MapNamesTrackers /\ PlannedIsNew /\ ForgottenIsGone
            /\ ExitSeenIsGone /\ AdoptedWasUntracked

-----------------------------------------------------------------------------
(* What every step that creates no operation leaves as it is. *)

Tame(x, y) == /\ y.run = x.run /\ y.rerun = x.rerun
              /\ y.start = "adopted" <=> x.start = "adopted"
              /\ y.state = "absent" <=> x.state = "absent"
              /\ y.state = "running" => x.state = "running"
              /\ y.child = "seen" => x.child = "seen" \/ Gone(x.run)

TrackersQuiet == \A u \in Trackers : Tame(trk[u], trk'[u])
MapQuiet      == \A r \in Runs : \/ operations'[r] = operations[r]
                                 \/ operations'[r] = NoTracker /\ Gone(r)
ProcQuiet     == \A r \in Runs :
                   /\ Gone(r) => Gone(r)'
                   /\ proc[r] # "none" => proc'[r] # "none"
                   /\ r \in planning /\ proc[r] = "none"
                        => proc'[r] = "none" \/ Tracked(r)
PlanningQuiet == \A r \in planning' :
                   r \in planning \/ (Unused(r) /\ UNCHANGED proc)

Quiet == /\ TrackersQuiet /\ MapQuiet /\ ProcQuiet
         /\ PlanningQuiet /\ AdoptingQuiet

(* The other steps: a tracker t of run r comes into being. *)
Creates(r, t) == StartPlain(r, t) \/ RerunPlanned(r, t) \/ AdoptAlive(r, t)

LEMMA TrackersUnchanged ==
  ASSUME UNCHANGED trk
  PROVE  TrackersQuiet
BY DEF TrackersQuiet, Tame

LEMMA TrackerUpdated ==
  ASSUME TypeOK, NEW t \in Trackers, NEW x, Becomes(t, x), Tame(trk[t], x)
  PROVE  TrackersQuiet
<1>1. trk'[t] = x /\ \A u \in Trackers : u # t => trk'[u] = trk[u]
  BY BecomesEffect
<1>2. ASSUME NEW u \in Trackers
      PROVE  Tame(trk[u], trk'[u])
  <2>1. CASE u = t
    BY <1>1, <2>1
  <2>2. CASE u # t
    BY <1>1, <2>2 DEF Tame
  <2>3. QED
    BY <2>1, <2>2
<1>3. QED
  BY <1>2 DEF TrackersQuiet

LEMMA TameUpdates ==
  ASSUME NEW x \in Tracker, NEW step, NEW event, x.start # "adopted",
         step # "adopted", event # "seen"
  PROVE  /\ Tame(x, [x EXCEPT !.start = step])
         /\ Tame(x, [x EXCEPT !.start = step, !.live = TRUE])
         /\ Tame(x, [x EXCEPT !.start = step, !.pending = FALSE, !.live = TRUE])
         /\ Tame(x, [x EXCEPT !.start = step, !.child = event])
BY DEF Tracker, Tame

LEMMA TameFields ==
  ASSUME NEW x \in Tracker
  PROVE  /\ Tame(x, [x EXCEPT !.cancel = TRUE])
         /\ Tame(x, [x EXCEPT !.pending = FALSE])
         /\ Tame(x, [x EXCEPT !.announced = TRUE, !.live = FALSE])
         /\ Gone(x.run) => Tame(x, [x EXCEPT !.child = "seen", !.pending = FALSE])
BY DEF Tracker, Tame

LEMMA TameProjected ==
  ASSUME NEW x \in Tracker, NEW q \in Read, q.man # "unread", q.flow # NoFlow,
         x.state = "running"
  PROVE  Tame(x, Projected(x, q))
<1>1. /\ Projected(x, q) \in Tracker
      /\ Projected(x, q).state \in {x.state} \union TerminalStates
      /\ Projected(x, q).run = x.run /\ Projected(x, q).start = x.start
  BY ProjectedType
<1>2. Projected(x, q).rerun = x.rerun /\ Projected(x, q).child = x.child
  BY DEF Projected, Tracker
<1>3. QED
  BY <1>1, <1>2 DEF Tame, TerminalStates

LEMMA ProcUnchanged ==
  ASSUME UNCHANGED proc
  PROVE  ProcQuiet
BY DEF ProcQuiet, Gone

LEMMA PlanningUnchanged ==
  ASSUME UNCHANGED planning
  PROVE  PlanningQuiet
BY DEF PlanningQuiet

(* A step that leaves the runs' processes and the planned and pending calls   *)
(* of the service alone is quiet if it is so for the trackers.               *)
LEMMA QuietUpdate ==
  ASSUME TypeOK, TrackersQuiet, MapQuiet, UNCHANGED <<proc, planning, adopting>>
  PROVE  Quiet
BY ProcUnchanged, PlanningUnchanged, AdoptingUnchanged DEF Quiet

LEMMA MapUnchanged ==
  ASSUME UNCHANGED operations
  PROVE  MapQuiet
BY DEF MapQuiet

LEMMA QuietService ==
  ASSUME TypeOK, UNCHANGED service, ProcQuiet
  PROVE  Quiet
BY TrackersUnchanged, MapUnchanged, PlanningUnchanged, AdoptingUnchanged
DEF Quiet, service

LEMMA QuietCli ==
  ASSUME TypeOK, NEW r \in Runs, CliNext(r)
  PROVE  Quiet
<1>1. UNCHANGED service
  BY DEF CliNext, TerminalStartsRun, CliRegisters, CliRefused, CliWritesFlow,
         CliUnregisters, CliExits
<1>2. ProcQuiet
  <2>1. CASE TerminalStartsRun(r)
    BY <2>1 DEF TypeOK, TerminalStartsRun, ProcQuiet, Gone
  <2>2. CASE CliRegisters(r) \/ CliRefused(r)
    BY <2>2 DEF TypeOK, CliRegisters, CliRefused, ProcQuiet, Gone
  <2>3. CASE \E s \in WrittenFlows : CliWritesFlow(r, s)
    BY <2>3 DEF TypeOK, CliWritesFlow, ProcQuiet, Gone
  <2>4. CASE CliUnregisters(r) \/ CliExits(r)
    BY <2>4 DEF TypeOK, CliUnregisters, CliExits, ProcQuiet, Gone
  <2>5. QED
    BY <2>1, <2>2, <2>3, <2>4 DEF CliNext
<1>3. QED
  BY <1>1, <1>2, QuietService

LEMMA QuietRun ==
  ASSUME TypeOK, NEW r \in Runs, RunNext(r),
         \A t \in Trackers : ~Creates(r, t)
  PROVE  Quiet
<1>0. AdoptingQuiet
  BY AdoptingStep DEF Next
<1>1. CASE StartRerun(r)
  <2>1. PlanningQuiet
    BY <1>1 DEF StartRerun, PlanningQuiet, env
  <2>2. UNCHANGED <<proc, trk, operations, adopting>>
    BY <1>1 DEF StartRerun, env
  <2>3. QED
    BY <2>1, <2>2, TrackersUnchanged, MapUnchanged, ProcUnchanged,
       AdoptingUnchanged
    DEF Quiet
<1>2. CASE AdoptBegin(r) \/ InspectAlive(r) \/ AdoptDead(r) \/ AdoptFails(r)
  <2>1. UNCHANGED <<proc, trk, operations, planning>>
    BY <1>2 DEF AdoptBegin, InspectAlive, AdoptDead, AdoptFails, ProcessReconcile, env
  <2>2. QED
    BY <1>0, <2>1, TrackersUnchanged, MapUnchanged, ProcUnchanged,
       PlanningUnchanged
    DEF Quiet
<1>4. CASE cancelOperation(r)
  <2>1. operations[r] \in Trackers /\ trk[operations[r]] \in Tracker
    BY <1>4 DEF TypeOK, cancelOperation, Active
  <2>2. Tame(trk[operations[r]], [trk[operations[r]] EXCEPT !.cancel = TRUE])
    BY <2>1, TameFields
  <2>3. TrackersQuiet
    BY <1>4, <2>1, <2>2, TrackerUpdated DEF cancelOperation
  <2>4. QED
    BY <1>4, <2>3, MapUnchanged, QuietUpdate DEF cancelOperation, env
<1>5. QED
  BY <1>1, <1>2, <1>4 DEF RunNext, Creates

LEMMA QuietRefresh ==
  ASSUME TypeOK, NEW t \in Trackers, RefreshNext(t)
  PROVE  Quiet
<1>1. UNCHANGED <<proc, operations, planning, adopting>>
  BY DEF RefreshNext, ReadManifest, ReadFlow, ReadFails, FinishRefresh,
         AnnounceOutcome, env
<1>2. trk[t] \in Tracker
  BY DEF TypeOK
<1>3. TrackersQuiet
  <2>1. CASE UNCHANGED trk
    BY <2>1, TrackersUnchanged
  <2>2. ASSUME NEW q \in reads[t], FinishRefresh(t, q), ~UNCHANGED trk
        PROVE  TrackersQuiet
    <3>1. /\ q \in Read /\ q.man # "unread" /\ q.flow # NoFlow
          /\ trk[t].state = "running" /\ Becomes(t, Projected(trk[t], q))
      BY <2>2 DEF TypeOK, FinishRefresh
    <3>2. Tame(trk[t], Projected(trk[t], q))
      BY <1>2, <3>1, TameProjected
    <3>3. QED
      BY <3>1, <3>2, TrackerUpdated
  <2>3. CASE AnnounceOutcome(t)
    <3>1. Tame(trk[t], [trk[t] EXCEPT !.announced = TRUE, !.live = FALSE])
      BY <1>2, TameFields
    <3>2. QED
      BY <2>3, <3>1, TrackerUpdated DEF AnnounceOutcome
  <2>4. QED
    BY <2>1, <2>2, <2>3 DEF RefreshNext, ReadManifest, ReadFlow, ReadFails
<1>4. QED
  BY <1>1, <1>3, MapUnchanged, QuietUpdate

LEMMA QuietStart ==
  ASSUME TypeOK, ProjectionInv, ExitSeenIsGone, NEW t \in Trackers, StartNext(t)
  PROVE  Quiet
<1>1. trk[t] \in Tracker
  BY DEF TypeOK
<1>2. CASE ChildSpawned(t)
  <2>1. ProcQuiet
    BY <1>2 DEF TypeOK, ChildSpawned, ProcQuiet, Gone, Tracked
  <2>2. QED
    BY <1>2, <2>1, TrackersUnchanged, MapUnchanged, PlanningUnchanged,
       AdoptingUnchanged
    DEF ChildSpawned, Quiet, service
<1>3. ASSUME ~ChildSpawned(t)
      PROVE  UNCHANGED <<proc, planning, adopting>>
  BY <1>3 DEF StartNext, SpawnFails, SpawnReturns, ChildExits, HandshakeMatches,
              HandshakeGivesUp, HandshakeAborts, WatcherReady, env
<1>4. CASE HandshakeAborts(t)
  <2>1. Tame(trk[t], [trk[t] EXCEPT !.start = "failed"])
    BY <1>1, <1>4, TameUpdates DEF HandshakeAborts
  <2>2. TrackersQuiet
    BY <1>4, <2>1, TrackerUpdated DEF HandshakeAborts
  <2>3. MapQuiet
    BY <1>4 DEF TypeOK, HandshakeAborts, MapQuiet, ExitSeenIsGone
  <2>4. UNCHANGED <<proc, planning, adopting>>
    BY <1>4 DEF HandshakeAborts, env
  <2>5. QED
    BY <2>2, <2>3, <2>4, QuietUpdate
<1>5. ASSUME ~ChildSpawned(t), ~HandshakeAborts(t)
      PROVE  TrackersQuiet /\ UNCHANGED operations
  <2>1. UNCHANGED operations
    BY <1>5 DEF StartNext, SpawnFails, SpawnReturns, ChildExits,
                HandshakeMatches, HandshakeGivesUp, WatcherReady
  <2>2. CASE SpawnFails(t)
    <3>1. Tame(trk[t], [trk[t] EXCEPT !.start = "failed"])
      BY <1>1, <2>2, TameUpdates DEF SpawnFails
    <3>2. QED
      BY <2>1, <2>2, <3>1, TrackerUpdated DEF SpawnFails
  <2>3. CASE SpawnReturns(t)
    <3>1. PICK event \in {"watched", "lost"} :
            Becomes(t, [trk[t] EXCEPT !.start = "handshake", !.child = event])
      BY <2>3 DEF SpawnReturns
    <3>2. Tame(trk[t], [trk[t] EXCEPT !.start = "handshake", !.child = event])
      BY <1>1, <2>3, TameUpdates DEF SpawnReturns
    <3>3. QED
      BY <2>1, <3>1, <3>2, TrackerUpdated
  <2>4. CASE ChildExits(t)
    <3>1. Tame(trk[t], [trk[t] EXCEPT !.child = "seen", !.pending = FALSE])
      BY <1>1, <2>4, TameFields DEF ChildExits
    <3>2. QED
      BY <2>1, <2>4, <3>1, TrackerUpdated DEF ChildExits
  <2>5. CASE HandshakeMatches(t)
    <3>1. Tame(trk[t], [trk[t] EXCEPT !.start = "ready", !.pending = FALSE,
                                      !.live = TRUE])
      BY <1>1, <2>5, TameUpdates DEF HandshakeMatches
    <3>2. QED
      BY <2>1, <2>5, <3>1, TrackerUpdated DEF HandshakeMatches
  <2>6. CASE HandshakeGivesUp(t)
    <3>1. Tame(trk[t], [trk[t] EXCEPT !.start = "ready", !.live = TRUE])
      BY <1>1, <2>6, TameUpdates DEF HandshakeGivesUp
    <3>2. QED
      BY <2>1, <2>6, <3>1, TrackerUpdated DEF HandshakeGivesUp
  <2>7. CASE WatcherReady(t)
    <3>1. Tame(trk[t], [trk[t] EXCEPT !.start = "done"])
      BY <1>1, <2>7, TameUpdates DEF WatcherReady
    <3>2. QED
      BY <2>1, <2>7, <3>1, TrackerUpdated DEF WatcherReady
  <2>8. QED
    BY <1>5, <2>1, <2>2, <2>3, <2>4, <2>5, <2>6, <2>7 DEF StartNext
<1>6. QED
  BY <1>2, <1>3, <1>4, <1>5, MapUnchanged, QuietUpdate

LEMMA StepIsQuiet ==
  ASSUME TypeOK, ProjectionInv, ExitSeenIsGone, [Next]_vars,
         \A r \in Runs, t \in Trackers : ~Creates(r, t)
  PROVE  Quiet
<1>1. CASE \E r \in Runs : CliNext(r) \/ RunNext(r)
  BY <1>1, QuietCli, QuietRun
<1>2. CASE \E t \in Trackers : RefreshNext(t) \/ StartNext(t)
  BY <1>2, QuietRefresh, QuietStart
<1>3. CASE UNCHANGED vars \/ \E t \in Trackers : Trigger(t)
  BY <1>3, TrackersUnchanged, MapUnchanged, QuietUpdate DEF vars, Trigger, env
<1>4. ASSUME NEW t \in Trackers, inspectTrackedProcess(t)
      PROVE  Quiet
  <2>1. /\ Becomes(t, [trk[t] EXCEPT !.pending = FALSE])
        /\ UNCHANGED <<proc, operations, planning, adopting>>
    BY <1>4 DEF inspectTrackedProcess, ProcessReconcile, env
  <2>2. Tame(trk[t], [trk[t] EXCEPT !.pending = FALSE])
    BY TameFields DEF TypeOK
  <2>3. TrackersQuiet
    BY <2>1, <2>2, TrackerUpdated
  <2>4. QED
    BY <2>1, <2>3, MapUnchanged, QuietUpdate
<1>5. QED
  BY <1>1, <1>2, <1>3, <1>4 DEF Next

-----------------------------------------------------------------------------
(* The invariant. *)

LEMMA StartInit == Init => StartInv
<1> SUFFICES ASSUME Init
             PROVE  StartInv
  OBVIOUS
<1>1. /\ \A r \in Runs : operations[r] = NoTracker /\ ~Adopting(r)
      /\ \A t \in Trackers : trk[t].run = NoRun
      /\ planning = {} /\ NoRun \notin Runs
  BY ConstantsAssumption DEF Init, Absent, Adopting, NoAdoption
<1>2. QED
  BY <1>1 DEF StartInv, MapNamesTrackers, PlannedIsNew, ForgottenIsGone,
              ExitSeenIsGone, AdoptedWasUntracked

LEMMA StartQuiet ==
  ASSUME TypeOK, AdoptionInv, StartInv, Quiet
  PROVE  StartInv'
<1>1. \A u \in Trackers : Tame(trk[u], trk'[u])
  BY DEF Quiet, TrackersQuiet
<1>2. \A r \in Runs : (Gone(r) => Gone(r)') /\ (proc[r] # "none" => proc'[r] # "none")
  BY DEF Quiet, ProcQuiet
<1>3. MapNamesTrackers'
  BY <1>1 DEF TypeOK, StartInv, MapNamesTrackers, Quiet, MapQuiet, Tame
<1>4. PlannedIsNew'
  <2>1. ASSUME NEW r \in planning'
        PROVE  proc'[r] = "none" /\ ~Tracked(r)
    <3>1. CASE r \in planning
      BY <3>1 DEF TypeOK, StartInv, PlannedIsNew, Quiet, ProcQuiet
    <3>2. CASE Unused(r) /\ UNCHANGED proc
      BY <3>2 DEF Unused, Tracked
    <3>3. QED
      BY <3>1, <3>2 DEF Quiet, PlanningQuiet
  <2>2. QED
    BY <1>1, <2>1 DEF PlannedIsNew, Tracked, Tame
<1>5. ForgottenIsGone'
  BY <1>1, <1>2 DEF StartInv, ForgottenIsGone, Quiet, MapQuiet, Tame
<1>6. ExitSeenIsGone'
  BY <1>1, <1>2 DEF StartInv, ExitSeenIsGone, Tame
<1>7. AdoptedWasUntracked'
  <2>1. ASSUME NEW r \in Runs, Adopting(r)'
        PROVE  \A t \in Trackers :
                 trk[t].run = r => trk[t].start = "adopted" \/ Gone(r)
    <3>1. CASE Adopting(r)
      BY <3>1 DEF StartInv, AdoptedWasUntracked
    <3>2. CASE operations[r] = NoTracker
      BY <3>2 DEF StartInv, ForgottenIsGone
    <3>3. QED
      BY <2>1, <3>1, <3>2 DEF Quiet, AdoptingQuiet
  <2>2. QED
    BY <1>1, <1>2, <2>1 DEF AdoptedWasUntracked, Tame
<1>8. QED
  BY <1>3, <1>4, <1>5, <1>6, <1>7 DEF StartInv

(* Creating a tracker t for run r: t is new, and r is either a run that has   *)
(* not been launched or one whose adoption is under way.                     *)
LEMMA CreateEffect ==
  ASSUME TypeOK, ProjectionInv, AdoptionInv, StartInv, NEW r \in Runs, NEW t \in Trackers,
         Creates(r, t)
  PROVE  /\ trk[t].state = "absent" /\ trk[t].run = NoRun
         /\ trk'[t].run = r /\ trk'[t].state = "running" /\ trk'[t].child = "none"
         /\ \A u \in Trackers : u # t => trk'[u] = trk[u]
         /\ operations'[r] = t
         /\ \A s \in Runs : s # r => operations'[s] = operations[s]
         /\ UNCHANGED env
         /\ r \notin planning' /\ planning' \subseteq planning
         /\ \A s \in Runs : Adopting(s)' => Adopting(s)
         /\ \/ proc[r] = "none" /\ ~Tracked(r)
            \/ trk'[t].start = "adopted" /\ Adopting(r)
<1>1. trk[t].state = "absent"
  BY DEF Creates, StartPlain, RerunPlanned, AdoptAlive, Track
<1>2. trk[t].run = NoRun
  BY <1>1 DEF ProjectionInv, AbsentIsQuiet, Absent
<1>3. PICK step, p, b : /\ Becomes(t, NewTracker(r, step, p, b))
                        /\ AdoptAlive(r, t) => step = "adopted"
  BY DEF Creates, StartPlain, RerunPlanned, AdoptAlive, Track
<1>4. /\ trk'[t].run = r /\ trk'[t].state = "running" /\ trk'[t].child = "none"
      /\ AdoptAlive(r, t) => trk'[t].start = "adopted"
      /\ \A u \in Trackers : u # t => trk'[u] = trk[u]
  BY <1>3, BecomesEffect DEF NewTracker
<1>5. operations' = [operations EXCEPT ![r] = t] /\ UNCHANGED env
  BY DEF Creates, StartPlain, RerunPlanned, AdoptAlive, Track
<1>6. operations'[r] = t /\ \A s \in Runs : s # r => operations'[s] = operations[s]
  BY <1>5 DEF TypeOK
<1>7. CASE StartPlain(r, t)
  BY <1>1, <1>2, <1>4, <1>5, <1>6, <1>7 DEF StartPlain, Unused, Tracked, Adopting
<1>8. CASE RerunPlanned(r, t)
  BY <1>1, <1>2, <1>4, <1>5, <1>6, <1>8 DEF RerunPlanned, StartInv, PlannedIsNew, Adopting
<1>9. CASE AdoptAlive(r, t)
  <2>1. Adopting(r) /\ planning' = planning
    BY <1>9 DEF AdoptAlive, Adopting
  <2>2. r \notin planning
    BY <2>1 DEF AdoptionInv, WasNamed, StartInv, PlannedIsNew
  <2>3. \A s \in Runs : s # r => adopting'[s] = adopting[s]
    BY <1>9 DEF TypeOK, AdoptAlive
  <2>5. \A s \in Runs : Adopting(s)' => Adopting(s)
    BY <2>1, <2>3 DEF Adopting
  <2>4. QED
    BY <1>1, <1>2, <1>4, <1>5, <1>6, <1>9, <2>1, <2>2, <2>5
<1>10. QED
  BY <1>7, <1>8, <1>9 DEF Creates

LEMMA StartCreate ==
  ASSUME TypeOK, ProjectionInv, AdoptionInv, StartInv, NEW r \in Runs, NEW t \in Trackers,
         Creates(r, t)
  PROVE  StartInv'
<1>1. /\ trk[t].state = "absent" /\ trk[t].run = NoRun
      /\ trk'[t].run = r /\ trk'[t].state = "running" /\ trk'[t].child = "none"
      /\ \A u \in Trackers : u # t => trk'[u] = trk[u]
  BY CreateEffect
<1>2. operations'[r] = t /\ \A s \in Runs : s # r => operations'[s] = operations[s]
  BY CreateEffect
<1>3. proc' = proc /\ \A s \in Runs : Gone(s)' <=> Gone(s)
  BY CreateEffect DEF env, Gone
<1>4. MapNamesTrackers'
  BY <1>1, <1>2 DEF TypeOK, StartInv, MapNamesTrackers
<1>5. PlannedIsNew'
  <2>1. r \notin planning' /\ planning' \subseteq planning
    BY CreateEffect
  <2>2. QED
    BY <1>1, <1>3, <2>1 DEF StartInv, PlannedIsNew, Tracked
<1>6. ForgottenIsGone'
  BY <1>1, <1>2, <1>3, ConstantsAssumption DEF StartInv, ForgottenIsGone
<1>7. ExitSeenIsGone'
  BY <1>1, <1>3 DEF StartInv, ExitSeenIsGone
<1>8. AdoptedWasUntracked'
  <2>1. ASSUME NEW s \in Runs, Adopting(s)'
        PROVE  \A u \in Trackers :
                 trk[u].run = s => trk[u].start = "adopted" \/ Gone(s)
    BY <2>1, CreateEffect DEF StartInv, AdoptedWasUntracked
  <2>2. ~Adopting(r) \/ trk'[t].start = "adopted"
    BY CreateEffect DEF AdoptionInv, WasNamed
  <2>3. ~Adopting(r) => ~Adopting(r)'
    BY CreateEffect
  <2>4. QED
    BY <1>1, <1>3, <2>1, <2>2, <2>3 DEF AdoptedWasUntracked
<1>9. QED
  BY <1>4, <1>5, <1>6, <1>7, <1>8 DEF StartInv

LEMMA StartStep ==
  TypeOK /\ ProjectionInv /\ AdoptionInv /\ StartInv /\ [Next]_vars => StartInv'
<1> SUFFICES ASSUME TypeOK, ProjectionInv, AdoptionInv, StartInv, [Next]_vars
             PROVE  StartInv'
  OBVIOUS
<1>1. CASE \E r \in Runs, t \in Trackers : Creates(r, t)
  BY <1>1, StartCreate
<1>2. CASE \A r \in Runs, t \in Trackers : ~Creates(r, t)
  BY <1>2, StepIsQuiet, StartQuiet DEF StartInv
<1>3. QED
  BY <1>1, <1>2

LEMMA InvInit == Init => ProjectionInv /\ AdoptionInv /\ StartInv
<1>1. Init => ProjectionInv /\ StartInv
  BY ProjectionInit, StartInit
<1>2. Init => AdoptionInv
  BY ConstantsAssumption
  DEF Init, AdoptionInv, Registration, AdoptionKnown, Absent, Adopting, NoAdoption
<1>3. QED
  BY <1>1, <1>2

LEMMA InvStep == TypeOK /\ ProjectionInv /\ AdoptionInv /\ StartInv /\ [Next]_vars
                   => (ProjectionInv /\ AdoptionInv /\ StartInv)'
BY ProjectionStep, AdoptionStep, StartStep DEF ProjectionKept

-----------------------------------------------------------------------------
(* A run whose start was reported failed, or whose outcome is known, is not   *)
(* tracked again while it holds its registration, although adoptions of it    *)
(* may resume at any time with an answer that is no longer true: whoever is   *)
(* tracked again is over (restoreRegisteredOperation in runtimeService.ts).   *)
THEOREM RunsStayDead == Spec => NoResurrection
<1> DEFINE Resurrects(t, u) == /\ trk[t].state = "absent" /\ trk'[t].state = "running"
                               /\ trk[u].run = trk'[t].run
           Allowed(t, u) == \/ trk[u].state = "running" /\ trk[u].start # "failed"
                            \/ /\ trk'[t].start = "adopted"
                               /\ proc[trk[u].run] \in {"closed", "exited"}
<1>1. ASSUME TypeOK, ProjectionInv, AdoptionInv, StartInv, [Next]_vars,
             NEW t \in Trackers, NEW u \in Trackers, Resurrects(t, u)
      PROVE  Allowed(t, u)
  <2>1. PICK r \in Runs, v \in Trackers : Creates(r, v)
    <3>1. ~Tame(trk[t], trk'[t])
      BY <1>1 DEF Tame
    <3>2. QED
      BY <1>1, <3>1, StepIsQuiet DEF StartInv, Quiet, TrackersQuiet
  <2>2. /\ trk'[v].run = r /\ \A w \in Trackers : w # v => trk'[w] = trk[w]
        /\ \/ proc[r] = "none" /\ ~Tracked(r)
           \/ trk'[v].start = "adopted" /\ Adopting(r)
    BY <1>1, <2>1, CreateEffect
  <2>3. t = v
    BY <1>1, <2>2
  <2>4. trk[u].run = r /\ trk'[t].start = "adopted" /\ Adopting(r)
    BY <1>1, <2>2, <2>3 DEF Tracked
  <2>5. trk[u] \in Tracker /\ trk[u].state # "absent"
    BY <1>1, <2>4, ConstantsAssumption DEF TypeOK, ProjectionInv, AbsentIsQuiet, Absent
  <2>6. CASE Gone(r)
    <3>1. WasNamed(r)
      BY <1>1, <2>4 DEF AdoptionInv
    <3>2. proc[r] = "exited"
      BY <2>6, <3>1 DEF Gone, WasNamed
    <3>3. QED
      BY <2>4, <3>2
  <2>7. CASE ~Gone(r)
    <3>1. trk[u].start = "adopted"
      BY <1>1, <2>4, <2>7 DEF StartInv, AdoptedWasUntracked
    <3>2. trk[u].state \in TerminalStates => proc[r] \in {"closed", "exited"}
      BY <1>1, <2>4, <3>1 DEF AdoptionInv, AdoptionKnown
    <3>3. trk[u].state \in TerminalStates \/ trk[u].state = "running"
      BY <2>5 DEF Tracker
    <3>4. QED
      BY <2>4, <3>1, <3>2, <3>3
  <2>8. QED
    BY <2>6, <2>7
<1>2. TypeOK /\ ProjectionInv /\ AdoptionInv /\ StartInv /\ [Next]_vars
        => [\A t, u \in Trackers : Resurrects(t, u) => Allowed(t, u)]_vars
  BY <1>1
<1>3. QED
  BY <1>2, InvInit, InvStep, TypeCorrect, PTL DEF Spec, NoResurrection

-----------------------------------------------------------------------------
(* Exclusion of plain starts. *)

LEMMA ActiveAfterQuiet ==
  ASSUME TypeOK, StartInv, Quiet, NEW r \in Runs, Active(r)'
  PROVE  /\ Active(r) /\ operations'[r] = operations[r]
         /\ trk'[operations[r]].rerun = trk[operations[r]].rerun
         /\ trk'[operations[r]].start = "adopted" <=> trk[operations[r]].start = "adopted"
<1>1. operations'[r] = operations[r] /\ operations[r] \in Trackers
  BY DEF TypeOK, Quiet, MapQuiet, Active
<1>2. Tame(trk[operations[r]], trk'[operations[r]])
  BY <1>1 DEF Quiet, TrackersQuiet
<1>3. QED
  BY <1>1, <1>2, ConstantsAssumption DEF Active, Tame

LEMMA ExclusiveStep ==
  TypeOK /\ ProjectionInv /\ AdoptionInv /\ StartInv /\ PlainStartsExclude /\ [Next]_vars
    => PlainStartsExclude'
<1> DEFINE Plain(r) == /\ Active(r) /\ trk[operations[r]].start # "adopted"
                       /\ ~trk[operations[r]].rerun
<1> SUFFICES ASSUME TypeOK, ProjectionInv, AdoptionInv, StartInv, PlainStartsExclude,
                    [Next]_vars,
                    NEW r \in Runs, NEW s \in Runs, Plain(r)', Plain(s)'
             PROVE  r = s
  BY DEF PlainStartsExclude
<1>1. Plain(r) /\ Plain(s) => r = s
  BY DEF PlainStartsExclude
<1>2. CASE \A x \in Runs, t \in Trackers : ~Creates(x, t)
  <2>1. Quiet
    BY <1>2, StepIsQuiet DEF StartInv
  <2>2. Plain(r) /\ Plain(s)
    BY <2>1, ActiveAfterQuiet
  <2>3. QED
    BY <1>1, <2>2
<1>3. ASSUME NEW x \in Runs, NEW t \in Trackers, Creates(x, t)
      PROVE  r = s
  <2>1. /\ trk[t].state = "absent" /\ operations'[x] = t
        /\ \A u \in Trackers : u # t => trk'[u] = trk[u]
        /\ \A y \in Runs : y # x => operations'[y] = operations[y]
    BY <1>3, CreateEffect
  <2>2. ASSUME NEW y \in Runs, y # x, Plain(y)'
        PROVE  Plain(y)
    <3>1. operations'[y] = operations[y] /\ operations[y] \in Trackers
      BY <2>1, <2>2 DEF TypeOK, Active
    <3>2. operations[y] # t
      BY <2>1, <3>1, ConstantsAssumption DEF StartInv, MapNamesTrackers
    <3>3. QED
      BY <2>1, <2>2, <3>1, <3>2 DEF Active
  <2>3. CASE StartPlain(x, t)
    <3>1. \A y \in Runs : ~Active(y)
      BY <2>3 DEF StartPlain, isWorkspaceRuntimeActive
    <3>2. QED
      BY <2>2, <3>1
  <2>4. CASE RerunPlanned(x, t) \/ AdoptAlive(x, t)
    <3>1. trk'[t].start = "adopted" \/ trk'[t].rerun = TRUE
      <4>1. PICK step, p, b : /\ Becomes(t, NewTracker(x, step, p, b))
                              /\ step = "adopted" \/ b = TRUE
        BY <2>4 DEF RerunPlanned, AdoptAlive, Track
      <4>2. QED
        BY <4>1, BecomesEffect DEF NewTracker
    <3>2. ~Plain(x)'
      BY <2>1, <3>1
    <3>3. QED
      BY <1>1, <2>2, <3>2
  <2>5. QED
    BY <1>3, <2>3, <2>4 DEF Creates
<1>4. QED
  BY <1>2, <1>3

(* A plain start is exclusive: startOperation awaits nothing between its     *)
(* WORKSPACE_BUSY check and the entry in `operations`, and no later step      *)
(* makes an operation active again.                                          *)
THEOREM PlainStartsAreExclusive == Spec => []PlainStartsExclude
<1>1. Init => PlainStartsExclude
  BY DEF Init, PlainStartsExclude, Active
<1>2. QED
  BY <1>1, ExclusiveStep, InvInit, InvStep, TypeCorrect, PTL DEF Spec

-----------------------------------------------------------------------------
(* Whoever is called running is still followed *)

(* Every operation that is called running is with its start call, or is one   *)
(* whose start was reported failed and whose process never was or is gone, or *)
(* it is observed and the poller may settle it: it waits for the registration *)
(* only as long as an 'exit' event will end the wait.  The one exception is   *)
(* the event that came before the listener.                                   *)
OperationsAreObserved ==
  \A t \in Trackers : trk[t].state = "running" =>
    \/ trk[t].start \in {"spawning", "handshake"}
    \/ trk[t].start = "failed" /\ (proc[trk[t].run] = "none" \/ Gone(trk[t].run))
    \/ /\ trk[t].live
       /\ trk[t].pending => \/ trk[t].child = "watched"
                            \/ trk[t].child = "lost" /\ Gone(trk[t].run)

(* What holds of one tracker by itself. *)
Followed(x) ==
  /\ x.state = "running" => x.start # "none"
  /\ x.state = "running" /\ x.start \in {"ready", "done", "adopted"} => x.live
  /\ x.start \in {"handshake", "ready", "done"} => x.child # "none"
  /\ x.start = "adopted" \/ x.child = "seen" => ~x.pending

(* What holds of it and its process: a failed start has left none that runs, *)
(* and before a process there is one tracker at most.                        *)
LeftBehind(t) ==
  /\ trk[t].child = "lost" => Gone(trk[t].run)
  /\ trk[t].start = "failed" => proc[trk[t].run] = "none" \/ Gone(trk[t].run)
  /\ trk[t].state # "absent" => trk[t].run \in Runs

OnlyTracker(r) ==
  proc[r] = "none" => \A t, u \in Trackers :
                        trk[t].run = r /\ trk[u].run = r => t = u

ObservedInv == /\ \A t \in Trackers : Followed(trk[t]) /\ LeftBehind(t)
               /\ \A r \in Runs : OnlyTracker(r)

(* A step that creates nothing leaves a tracker with these facts. *)
Follows(x, y) ==
  /\ Followed(y)
  /\ y.child = "lost" => x.child = "lost" \/ Gone(x.run)
  /\ y.start = "failed" => \/ x.start = "failed" \/ Gone(x.run)
                           \/ proc[x.run] = "none" /\ UNCHANGED proc

TrackersFollow == \A u \in Trackers : Follows(trk[u], trk'[u])

LEMMA FollowedAbsent == Followed(Absent)
BY DEF Followed, Absent

LEMMA FollowedNew ==
  ASSUME NEW r, NEW isRerun
  PROVE  /\ Followed(NewTracker(r, "spawning", TRUE, isRerun))
         /\ Followed(NewTracker(r, "adopted", FALSE, FALSE))
BY DEF Followed, NewTracker

LEMMA ObservedInit == Init => ObservedInv
<1> SUFFICES ASSUME Init
             PROVE  ObservedInv
  OBVIOUS
<1>1. \A t \in Trackers : trk[t] = Absent
  BY DEF Init
<1>2. \A t \in Trackers : LeftBehind(t) /\ trk[t].run = NoRun
  BY <1>1 DEF LeftBehind, Absent
<1>3. QED
  BY <1>1, <1>2, FollowedAbsent, ConstantsAssumption DEF ObservedInv, OnlyTracker

LEMMA FollowsItself ==
  ASSUME NEW x, Followed(x)
  PROVE  Follows(x, x)
BY DEF Follows

LEMMA FollowsUpdates ==
  ASSUME NEW x \in Tracker, Followed(x)
  PROVE  /\ Follows(x, [x EXCEPT !.cancel = TRUE])
         /\ Follows(x, [x EXCEPT !.pending = FALSE])
         /\ x.state # "running" => Follows(x, [x EXCEPT !.announced = TRUE, !.live = FALSE])
         /\ x.child = "watched" => Follows(x, [x EXCEPT !.child = "seen", !.pending = FALSE])
         /\ Gone(x.run) \/ (proc[x.run] = "none" /\ UNCHANGED proc)
              => Follows(x, [x EXCEPT !.start = "failed"])
         /\ x.start = "handshake"
              => /\ Follows(x, [x EXCEPT !.start = "ready", !.live = TRUE])
                 /\ Follows(x, [x EXCEPT !.start = "ready", !.pending = FALSE, !.live = TRUE])
         /\ x.start = "ready" => Follows(x, [x EXCEPT !.start = "done"])
BY DEF Tracker, Followed, Follows

LEMMA FollowsSpawn ==
  ASSUME NEW x \in Tracker, Followed(x), x.start = "spawning",
         NEW event \in {"watched", "lost"}, event = "lost" => Gone(x.run)
  PROVE  Follows(x, [x EXCEPT !.start = "handshake", !.child = event])
<1>1. PICK y : y = [x EXCEPT !.start = "handshake", !.child = event]
  OBVIOUS
<1>2. /\ y.start = "handshake" /\ y.child = event /\ y.child # "none"
      /\ y.child # "seen"
  BY <1>1 DEF Tracker
<1>3. QED
  BY <1>1, <1>2 DEF Followed, Follows

LEMMA FollowsProjected ==
  ASSUME NEW x \in Tracker, Followed(x), NEW q
  PROVE  Follows(x, Projected(x, q))
<1>1. CASE q.man = "mine"
  BY <1>1 DEF Tracker, Followed, Follows, Projected
<1>2. CASE q.man # "mine" /\ x.pending
  BY <1>2 DEF Tracker, Followed, Follows, Projected
<1>3. CASE q.man # "mine" /\ ~x.pending
  <2>1. PICK y : y = Projected(x, q)
    OBVIOUS
  <2>2. /\ y.start = x.start /\ y.child = x.child /\ y.pending = x.pending
        /\ y.live = x.live /\ y.state = terminalState(q.flow.state, x.cancel)
    BY <1>3, <2>1 DEF Tracker, Projected
  <2>3. y.state # "running"
    BY <2>2 DEF terminalState
  <2>4. QED
    BY <2>1, <2>2, <2>3 DEF Followed, Follows
<1>4. QED
  BY <1>1, <1>2, <1>3

LEMMA FollowedUpdate ==
  ASSUME TypeOK, ObservedInv, NEW t \in Trackers, NEW x, Becomes(t, x),
         Follows(trk[t], x)
  PROVE  TrackersFollow
<1>1. trk'[t] = x /\ \A u \in Trackers : u # t => trk'[u] = trk[u]
  BY BecomesEffect
<1>2. \A u \in Trackers : Follows(trk[u], trk[u])
  BY FollowsItself DEF ObservedInv
<1>3. QED
  BY <1>1, <1>2 DEF TrackersFollow

LEMMA FollowedSame ==
  ASSUME ObservedInv, UNCHANGED trk
  PROVE  TrackersFollow
BY FollowsItself DEF ObservedInv, TrackersFollow

LEMMA StepFollows ==
  ASSUME TypeOK, ProjectionInv, StartInv, ObservedInv, [Next]_vars,
         \A r \in Runs, t \in Trackers : ~Creates(r, t)
  PROVE  TrackersFollow
<1>0. \A t \in Trackers : trk[t] \in Tracker /\ Followed(trk[t]) /\ LeftBehind(t)
  BY DEF TypeOK, ObservedInv
<1>1. CASE UNCHANGED trk
  BY <1>1, FollowedSame
<1>2. ASSUME NEW r \in Runs, cancelOperation(r)
      PROVE  TrackersFollow
  <2>1. operations[r] \in Trackers
    BY <1>2 DEF TypeOK, cancelOperation, Active
  <2>2. QED
    BY <1>0, <1>2, <2>1, FollowsUpdates, FollowedUpdate DEF cancelOperation
<1>3. ASSUME NEW t \in Trackers, NEW q \in reads[t], FinishRefresh(t, q), ~UNCHANGED trk
      PROVE  TrackersFollow
  BY <1>0, <1>3, FollowsProjected, FollowedUpdate DEF FinishRefresh
<1>4. ASSUME NEW t \in Trackers, AnnounceOutcome(t)
      PROVE  TrackersFollow
  <2>1. trk[t].state # "running"
    BY <1>4 DEF AnnounceOutcome, TerminalStates
  <2>2. QED
    BY <1>0, <1>4, <2>1, FollowsUpdates, FollowedUpdate DEF AnnounceOutcome
<1>5. ASSUME NEW t \in Trackers, StartNext(t)
      PROVE  TrackersFollow
  <2>1. CASE SpawnFails(t)
    BY <1>0, <2>1, FollowsUpdates, FollowedUpdate DEF SpawnFails, env
  <2>2. CASE ChildSpawned(t)
    BY <2>2, FollowedSame DEF ChildSpawned, service
  <2>3. CASE SpawnReturns(t)
    <3>1. PICK event \in {"watched", "lost"} :
            /\ event = "lost" => Gone(trk[t].run)
            /\ Becomes(t, [trk[t] EXCEPT !.start = "handshake", !.child = event])
      BY <2>3 DEF SpawnReturns
    <3>2. Follows(trk[t], [trk[t] EXCEPT !.start = "handshake", !.child = event])
      BY <1>0, <2>3, <3>1, FollowsSpawn DEF SpawnReturns
    <3>3. QED
      BY <3>1, <3>2, FollowedUpdate
  <2>4. CASE ChildExits(t)
    BY <1>0, <2>4, FollowsUpdates, FollowedUpdate DEF ChildExits
  <2>5. CASE HandshakeMatches(t)
    BY <1>0, <2>5, FollowsUpdates, FollowedUpdate DEF HandshakeMatches
  <2>6. CASE HandshakeGivesUp(t)
    BY <1>0, <2>6, FollowsUpdates, FollowedUpdate DEF HandshakeGivesUp
  <2>7. CASE HandshakeAborts(t)
    <3>1. trk[t].state # "absent"
      BY <2>7 DEF HandshakeAborts, ProjectionInv, AbsentIsQuiet, Absent
    <3>2. trk[t].run \in Runs
      BY <1>0, <3>1 DEF LeftBehind
    <3>3. Gone(trk[t].run)
      BY <2>7, <3>2 DEF HandshakeAborts, StartInv, ExitSeenIsGone
    <3>4. QED
      BY <1>0, <2>7, <3>3, FollowsUpdates, FollowedUpdate DEF HandshakeAborts
  <2>8. CASE WatcherReady(t)
    BY <1>0, <2>8, FollowsUpdates, FollowedUpdate DEF WatcherReady
  <2>9. QED
    BY <1>5, <2>1, <2>2, <2>3, <2>4, <2>5, <2>6, <2>7, <2>8 DEF StartNext
<1>6. ASSUME NEW t \in Trackers, inspectTrackedProcess(t)
      PROVE  TrackersFollow
  BY <1>0, <1>6, FollowsUpdates, FollowedUpdate DEF inspectTrackedProcess
<1>7. ASSUME ~UNCHANGED trk
      PROVE  \/ \E r \in Runs : cancelOperation(r)
             \/ \E t \in Trackers : \E q \in reads[t] : FinishRefresh(t, q)
             \/ \E t \in Trackers : \/ AnnounceOutcome(t) \/ StartNext(t)
                                    \/ inspectTrackedProcess(t)
  <2>1. ~UNCHANGED vars /\ ~UNCHANGED service
    BY <1>7 DEF vars, service
  <2>2. \A r \in Runs : ~CliNext(r)
    BY <2>1 DEF CliNext, TerminalStartsRun, CliRegisters, CliRefused, CliWritesFlow,
                CliUnregisters, CliExits
  <2>3. \A r \in Runs : RunNext(r) => cancelOperation(r)
    BY <1>7 DEF RunNext, Creates, StartRerun, AdoptBegin, InspectAlive,
                AdoptDead, AdoptFails
  <2>4. \A t \in Trackers :
          /\ ~Trigger(t)
          /\ \A q \in reads[t] : /\ ~ReadManifest(t, q) /\ ~ReadFlow(t, q)
                                 /\ ~ReadFails(t, q)
    BY <1>7 DEF Trigger, ReadManifest, ReadFlow, ReadFails
  <2>5. CASE \E r \in Runs : RunNext(r)
    BY <2>3, <2>5
  <2>6. ASSUME NEW u \in Trackers, RefreshNext(u)
        PROVE  (\E q \in reads[u] : FinishRefresh(u, q)) \/ AnnounceOutcome(u)
    BY <2>4, <2>6 DEF RefreshNext
  <2>7. CASE \E u \in Trackers : RefreshNext(u)
    BY <2>6, <2>7
  <2>8. \/ \E r \in Runs : RunNext(r)
        \/ \E u \in Trackers : RefreshNext(u)
        \/ \E u \in Trackers : StartNext(u) \/ inspectTrackedProcess(u)
    BY <2>1, <2>2, <2>4 DEF Next
  <2>9. QED
    BY <2>5, <2>7, <2>8
<1>8. QED
  BY <1>1, <1>2, <1>3, <1>4, <1>5, <1>6, <1>7

(* Before a process there is its start, and nothing else.                    *)
LEMMA NobodyBefore ==
  ASSUME TypeOK, ObservedInv, [Next]_vars, NEW t \in Trackers,
         trk[t].start = "failed", trk[t].run \in Runs, proc[trk[t].run] = "none"
  PROVE  proc'[trk[t].run] = "none"
<1> DEFINE r == trk[t].run
<1>1. ASSUME NEW s \in Runs, CliNext(s)
      PROVE  proc'[r] = "none"
  BY <1>1 DEF TypeOK, CliNext, TerminalStartsRun, CliRegisters, CliRefused,
              CliWritesFlow, CliUnregisters, CliExits
<1>2. ASSUME NEW u \in Trackers, ChildSpawned(u)
      PROVE  proc'[r] = "none"
  <2>1. trk[u].run # r
    BY <1>2 DEF ChildSpawned, ObservedInv, OnlyTracker
  <2>2. QED
    BY <1>2, <2>1 DEF TypeOK, ChildSpawned
<1>3. ASSUME \A s \in Runs : ~CliNext(s), \A u \in Trackers : ~ChildSpawned(u)
      PROVE  UNCHANGED proc
  <2>1. ASSUME NEW s \in Runs, RunNext(s)
        PROVE  UNCHANGED proc
    BY <2>1 DEF RunNext, StartPlain, StartRerun, RerunPlanned, AdoptBegin, AdoptAlive,
                InspectAlive, AdoptDead, AdoptFails, cancelOperation, ProcessReconcile, env
  <2>2. ASSUME NEW u \in Trackers, RefreshNext(u) \/ Trigger(u) \/ inspectTrackedProcess(u)
        PROVE  UNCHANGED proc
    BY <2>2 DEF RefreshNext, ReadManifest, ReadFlow, ReadFails, FinishRefresh,
                AnnounceOutcome, Trigger, inspectTrackedProcess, ProcessReconcile, env
  <2>3. ASSUME NEW u \in Trackers, StartNext(u)
        PROVE  UNCHANGED proc
    BY <1>3, <2>3 DEF StartNext, SpawnFails, SpawnReturns, ChildExits, HandshakeMatches,
                      HandshakeGivesUp, HandshakeAborts, WatcherReady, env
  <2>4. QED
    BY <1>3, <2>1, <2>2, <2>3 DEF Next, vars
<1>4. QED
  BY <1>1, <1>2, <1>3

LEMMA ObservedQuiet ==
  ASSUME TypeOK, ProjectionInv', ObservedInv, [Next]_vars, Quiet, TrackersFollow
  PROVE  ObservedInv'
<1>1. \A u \in Trackers : Follows(trk[u], trk'[u]) /\ Tame(trk[u], trk'[u])
  BY DEF TrackersFollow, Quiet, TrackersQuiet
<1>2. \A u \in Trackers : Followed(trk'[u])
  BY <1>1 DEF Follows
<1>3. ASSUME NEW u \in Trackers
      PROVE  LeftBehind(u)'
  <2>1. /\ trk'[u].run = trk[u].run
        /\ trk'[u].state # "absent" => trk[u].state # "absent"
        /\ LeftBehind(u)
    BY <1>1 DEF Tame, ObservedInv
  <2>2. CASE trk'[u].state = "absent"
    <3>1. trk'[u] = Absent
      BY <2>2 DEF ProjectionInv, AbsentIsQuiet
    <3>2. QED
      BY <3>1 DEF LeftBehind, Absent
  <2>3. CASE trk'[u].state # "absent"
    <3>1. PICK r \in Runs : trk[u].run = r
      BY <2>1, <2>3 DEF LeftBehind
    <3>2. Gone(r) => Gone(r)'
      BY DEF Quiet, ProcQuiet
    <3>3. trk'[u].child = "lost" => Gone(r)'
      BY <1>1, <2>1, <3>1, <3>2 DEF Follows, LeftBehind
    <3>4. trk'[u].start = "failed" => proc'[r] = "none" \/ Gone(r)'
      BY <1>1, <2>1, <3>1, <3>2, NobodyBefore DEF Follows, LeftBehind
    <3>5. QED
      BY <2>1, <3>1, <3>3, <3>4 DEF LeftBehind, Gone
  <2>4. QED
    BY <2>2, <2>3
<1>4. ASSUME NEW r \in Runs
      PROVE  OnlyTracker(r)'
  <2>1. proc'[r] = "none" => proc[r] = "none"
    BY DEF Quiet, ProcQuiet
  <2>2. QED
    BY <1>1, <2>1 DEF ObservedInv, OnlyTracker, Tame
<1>5. QED
  BY <1>2, <1>3, <1>4 DEF ObservedInv

LEMMA ObservedCreate ==
  ASSUME TypeOK, ProjectionInv, AdoptionInv, StartInv, ObservedInv,
         NEW r \in Runs, NEW t \in Trackers, Creates(r, t)
  PROVE  ObservedInv'
<1>1. /\ trk'[t].run = r /\ trk'[t].child = "none"
      /\ \A u \in Trackers : u # t => trk'[u] = trk[u]
      /\ UNCHANGED env
      /\ \/ proc[r] = "none" /\ ~Tracked(r)
         \/ WasNamed(r)
  BY CreateEffect DEF AdoptionInv
<1>2. proc' = proc
  BY <1>1 DEF env
<1>3. Followed(trk'[t]) /\ trk'[t].start # "failed"
  <2>1. PICK b : \/ Becomes(t, NewTracker(r, "spawning", TRUE, b))
                 \/ Becomes(t, NewTracker(r, "adopted", FALSE, FALSE))
    BY DEF Creates, StartPlain, RerunPlanned, AdoptAlive, Track
  <2>2. \/ trk'[t] = NewTracker(r, "spawning", TRUE, b)
        \/ trk'[t] = NewTracker(r, "adopted", FALSE, FALSE)
    BY <2>1, BecomesEffect
  <2>3. QED
    BY <2>2, FollowedNew DEF NewTracker
<1>4. \A u \in Trackers : Followed(trk'[u])
  BY <1>1, <1>3 DEF ObservedInv
<1>5. \A u \in Trackers : LeftBehind(u)'
  BY <1>1, <1>2, <1>3 DEF ObservedInv, LeftBehind, Gone
<1>6. \A s \in Runs : OnlyTracker(s)'
  <2>1. WasNamed(r) => proc[r] # "none"
    BY DEF WasNamed
  <2>2. QED
    BY <1>1, <1>2, <2>1 DEF ObservedInv, OnlyTracker, Tracked
<1>7. QED
  BY <1>4, <1>5, <1>6 DEF ObservedInv

LEMMA ObservedStep ==
  TypeOK /\ ProjectionInv /\ AdoptionInv /\ StartInv /\ ObservedInv /\ [Next]_vars
    => ObservedInv'
<1> SUFFICES ASSUME TypeOK, ProjectionInv, AdoptionInv, StartInv, ObservedInv, [Next]_vars
             PROVE  ObservedInv'
  OBVIOUS
<1>1. CASE \E r \in Runs, t \in Trackers : Creates(r, t)
  BY <1>1, ObservedCreate
<1>2. CASE \A r \in Runs, t \in Trackers : ~Creates(r, t)
  BY <1>2, StepIsQuiet, StepFollows, ObservedQuiet, ProjectionStep
     DEF StartInv, ProjectionKept
<1>3. QED
  BY <1>1, <1>2

(* Whoever is called running is followed until it settles: nothing but an     *)
(* 'exit' event that came too early leaves an operation waiting for a         *)
(* registration that will not come, and a start that was reported failed has  *)
(* left no ECC process behind (the start, its exit listener and the poller   *)
(* of runtimeService.ts).                                                    *)
THEOREM OperationsStayObserved == Spec => []OperationsAreObserved
<1>1. TypeOK /\ ObservedInv => OperationsAreObserved
  <2> SUFFICES ASSUME TypeOK, ObservedInv, NEW t \in Trackers, trk[t].state = "running"
               PROVE  \/ trk[t].start \in {"spawning", "handshake"}
                      \/ /\ trk[t].start = "failed"
                         /\ proc[trk[t].run] = "none" \/ Gone(trk[t].run)
                      \/ /\ trk[t].live
                         /\ trk[t].pending => \/ trk[t].child = "watched"
                                              \/ trk[t].child = "lost" /\ Gone(trk[t].run)
    BY DEF OperationsAreObserved
  <2>1. /\ Followed(trk[t]) /\ LeftBehind(t)
        /\ trk[t].start \in StartSteps
        /\ trk[t].child \in {"none", "watched", "seen", "lost"}
    BY DEF TypeOK, ObservedInv, Tracker
  <2>2. QED
    BY <2>1 DEF Followed, LeftBehind, StartSteps
<1>2. QED
  BY <1>1, TypeCorrect, InvInit, InvStep, ObservedInit, ObservedStep, PTL DEF Spec
=============================================================================
