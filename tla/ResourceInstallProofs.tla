------------------------- MODULE ResourceInstallProofs -------------------------
(***************************************************************************)
(* Proofs about ResourceInstall, for any set of resources and any registry,*)
(* cyclic or not: every variable keeps its shape, work is aborted exactly  *)
(* when no install that is still alive needs it, whoever cancels is told   *)
(* what happened, and nobody waits for what will never answer him.         *)
(***************************************************************************)
EXTENDS ResourceInstall, TLAPS

(* Who subscribes to an operation waits for it.                             *)
SubsOK(d) ==
  \A s \in op[d].subs :
    /\ s.kind = "root" => s.of = d /\ root[d].state = "joined"
    /\ s.kind = "op" => op[s.of].phase = "joined" /\ op[s.of].dep = d

(* An operation finds itself among those that are being visited.            *)
VisitsItself(d) == InFlight(d) => d \in op[d].visiting

OwnedOK(d) ==
  InFlight(d) /\ op[d].phase # "committed"
    => (op[d].aborted <=> \A s \in op[d].subs : Aborted(s))

IInv == TypeOK /\ \A d \in Resources : SubsOK(d) /\ VisitsItself(d) /\ OwnedOK(d)

-----------------------------------------------------------------------------
LEMMA NoRootType == NoRoot \in RootInstall
  BY DEF NoRoot, RootInstall, Results

LEMMA NoOpType == NoOp \in SharedInstall /\ NoOp.phase = "none" /\ NoOp.subs = {}
                  /\ NoOp.dep = NoResource
  BY DEF NoOp, SharedInstall, Phases, Results, Subscriber

LEMMA InitIInv == Init => IInv
  <1> SUFFICES ASSUME Init PROVE IInv  OBVIOUS
  <1>1. TypeOK
    BY NoRootType, NoOpType DEF Init, TypeOK
  <1>2. ASSUME NEW d \in Resources PROVE SubsOK(d) /\ VisitsItself(d) /\ OwnedOK(d)
    BY NoOpType DEF Init, SubsOK, VisitsItself, OwnedOK, InFlight
  <1> QED  BY <1>1, <1>2 DEF IInv

LEMMA StutterIInv == IInv /\ UNCHANGED vars => IInv'
  BY DEF IInv, TypeOK, vars, SubsOK, VisitsItself, OwnedOK, InFlight, Aborted

(* A subscriber is the context of an operation, or the root of its own.      *)
LEMMA SubscriberCases ==
  ASSUME NEW s \in Subscriber
  PROVE  /\ s.of \in Resources
         /\ \/ s = Root(s.of) /\ s.kind = "root"
            \/ s = Context(s.of) /\ s.kind = "op"
  BY DEF Subscriber, Root, Context

LEMMA SubsFacts ==
  ASSUME IInv, NEW d \in Resources, NEW s \in op[d].subs
  PROVE  /\ s \in Subscriber /\ s.of \in Resources
         /\ \/ s = Root(d) /\ s.kind = "root" /\ s.of = d /\ root[d].state = "joined"
            \/ /\ s = Context(s.of) /\ s.kind = "op"
               /\ op[s.of].phase = "joined" /\ op[s.of].dep = d
  <1>1. s \in Subscriber
    BY DEF IInv, TypeOK, SharedInstall
  <1> QED  BY <1>1, SubscriberCases DEF IInv, SubsOK

-----------------------------------------------------------------------------
(* The least set of operations to abort *)

LEMMA WantedBySmaller ==
  ASSUME NEW d, NEW X, NEW Y, NEW R, X \subseteq Y, Wanted(d, Y, R)
  PROVE  Wanted(d, X, R)
  BY DEF Wanted

ClosedFor(X, U, R) ==
  /\ U \subseteq X
  /\ \A d \in Resources : Running(d) => d \in X \/ Wanted(d, X, R)

LEMMA CascadeIs ==
  ASSUME NEW U, NEW R
  PROVE  Cascade(U, R) =
           {d \in Resources : \A X \in SUBSET Resources : ClosedFor(X, U, R) => d \in X}
  BY DEF Cascade, ClosedFor

(* It is one of the sets it is the least of, and of an operation that was     *)
(* not asked to be cancelled it holds only what nobody alive wants.           *)
LEMMA CascadeFacts ==
  ASSUME NEW U \in SUBSET Resources, NEW R
  PROVE  /\ Cascade(U, R) \in SUBSET Resources
         /\ ClosedFor(Cascade(U, R), U, R)
         /\ \A d \in Cascade(U, R) \ U : Running(d) /\ ~Wanted(d, Cascade(U, R), R)
  <1> DEFINE C == Cascade(U, R)
  <1>1. C \in SUBSET Resources
    BY CascadeIs
  <1>2. \A X \in SUBSET Resources : ClosedFor(X, U, R) => C \subseteq X
    BY CascadeIs
  <1>3. U \subseteq C
    BY CascadeIs DEF ClosedFor
  <1>4. ASSUME NEW d \in Resources, Running(d), d \notin C PROVE Wanted(d, C, R)
    <2>1. PICK X \in SUBSET Resources : ClosedFor(X, U, R) /\ d \notin X
      BY <1>4, CascadeIs
    <2>2. Wanted(d, X, R)
      BY <1>4, <2>1 DEF ClosedFor
    <2>3. C \subseteq X
      BY <1>2, <2>1
    <2> HIDE DEF C
    <2> QED  BY <2>2, <2>3, WantedBySmaller
  <1>5. ClosedFor(C, U, R)
    BY <1>3, <1>4 DEF ClosedFor
  <1>6. ASSUME NEW d \in C \ U, ~Running(d) \/ Wanted(d, C, R) PROVE FALSE
    <2> DEFINE Y == C \ {d}
    <2>1. U \subseteq Y
      BY <1>3, <1>6
    <2>2. ASSUME NEW e \in Resources, Running(e), e \notin Y PROVE Wanted(e, Y, R)
      <3>1. Wanted(e, C, R)
        BY <1>4, <1>6, <2>2
      <3> HIDE DEF C
      <3> QED  BY <3>1, WantedBySmaller
    <2>3. ClosedFor(Y, U, R) /\ Y \in SUBSET Resources
      BY <1>1, <2>1, <2>2 DEF ClosedFor
    <2> QED  BY <1>2, <1>6, <2>3
  <1> QED  BY <1>1, <1>5, <1>6

(* Whoever depends on what is cancelled is cancelled with it.                *)
LEMMA DependentsFacts ==
  ASSUME IInv, NEW r \in Resources
  PROVE  /\ Dependents(r) \in SUBSET Resources /\ r \in Dependents(r)
         /\ \A d \in Dependents(r), p \in Resources :
              Context(p) \in op[d].subs => p \in Dependents(r)
  BY DEF Dependents

-----------------------------------------------------------------------------
(* Cancellation *)

(* An abort that takes with an operation whoever subscribes to it.           *)
LEMMA AbortKeeps ==
  ASSUME IInv, NEW U \in SUBSET Resources, NEW R \in SUBSET Resources, Abort(U, R),
         \A d \in U : \A s \in op[d].subs :
           s \in {Root(q) : q \in R} \union {Context(x) : x \in U}
  PROVE  IInv'
  <1>1. PICK X \in SUBSET Resources : X = Cascade(U, R)
    BY CascadeFacts
  <1>2. U \subseteq X /\ \A d \in Resources : Running(d) => d \in X \/ Wanted(d, X, R)
    BY <1>1, CascadeFacts DEF ClosedFor
  <1>3. ASSUME NEW d \in X PROVE ~Wanted(d, X, R)
    <2>1. CASE d \in U
      BY <1>2, <2>1 DEF Wanted
    <2>2. CASE d \notin U
      BY <1>1, <2>2, CascadeFacts
    <2> QED  BY <2>1, <2>2
  <1> DEFINE Leaves(x) == x \in X /\ op[x].phase = "joined" /\ Wanted(op[x].dep, X, R)
             leavers == {Context(x) : x \in {y \in Resources : Leaves(y)}} \union {Root(r) : r \in R}
             Left(x) == [op[x] EXCEPT !.aborted = @ \/ x \in X,
                           !.subs = IF Wanted(x, X, R) THEN @ \ leavers ELSE @]
             Gone(x) == [Left(x) EXCEPT !.phase = "answered", !.got = "failed", !.dep = NoResource]
             RootLeaves(r) == root[r].state = "joined" /\ Wanted(r, X, R)
  <1>4. op' = [x \in Resources |-> IF Leaves(x) THEN Gone(x) ELSE Left(x)]
    BY <1>1 DEF Abort
  <1>5. /\ root' = [r \in Resources |->
                    IF r \notin R THEN root[r]
                    ELSE IF RootLeaves(r) THEN [NoRoot EXCEPT !.told = "cancelled", !.left = TRUE]
                    ELSE [root[r] EXCEPT !.aborted = TRUE]]
        /\ UNCHANGED installed
    BY <1>1 DEF Abort
  <1>6. ASSUME NEW x \in Resources
        PROVE  /\ op'[x] \in SharedInstall
               /\ op'[x].aborted <=> (op[x].aborted \/ x \in X)
               /\ op'[x].subs = IF Wanted(x, X, R) THEN op[x].subs \ leavers ELSE op[x].subs
               /\ op'[x].visiting = op[x].visiting
               /\ IF Leaves(x) THEN op'[x].phase = "answered" /\ op'[x].dep = NoResource
                  ELSE op'[x].phase = op[x].phase /\ op'[x].dep = op[x].dep
    <2>1. op[x] \in SharedInstall
      BY DEF IInv, TypeOK
    <2>2. CASE Leaves(x)
      BY <1>4, <2>1, <2>2 DEF SharedInstall, Phases, Results
    <2>3. CASE ~Leaves(x)
      BY <1>4, <2>1, <2>3 DEF SharedInstall
    <2> QED  BY <2>2, <2>3
  <1>7. ASSUME NEW r \in Resources
        PROVE  /\ root'[r] \in RootInstall
               /\ r \notin R => root'[r] = root[r]
               /\ r \in R /\ ~RootLeaves(r) => root'[r].aborted /\ root'[r].state = root[r].state
    BY <1>5 DEF IInv, TypeOK, RootInstall, NoRoot, Results
  <1>8. root' \in [Resources -> RootInstall] /\ op' \in [Resources -> SharedInstall]
    BY <1>4, <1>5, <1>6, <1>7
  <1> HIDE DEF Leaves, leavers, Left, Gone, RootLeaves
  <1>9. TypeOK'
    <2>1. ASSUME NEW x \in Resources
          PROVE  op'[x].dep # NoResource <=> op'[x].phase \in {"queued", "joined"}
      BY <1>6 DEF IInv, TypeOK
    <2> QED  BY <1>5, <1>8, <2>1 DEF IInv, TypeOK
  <1>10. ASSUME NEW d \in Resources, NEW s \in op'[d].subs
         PROVE  s \in op[d].subs /\ (Wanted(d, X, R) => s \notin leavers)
    BY <1>6
  <1>11. ASSUME NEW d \in Resources PROVE SubsOK(d)'
    <2> SUFFICES ASSUME NEW s \in op'[d].subs
                 PROVE  /\ s.kind = "root" => s.of = d /\ root'[d].state = "joined"
                        /\ s.kind = "op" => op'[s.of].phase = "joined" /\ op'[s.of].dep = d
      BY DEF SubsOK
    <2>1. s \in op[d].subs /\ (Wanted(d, X, R) => s \notin leavers)
      BY <1>10
    <2>2. CASE s = Root(d) /\ s.kind = "root" /\ s.of = d /\ root[d].state = "joined"
      <3>1. Wanted(d, X, R) => d \notin R
        BY <2>1, <2>2 DEF leavers
      <3>2. root'[d].state = "joined"
        BY <1>7, <2>2, <3>1 DEF RootLeaves
      <3> QED  BY <2>2, <3>2
    <2>3. CASE s = Context(s.of) /\ s.kind = "op" /\ op[s.of].phase = "joined" /\ op[s.of].dep = d
      <3>1. s.of \in Resources
        BY <2>1, SubsFacts
      <3>2. ~Leaves(s.of)
        BY <2>1, <2>3, <3>1 DEF Leaves, leavers
      <3> QED  BY <1>6, <2>3, <3>1, <3>2
    <2> QED  BY <2>1, <2>2, <2>3, SubsFacts
  <1>12. ASSUME NEW d \in Resources PROVE VisitsItself(d)'
    BY <1>6 DEF IInv, VisitsItself, InFlight, Leaves
  <1>13. ASSUME NEW d \in Resources PROVE OwnedOK(d)'
    <2> SUFFICES ASSUME op'[d].phase # "none", op'[d].phase # "committed"
                 PROVE  op'[d].aborted <=> \A s \in op'[d].subs : Aborted(s)'
      BY DEF OwnedOK, InFlight
    <2>1. op[d].phase # "none" /\ op[d].phase # "committed"
      BY <1>6 DEF Leaves
    <2>2. CASE Wanted(d, X, R)
      <3>1. d \notin X
        BY <1>3, <2>2
      <3>2. PICK s \in op[d].subs : /\ ~Aborted(s) /\ s \notin {Root(r) : r \in R}
                                   /\ s \notin {Context(x) : x \in X}
        BY <2>2 DEF Wanted
      <3>3. ~op[d].aborted
        BY <2>1, <3>2 DEF IInv, OwnedOK, InFlight
      <3>4. s \in op'[d].subs
        BY <1>6, <2>2, <3>2 DEF leavers, Leaves
      <3>5. ~Aborted(s)'
        <4>1. CASE s = Root(d) /\ s.kind = "root" /\ s.of = d
          BY <1>7, <3>2, <4>1 DEF Aborted
        <4>2. CASE s = Context(s.of) /\ s.kind = "op"
          <5>1. s.of \notin X /\ ~op[s.of].aborted
            BY <3>2, <4>2 DEF Aborted
          <5>2. s.of \in Resources
            BY <3>2, SubsFacts
          <5> QED  BY <1>6, <4>2, <5>1, <5>2 DEF Aborted
        <4> QED  BY <4>1, <4>2, SubsFacts
      <3> QED  BY <1>6, <3>1, <3>3, <3>4, <3>5
    <2>3. CASE ~Wanted(d, X, R)
      <3>1. op'[d].aborted
        <4>1. Running(d) => d \in X
          BY <1>2, <2>3
        <4> QED  BY <1>6, <2>1, <4>1 DEF Running, InFlight
      <3>2. ASSUME NEW s \in op[d].subs PROVE Aborted(s)'
        <4>1. \/ Aborted(s) \/ s \in {Root(r) : r \in R} \/ s \in {Context(x) : x \in X}
          BY <2>3 DEF Wanted
        <4>2. CASE s = Root(d) /\ s.kind = "root" /\ s.of = d
          <5>1. Aborted(s) => root[d].aborted
            BY <4>2 DEF Aborted
          <5>2. ~Aborted(s) => d \in R
            BY <4>1, <4>2 DEF Root, Context
          <5> QED  BY <1>7, <2>3, <4>2, <5>1, <5>2 DEF Aborted, RootLeaves
        <4>3. CASE s = Context(s.of) /\ s.kind = "op"
          <5>1. Aborted(s) => op[s.of].aborted
            BY <4>3 DEF Aborted
          <5>2. ~Aborted(s) => s.of \in X
            BY <4>1, <4>3 DEF Root, Context
          <5> QED  BY <1>6, <4>3, <5>1, <5>2, SubsFacts DEF Aborted
        <4> QED  BY <4>2, <4>3, SubsFacts
      <3> QED  BY <1>6, <2>3, <3>1, <3>2
    <2> QED  BY <2>2, <2>3
  <1> QED  BY <1>9, <1>11, <1>12, <1>13 DEF IInv

LEMMA CancelOperationStep ==
  ASSUME IInv, NEW r \in Resources, CancelOperation(r)
  PROVE  IInv'
  <1>1. PICK U \in SUBSET Resources : U = Dependents(r)
    BY DependentsFacts
  <1>2. PICK R \in SUBSET Resources : R = {q \in Resources : \E d \in U : Root(q) \in op[d].subs}
    OBVIOUS
  <1>3. Abort(U, R)
    BY <1>1, <1>2 DEF CancelOperation
  <1>4. ASSUME NEW d \in U, NEW s \in op[d].subs
        PROVE  s \in {Root(q) : q \in R} \union {Context(x) : x \in U}
    <2>1. d \in Resources
      BY <1>1
    <2>2. CASE s = Root(d)
      BY <1>2, <2>1, <2>2
    <2>3. CASE s = Context(s.of)
      <3>1. s.of \in Resources
        BY <2>1, SubsFacts
      <3>2. s.of \in U
        BY <1>1, <2>3, <3>1, DependentsFacts
      <3> QED  BY <2>3, <3>2
    <2> QED  BY <2>1, <2>2, <2>3, SubsFacts
  <1> QED  BY <1>3, <1>4, AbortKeeps

LEMMA CancelRootStep ==
  ASSUME IInv, NEW r \in Resources, CancelRoot(r)
  PROVE  IInv'
  <1>1. CASE root' = [root EXCEPT ![r].late = TRUE] /\ UNCHANGED <<installed, op>>
    <2>1. \A q \in Resources : /\ root'[q] \in RootInstall /\ root'[q].state = root[q].state
                              /\ root'[q].aborted = root[q].aborted
      BY <1>1 DEF IInv, TypeOK, RootInstall
    <2>2. TypeOK'
      BY <1>1, <2>1 DEF IInv, TypeOK
    <2>3. ASSUME NEW d \in Resources PROVE SubsOK(d)' /\ VisitsItself(d)' /\ OwnedOK(d)'
      <3>1. \A s \in op[d].subs : Aborted(s)' = Aborted(s)
        BY <1>1, <2>1, SubsFacts DEF Aborted
      <3> QED  BY <1>1, <2>1, <3>1 DEF IInv, SubsOK, VisitsItself, OwnedOK, InFlight
    <2> QED  BY <2>2, <2>3 DEF IInv
  <1>2. CASE Abort({}, {r})
    BY <1>2, AbortKeeps
  <1> QED  BY <1>1, <1>2 DEF CancelRoot

-----------------------------------------------------------------------------
(* A step of one task that neither begins nor stops to wait *)

LEMMA TaskKeeps ==
  ASSUME IInv, NEW r \in Resources, NEW x \in SharedInstall, op' = [op EXCEPT ![r] = x],
         UNCHANGED root, installed' \subseteq Resources,
         op[r].phase \notin {"none", "queued", "joined", "committed"},
         x.phase \notin {"none", "queued", "joined"}, x.dep = op[r].dep,
         x.aborted = op[r].aborted, x.subs = op[r].subs, x.visiting = op[r].visiting
  PROVE  IInv'
  <1>1. \A d \in Resources : op'[d] = IF d = r THEN x ELSE op[d]
    BY DEF IInv, TypeOK
  <1>2. TypeOK'
    BY <1>1 DEF IInv, TypeOK
  <1>3. ASSUME NEW d \in Resources PROVE SubsOK(d)' /\ VisitsItself(d)' /\ OwnedOK(d)'
    <2>1. op'[d].subs = op[d].subs /\ op'[d].aborted = op[d].aborted
          /\ op'[d].visiting = op[d].visiting
      BY <1>1
    <2>2. \A s \in op[d].subs : Aborted(s)' = Aborted(s)
      BY <1>1, SubsFacts DEF Aborted
    <2>3. SubsOK(d)'
      BY <1>1, <2>1, SubsFacts DEF SubsOK
    <2>4. VisitsItself(d)' /\ OwnedOK(d)'
      BY <1>1, <2>1, <2>2 DEF IInv, VisitsItself, OwnedOK, InFlight
    <2> QED  BY <2>3, <2>4
  <1> QED  BY <1>2, <1>3 DEF IInv

(* The task of r goes on to phase, with what is left of its dependencies.    *)
LEMMA GoesKeeps ==
  ASSUME IInv, NEW r \in Resources, NEW phase \in Phases \ {"none", "queued", "joined"},
         NEW todo \in SUBSET Resources,
         op' = [op EXCEPT ![r] = [op[r] EXCEPT !.phase = phase, !.todo = todo]],
         UNCHANGED root, installed' \subseteq Resources,
         op[r].phase \notin {"none", "queued", "joined", "committed"}
  PROVE  IInv'
  <1>1. PICK y \in SharedInstall : y = op[r]
    BY DEF IInv, TypeOK
  <1>2. PICK x \in SharedInstall : x = [y EXCEPT !.phase = phase, !.todo = todo]
    BY DEF SharedInstall
  <1>3. /\ x.phase = phase /\ x.dep = y.dep /\ x.aborted = y.aborted
        /\ x.subs = y.subs /\ x.visiting = y.visiting
    BY <1>2 DEF SharedInstall
  <1> QED  BY <1>1, <1>2, <1>3, TaskKeeps

LEMMA PhaseIs ==
  ASSUME IInv, NEW r \in Resources, NEW phase
  PROVE  [op[r] EXCEPT !.phase = phase] = [op[r] EXCEPT !.phase = phase, !.todo = op[r].todo]
  BY DEF IInv, TypeOK, SharedInstall

LEMMA OpFacts ==
  ASSUME IInv, NEW r \in Resources
  PROVE  op[r] \in SharedInstall /\ op[r].todo \in SUBSET Resources /\ op[r].phase \in Phases
  BY DEF IInv, TypeOK, SharedInstall

LEMMA PlanStep ==
  ASSUME IInv, NEW r \in Resources, Plan(r)
  PROVE  IInv'
  <1>1. Requires[r] \ installed \in SUBSET Resources
    BY ResourceAssumption
  <1> QED  BY <1>1, GoesKeeps DEF Plan, Goes, Phases, IInv, TypeOK

LEMMA SkipDependencyStep ==
  ASSUME IInv, NEW r \in Resources, NEW d \in Resources, SkipDependency(r, d)
  PROVE  IInv'
  <1>1. PICK todo \in SUBSET Resources : todo = op[r].todo \ {d}
    BY OpFacts
  <1>2. op[r].phase = "deps" /\ UNCHANGED root /\ installed' \subseteq Resources
    BY DEF SkipDependency, Goes, IInv, TypeOK
  <1>3. op' = [op EXCEPT ![r] = [op[r] EXCEPT !.phase = "deps", !.todo = todo]]
    BY <1>1, <1>2 DEF SkipDependency, Goes, IInv, TypeOK, SharedInstall
  <1> QED  BY <1>2, <1>3, GoesKeeps DEF Phases

LEMMA BeginCommitStep ==
  ASSUME IInv, NEW r \in Resources, BeginCommit(r)
  PROVE  IInv'
  <1>1. PICK todo \in SUBSET Resources : todo = op[r].todo
    BY OpFacts
  <1>2. op' = [op EXCEPT ![r] = [op[r] EXCEPT !.phase = "committing", !.todo = todo]]
    BY <1>1, PhaseIs DEF BeginCommit, Goes
  <1>3. op[r].phase = "deps" /\ UNCHANGED root /\ installed' \subseteq Resources
    BY DEF BeginCommit, Goes, IInv, TypeOK
  <1> QED  BY <1>2, <1>3, GoesKeeps DEF Phases

LEMMA WriteManifestStep ==
  ASSUME IInv, NEW r \in Resources, WriteManifest(r)
  PROVE  IInv'
  <1>1. PICK todo \in SUBSET Resources : todo = op[r].todo
    BY OpFacts
  <1>2. op' = [op EXCEPT ![r] = [op[r] EXCEPT !.phase = "written", !.todo = todo]]
    BY <1>1 DEF WriteManifest, IInv, TypeOK, SharedInstall
  <1> QED  BY <1>2, GoesKeeps DEF WriteManifest, Phases, IInv, TypeOK

LEMMA CommitCheckedStep ==
  ASSUME IInv, NEW r \in Resources, CommitChecked(r)
  PROVE  IInv'
  <1>1. PICK todo \in SUBSET Resources : todo = op[r].todo
    BY OpFacts
  <1>2. PICK phase \in {"restoring", "committed"} : Goes(r, [op[r] EXCEPT !.phase = phase])
    BY DEF CommitChecked
  <1>3. op' = [op EXCEPT ![r] = [op[r] EXCEPT !.phase = phase, !.todo = todo]]
    BY <1>1, <1>2, PhaseIs DEF Goes
  <1> QED  BY <1>2, <1>3, GoesKeeps DEF CommitChecked, Goes, Phases, IInv, TypeOK

-----------------------------------------------------------------------------
(* The end of an operation *)

(* Nothing more needs to be known of the answer that an end passes on.       *)
Outcomes == Results \union {"none"}

LEMMA EndedFacts ==
  ASSUME NEW x \in RootInstall, NEW res \in Outcomes
  PROVE  Ended(x, res) \in RootInstall /\ Ended(x, res).state = "none"
  <1>1. Answer(x, res) \in {"none", "installed", "too_late", "cancelled"} \union Results
    BY DEF Answer, Results, Outcomes
  <1> QED  BY <1>1 DEF Ended, NoRoot, RootInstall

Fresh(x, subs, visiting) ==
  /\ x \in SharedInstall
  /\ x.phase = "planning"
  /\ x.dep = NoResource
  /\ x.subs = subs
  /\ x.visiting = visiting
  /\ x.aborted = FALSE

LEMMA NewOpFacts ==
  ASSUME NEW r \in Resources, NEW subs \in SUBSET Subscriber, NEW visiting \in SUBSET Resources,
         NEW now
  PROVE  Fresh(NewOp(r, subs, visiting, r \in now), subs, visiting)
  <1>1. \E had \in {TRUE, FALSE} :
          NewOp(r, subs, visiting, r \in now) = NewOp(r, subs, visiting, had)
    <2>1. CASE r \in now
      <3>1. (r \in now) = TRUE
        BY <2>1
      <3>2. NewOp(r, subs, visiting, r \in now) = NewOp(r, subs, visiting, TRUE)
        BY <3>1, Zenon
      <3> QED  BY <3>2, Zenon
    <2>2. CASE r \notin now
      <3>1. (r \in now) = FALSE
        BY <2>2
      <3>2. NewOp(r, subs, visiting, r \in now) = NewOp(r, subs, visiting, FALSE)
        BY <3>1, Zenon
      <3> QED  BY <3>2, Zenon
    <2> QED  BY <2>1, <2>2, Zenon
  <1>2. PICK had \in {TRUE, FALSE} :
          NewOp(r, subs, visiting, r \in now) = NewOp(r, subs, visiting, had)
    BY <1>1, Zenon
  <1>3. PICK x : x = NewOp(r, subs, visiting, had)
    OBVIOUS
  <1>4. Fresh(x, subs, visiting)
    BY <1>3 DEF Fresh, NewOp, NoOp, SharedInstall, Phases, Results
  <1>5. NewOp(r, subs, visiting, r \in now) = x
    BY <1>2, <1>3, Zenon
  <1> QED  BY <1>4, <1>5, Zenon

LEMMA VisitingType ==
  ASSUME IInv, NEW s \in Subscriber
  PROVE  VisitingOf(s) \in SUBSET Resources
  BY SubscriberCases DEF VisitingOf, IInv, TypeOK, SharedInstall

Queue(r) == {s \in Subscriber :
               IF s.kind = "root" THEN s = Root(r) /\ root[r].state = "queued"
               ELSE op[s.of].phase = "queued" /\ op[s.of].dep = r}
Alive(r) == {s \in Queue(r) : ~Aborted(s)}

LEMMA QueueFacts ==
  ASSUME NEW r \in Resources, NEW s \in Queue(r)
  PROVE  /\ s \in Subscriber /\ s.of \in Resources
         /\ \/ s = Root(r) /\ s.kind = "root" /\ s.of = r /\ root[r].state = "queued"
            \/ /\ s = Context(s.of) /\ s.kind = "op"
               /\ op[s.of].phase = "queued" /\ op[s.of].dep = r
  BY SubscriberCases DEF Queue, Root, Context

LEMMA ContextQueued ==
  ASSUME NEW r, NEW x \in Resources, Context(x) \in Queue(r)
  PROVE  op[x].phase = "queued" /\ op[x].dep = r
  BY DEF Queue, Context

LEMMA RootQueued ==
  ASSUME NEW r, Root(r) \in Queue(r)
  PROVE  root[r].state = "queued"
  BY DEF Queue, Root

(* What a task is answered that waited for the operation of r.               *)
AnsweredBy(r, x, how) ==
  [op[x] EXCEPT !.phase = "answered", !.got = how, !.dep = NoResource,
                !.visiting = @ \ {r}]
Promoted(r, x) == [op[x] EXCEPT !.phase = "joined", !.visiting = @ \ {r}]
Unvisited(r, x) == [op[x] EXCEPT !.visiting = @ \ {r}]

AfterAll(r, res, now, first) ==
  [x \in Resources |->
    CASE x = r /\ Alive(r) = {} -> NoOp
      [] x = r /\ Alive(r) # {} ->
           NewOp(r, Alive(r), VisitingOf(first) \union {r}, r \in now)
      [] x # r /\ op[x].dep = r /\ op[x].phase = "joined" -> AnsweredBy(r, x, res)
      [] x # r /\ Context(x) \in Alive(r) -> Promoted(r, x)
      [] x # r /\ Context(x) \in Queue(r) \ Alive(r) -> AnsweredBy(r, x, "failed")
      [] OTHER -> Unvisited(r, x)]

LEMMA SettleOp ==
  ASSUME NEW r, NEW res, NEW now, Settle(r, res, now)
  PROVE  \E first : /\ Alive(r) # {} => first \in Alive(r)
                    /\ op' = AfterAll(r, res, now, first)
  <1>1. \E first \in IF Alive(r) = {} THEN {Root(r)} ELSE Alive(r) :
          op' = AfterAll(r, res, now, first)
    BY Zenon DEF Settle, Queue, Alive, AnsweredBy, Promoted, Unvisited, AfterAll
  <1> QED  BY <1>1

LEMMA SettleOthers ==
  ASSUME NEW r \in Resources, NEW res, NEW now, Settle(r, res, now),
         NEW x \in Resources, x # r
  PROVE  op'[x] = CASE op[x].dep = r /\ op[x].phase = "joined" -> AnsweredBy(r, x, res)
                    [] Context(x) \in Alive(r) -> Promoted(r, x)
                    [] Context(x) \in Queue(r) \ Alive(r) -> AnsweredBy(r, x, "failed")
                    [] OTHER -> Unvisited(r, x)
  <1>1. PICK first : op' = AfterAll(r, res, now, first)
    BY SettleOp
  <1> QED  BY <1>1 DEF AfterAll

LEMMA SettleItself ==
  ASSUME NEW r \in Resources, NEW res, NEW now, Settle(r, res, now)
  PROVE  \/ Alive(r) = {} /\ op'[r] = NoOp
         \/ \E first \in Alive(r) :
              op'[r] = NewOp(r, Alive(r), VisitingOf(first) \union {r}, r \in now)
  <1>1. PICK first : /\ Alive(r) # {} => first \in Alive(r)
                     /\ op' = AfterAll(r, res, now, first)
    BY SettleOp
  <1>2. CASE Alive(r) = {}
    BY <1>1, <1>2 DEF AfterAll
  <1>3. CASE Alive(r) # {}
    BY <1>1, <1>3 DEF AfterAll
  <1> QED  BY <1>2, <1>3

LEMMA AfterFacts ==
  ASSUME IInv, NEW r \in Resources, NEW x \in Resources, NEW how \in Outcomes
  PROVE  /\ AnsweredBy(r, x, how) \in SharedInstall
         /\ AnsweredBy(r, x, how).aborted = op[x].aborted
         /\ AnsweredBy(r, x, how).subs = op[x].subs
         /\ AnsweredBy(r, x, how).visiting = op[x].visiting \ {r}
         /\ AnsweredBy(r, x, how).phase = "answered"
         /\ AnsweredBy(r, x, how).dep = NoResource
         /\ Promoted(r, x) \in SharedInstall
         /\ Promoted(r, x).aborted = op[x].aborted
         /\ Promoted(r, x).subs = op[x].subs
         /\ Promoted(r, x).visiting = op[x].visiting \ {r}
         /\ Promoted(r, x).phase = "joined"
         /\ Promoted(r, x).dep = op[x].dep
         /\ Unvisited(r, x) \in SharedInstall
         /\ Unvisited(r, x).aborted = op[x].aborted
         /\ Unvisited(r, x).subs = op[x].subs
         /\ Unvisited(r, x).visiting = op[x].visiting \ {r}
         /\ Unvisited(r, x).phase = op[x].phase
         /\ Unvisited(r, x).dep = op[x].dep
  <1>1. PICK y \in SharedInstall : y = op[x]
    BY DEF IInv, TypeOK
  <1> QED
    BY <1>1 DEF AnsweredBy, Promoted, Unvisited, SharedInstall, Phases, Outcomes

(* What the end of an operation makes of the others.                         *)
LEMMA OthersAfter ==
  ASSUME IInv, NEW r \in Resources, NEW res \in Outcomes, NEW now, Settle(r, res, now),
         NEW x \in Resources, x # r
  PROVE  /\ op'[x] \in SharedInstall
         /\ op'[x].aborted = op[x].aborted
         /\ op'[x].subs = op[x].subs
         /\ op'[x].visiting = op[x].visiting \ {r}
         /\ \/ /\ op'[x].phase = op[x].phase
               /\ op'[x].dep = op[x].dep
               /\ op[x].phase = "joined" => op[x].dep # r
            \/ /\ op[x].dep = r
               /\ op[x].phase \in {"queued", "joined"}
               /\ op'[x].phase = "answered"
               /\ op'[x].dep = NoResource
            \/ /\ op[x].dep = r
               /\ op[x].phase = "queued"
               /\ op'[x].phase = "joined"
               /\ op'[x].dep = op[x].dep
         /\ Context(x) \in Alive(r) => (op'[x].phase = "joined" /\ op'[x].dep = r)
  <1>1. "failed" \in Outcomes
    BY DEF Results, Outcomes
  <1>2. CASE op[x].dep = r /\ op[x].phase = "joined"
    <2>1. Context(x) \notin Alive(r) /\ Context(x) \notin Queue(r)
      BY <1>2, ContextQueued DEF Alive
    <2>2. op'[x] = AnsweredBy(r, x, res)
      BY <1>2, <2>1, SettleOthers
    <2> QED  BY <1>2, <2>1, <2>2, AfterFacts
  <1>3. CASE Context(x) \in Alive(r)
    <2>1. op[x].phase = "queued" /\ op[x].dep = r
      BY <1>3, ContextQueued DEF Alive
    <2>2. op'[x] = Promoted(r, x)
      BY <1>3, <2>1, SettleOthers
    <2> QED  BY <1>1, <2>1, <2>2, AfterFacts
  <1>4. CASE Context(x) \in Queue(r) \ Alive(r)
    <2>1. op[x].phase = "queued" /\ op[x].dep = r
      BY <1>4, ContextQueued
    <2>2. Context(x) \notin Alive(r) /\ op[x].phase # "joined"
      BY <1>4, <2>1
    <2>3. op'[x] = AnsweredBy(r, x, "failed")
      BY <1>4, <2>2, SettleOthers
    <2> QED  BY <1>1, <2>1, <2>2, <2>3, AfterFacts
  <1>5. CASE ~(op[x].dep = r /\ op[x].phase = "joined") /\ Context(x) \notin Queue(r)
    <2>1. Context(x) \notin Alive(r)
      BY <1>5 DEF Alive
    <2>2. op'[x] = Unvisited(r, x)
      BY <1>5, <2>1, SettleOthers
    <2> QED  BY <1>1, <1>5, <2>1, <2>2, AfterFacts
  <1> QED  BY <1>2, <1>3, <1>4, <1>5

(* The operation itself is gone, or begun anew for those who waited.         *)
Begun(r, x) ==
  /\ x \in SharedInstall
  /\ x.phase = "planning"
  /\ x.dep = NoResource
  /\ x.subs = Alive(r)
  /\ r \in x.visiting
  /\ x.aborted = FALSE

LEMMA ItselfAfter ==
  ASSUME IInv, NEW r \in Resources, NEW res, NEW now, Settle(r, res, now)
  PROVE  \/ Alive(r) = {} /\ op'[r] = NoOp
         \/ Alive(r) # {} /\ Begun(r, op'[r])
  <1>1. CASE Alive(r) = {}
    BY <1>1, SettleItself
  <1>2. CASE Alive(r) # {}
    <2>1. PICK first \in Alive(r) :
            op'[r] = NewOp(r, Alive(r), VisitingOf(first) \union {r}, r \in now)
      BY <1>2, SettleItself
    <2>2. Alive(r) \in SUBSET Subscriber /\ first \in Subscriber
      BY DEF Alive, Queue
    <2>3. PICK v \in SUBSET Resources : v = VisitingOf(first) \union {r}
      BY <2>2, VisitingType
    <2>5. PICK subs \in SUBSET Subscriber : subs = Alive(r)
      BY <2>2
    <2>6. op'[r] = NewOp(r, subs, v, r \in now)
      BY <2>1, <2>3, <2>5
    <2>7. PICK x : x = NewOp(r, subs, v, r \in now)
      OBVIOUS
    <2>8. Fresh(x, subs, v)
      BY <2>7, NewOpFacts, Zenon
    <2>9. Begun(r, x)
      BY <2>3, <2>5, <2>8 DEF Begun, Fresh
    <2> QED  BY <1>2, <2>6, <2>7, <2>9
  <1> QED  BY <1>1, <1>2

LEMMA RootsAfter ==
  ASSUME IInv, NEW r \in Resources, NEW res \in Outcomes, NEW now, Settle(r, res, now)
  PROVE  /\ root' \in [Resources -> RootInstall]
         /\ \A q \in Resources \ {r} : root'[q] = root[q]
         /\ Root(r) \in Alive(r) => root'[r].state = "joined" /\ root'[r].aborted = root[r].aborted
  <1>1. PICK x \in RootInstall : x = root[r]
    BY DEF IInv, TypeOK
  <1>2. root' = [root EXCEPT ![r] =
           CASE x.state = "joined" -> Ended(x, res)
             [] Root(r) \in Alive(r) -> [x EXCEPT !.state = "joined"]
             [] Root(r) \in Queue(r) \ Alive(r) -> Ended(x, "failed")
             [] OTHER -> x]
    BY <1>1 DEF Settle, Alive, Queue
  <1>3. Root(r) \in Queue(r) => x.state = "queued"
    BY <1>1, RootQueued
  <1>4. /\ [x EXCEPT !.state = "joined"] \in RootInstall
        /\ [x EXCEPT !.state = "joined"].state = "joined"
        /\ [x EXCEPT !.state = "joined"].aborted = x.aborted
    BY DEF RootInstall
  <1>5. PICK y \in RootInstall :
          root' = [root EXCEPT ![r] = y] /\ (Root(r) \in Alive(r) => y = [x EXCEPT !.state = "joined"])
    <2>1. "failed" \in Outcomes
      BY DEF Results, Outcomes
    <2>2. CASE x.state = "joined"
      BY <1>2, <1>3, <2>2, EndedFacts DEF Alive
    <2>3. CASE Root(r) \in Alive(r)
      BY <1>2, <1>3, <1>4, <2>3 DEF Alive
    <2>4. CASE Root(r) \in Queue(r) \ Alive(r)
      BY <1>2, <1>3, <2>1, <2>4, EndedFacts
    <2>5. CASE x.state # "joined" /\ Root(r) \notin Queue(r)
      BY <1>2, <2>5 DEF Alive
    <2> QED  BY <2>2, <2>3, <2>4, <2>5
  <1> QED  BY <1>1, <1>4, <1>5 DEF IInv, TypeOK

LEMMA SettleIsFunction ==
  ASSUME NEW r, NEW res, NEW now, Settle(r, res, now)
  PROVE  op' = [x \in Resources |-> op'[x]]
  <1>1. PICK first : op' = AfterAll(r, res, now, first)
    BY SettleOp
  <1> QED  BY <1>1 DEF AfterAll

LEMMA SettleInstalls ==
  ASSUME NEW r, NEW res, NEW now, Settle(r, res, now)
  PROVE  installed' = now
  BY DEF Settle

LEMMA SettleKeeps ==
  ASSUME IInv, NEW r \in Resources, NEW res \in Outcomes, NEW now \in SUBSET Resources,
         Settle(r, res, now), op[r].phase \notin {"queued", "joined"}
  PROVE  IInv'
  <1>1. installed' = now /\ root' \in [Resources -> RootInstall]
    BY RootsAfter, SettleInstalls
  <1>2. op' \in [Resources -> SharedInstall]
    <2>1. ASSUME NEW x \in Resources PROVE op'[x] \in SharedInstall
      <3>1. CASE x = r
        BY <3>1, ItselfAfter, NoOpType DEF Begun
      <3>2. CASE x # r
        BY <3>2, OthersAfter
      <3> QED  BY <3>1, <3>2
    <2>2. op' = [x \in Resources |-> op'[x]]
      BY SettleIsFunction
    <2> QED  BY <2>1, <2>2
  <1>3. TypeOK'
    <2>1. ASSUME NEW x \in Resources
          PROVE  op'[x].dep # NoResource <=> op'[x].phase \in {"queued", "joined"}
      <3>1. CASE x = r
        BY <3>1, ItselfAfter, NoOpType DEF Begun
      <3>2. CASE x # r
        <4>1. op[x].dep # NoResource <=> op[x].phase \in {"queued", "joined"}
          BY DEF IInv, TypeOK
        <4>2. r # NoResource
          BY ResourceAssumption
        <4> QED  BY <3>2, <4>1, <4>2, OthersAfter
      <3> QED  BY <3>1, <3>2
    <2> QED  BY <1>1, <1>2, <2>1 DEF TypeOK
  <1>4. ASSUME NEW d \in Resources, d # r PROVE SubsOK(d)' /\ VisitsItself(d)' /\ OwnedOK(d)'
    <2>1. /\ op'[d].aborted = op[d].aborted
          /\ op'[d].subs = op[d].subs
          /\ op'[d].visiting = op[d].visiting \ {r}
          /\ \/ op'[d].phase = op[d].phase
             \/ /\ op[d].phase \in {"queued", "joined"}
                /\ op'[d].phase \in {"answered", "joined"}
      BY <1>4, OthersAfter
    <2>2. ASSUME NEW s \in op[d].subs
          PROVE  /\ s.kind = "root" => (s.of = d /\ root'[d].state = "joined")
                 /\ s.kind = "op" => (op'[s.of].phase = "joined" /\ op'[s.of].dep = d)
                 /\ Aborted(s)' = Aborted(s)
      <3>1. CASE s = Root(d) /\ s.kind = "root" /\ s.of = d /\ root[d].state = "joined"
        <4>1. root'[d] = root[d]
          BY <1>4, RootsAfter
        <4> QED  BY <3>1, <4>1 DEF Aborted
      <3>2. CASE s.kind = "op" /\ op[s.of].phase = "joined" /\ op[s.of].dep = d
        <4>1. s.of \in Resources /\ s.of # r
          BY <3>2, SubsFacts
        <4>2. /\ op'[s.of].aborted = op[s.of].aborted
              /\ op'[s.of].phase = "joined"
              /\ op'[s.of].dep = d
          BY <1>4, <3>2, <4>1, OthersAfter
        <4> QED  BY <3>2, <4>2 DEF Aborted
      <3> QED  BY <3>1, <3>2, SubsFacts
    <2> QED  BY <1>4, <2>1, <2>2 DEF IInv, SubsOK, VisitsItself, OwnedOK, InFlight
  <1>5. SubsOK(r)' /\ VisitsItself(r)' /\ OwnedOK(r)'
    <2>1. CASE Alive(r) = {} /\ op'[r] = NoOp
      BY <2>1, NoOpType DEF SubsOK, VisitsItself, OwnedOK, InFlight
    <2>2. CASE Alive(r) # {} /\ Begun(r, op'[r])
      <3>1. ASSUME NEW s \in Alive(r)
            PROVE  /\ s.kind = "root" => (s.of = r /\ root'[r].state = "joined")
                   /\ s.kind = "op" => (op'[s.of].phase = "joined" /\ op'[s.of].dep = r)
                   /\ ~Aborted(s)'
        <4>1. s \in Queue(r) /\ ~Aborted(s)
          BY DEF Alive
        <4>2. CASE s = Root(r) /\ s.kind = "root" /\ s.of = r
          BY <4>1, <4>2, RootsAfter DEF Aborted
        <4>3. CASE /\ s = Context(s.of)
                   /\ s.kind = "op"
                   /\ op[s.of].phase = "queued"
          <5>1. s.of \in Resources /\ s.of # r
            BY <4>1, <4>3, QueueFacts
          <5>2. /\ op'[s.of].phase = "joined"
                /\ op'[s.of].dep = r
                /\ op'[s.of].aborted = op[s.of].aborted
            BY <4>3, <5>1, OthersAfter
          <5> QED  BY <4>1, <4>3, <5>2 DEF Aborted
        <4> QED  BY <4>1, <4>2, <4>3, QueueFacts
      <3>2. /\ op'[r].phase = "planning"
            /\ op'[r].subs = Alive(r)
            /\ r \in op'[r].visiting
            /\ op'[r].aborted = FALSE
        BY <2>2 DEF Begun
      <3> QED  BY <2>2, <3>1, <3>2 DEF SubsOK, VisitsItself, OwnedOK, InFlight
    <2> QED  BY <2>1, <2>2, ItselfAfter
  <1> QED  BY <1>3, <1>4, <1>5 DEF IInv

LEMMA FailsStep ==
  ASSUME IInv, NEW r \in Resources, Fails(r)
  PROVE  IInv'
  BY SettleKeeps DEF Fails, Results, Outcomes, IInv, TypeOK

LEMMA DependencyCycleStep ==
  ASSUME IInv, NEW r \in Resources, NEW d \in Resources, DependencyCycle(r, d)
  PROVE  IInv'
  BY SettleKeeps DEF DependencyCycle, Results, Outcomes, IInv, TypeOK

LEMMA RestoreManifestStep ==
  ASSUME IInv, NEW r \in Resources, RestoreManifest(r)
  PROVE  IInv'
  <1>1. PICK now \in SUBSET Resources : Settle(r, "failed", now)
    BY DEF RestoreManifest, IInv, TypeOK
  <1> QED  BY <1>1, SettleKeeps DEF RestoreManifest, Results, Outcomes

LEMMA RestoreFailsStep ==
  ASSUME IInv, NEW r \in Resources, RestoreFails(r)
  PROVE  IInv'
  BY SettleKeeps DEF RestoreFails, Results, Outcomes, IInv, TypeOK

LEMMA FinishStep ==
  ASSUME IInv, NEW r \in Resources, Finish(r)
  PROVE  IInv'
  BY SettleKeeps DEF Finish, Results, Outcomes, IInv, TypeOK

LEMMA DependencyAnsweredStep ==
  ASSUME IInv, NEW r \in Resources, DependencyAnswered(r)
  PROVE  IInv'
  <1>1. PICK y \in SharedInstall : y = op[r]
    BY OpFacts
  <1>2. CASE y.got = "ok" /\ ~y.aborted
    <2>1. PICK x \in SharedInstall : x = [y EXCEPT !.phase = "deps", !.got = "none"]
      BY DEF SharedInstall, Phases
    <2>2. /\ x.phase = "deps" /\ x.dep = y.dep /\ x.aborted = y.aborted
          /\ x.subs = y.subs /\ x.visiting = y.visiting
      BY <2>1 DEF SharedInstall
    <2>3. op' = [op EXCEPT ![r] = x] /\ UNCHANGED <<installed, root>>
      BY <1>1, <1>2, <2>1 DEF DependencyAnswered, Goes
    <2> QED  BY <1>1, <2>2, <2>3, TaskKeeps DEF DependencyAnswered, IInv, TypeOK
  <1>3. CASE ~(y.got = "ok" /\ ~y.aborted)
    <2>1. y.got \in Outcomes
      BY DEF SharedInstall, Outcomes
    <2>2. PICK res \in Outcomes : Settle(r, res, installed)
      BY <1>1, <1>3, <2>1 DEF DependencyAnswered, Results, Outcomes
    <2> QED  BY <2>2, SettleKeeps DEF DependencyAnswered, IInv, TypeOK
  <1> QED  BY <1>2, <1>3

-----------------------------------------------------------------------------
(* A live subscriber asks for a resource *)

Taken(d, s, x) ==
  /\ x \in SharedInstall
  /\ InFlight(d) => /\ x.phase = op[d].phase
                    /\ x.dep = op[d].dep
                    /\ x.aborted = op[d].aborted
                    /\ x.visiting = op[d].visiting
  /\ ~InFlight(d) => /\ x.phase = "planning"
                     /\ x.dep = NoResource
                     /\ ~x.aborted
                     /\ d \in x.visiting
  /\ x.subs \subseteq op[d].subs \union {s}
  /\ x.aborted => x.subs = op[d].subs
  /\ ~x.aborted => s \in x.subs
  /\ Joins(d) = IF x.aborted THEN "queued" ELSE "joined"

LEMMA SubscribedFacts ==
  ASSUME IInv, NEW d \in Resources, NEW s \in Subscriber
  PROVE  Taken(d, s, Subscribed(d, s))
  <1>1. PICK y \in SharedInstall : y = op[d]
    BY OpFacts
  <1>2. CASE ~InFlight(d)
    <2>1. PICK v \in SUBSET Resources : v = VisitingOf(s) \union {d}
      BY VisitingType
    <2>2. PICK subs \in SUBSET Subscriber : subs = {s}
      OBVIOUS
    <2>3. PICK x : x = NewOp(d, subs, v, d \in installed)
      OBVIOUS
    <2>4. Fresh(x, subs, v)
      BY <2>3, NewOpFacts, Zenon
    <2>5. Subscribed(d, s) = x
      BY <1>2, <2>1, <2>2, <2>3, Zenon DEF Subscribed
    <2>6. Joins(d) = "joined"
      BY <1>2 DEF Joins
    <2>7. Taken(d, s, x)
      BY <1>2, <2>1, <2>2, <2>4, <2>6 DEF Fresh, Taken
    <2> QED  BY <2>5, <2>7
  <1>3. CASE InFlight(d) /\ y.aborted
    <2>1. Subscribed(d, s) = y
      BY <1>1, <1>3 DEF Subscribed
    <2>2. Joins(d) = "queued"
      BY <1>1, <1>3 DEF Joins
    <2>3. Taken(d, s, y)
      BY <1>1, <1>3, <2>2 DEF Taken
    <2> QED  BY <2>1, <2>3
  <1>4. CASE InFlight(d) /\ ~y.aborted
    <2>1. PICK x \in SharedInstall : x = [y EXCEPT !.subs = @ \union {s}]
      BY DEF SharedInstall
    <2>2. Subscribed(d, s) = x
      BY <1>1, <1>4, <2>1 DEF Subscribed
    <2>3. Joins(d) = "joined"
      BY <1>1, <1>4 DEF Joins
    <2>4. /\ x.phase = y.phase
          /\ x.dep = y.dep
          /\ x.aborted = y.aborted
          /\ x.visiting = y.visiting
          /\ x.subs = y.subs \union {s}
      BY <2>1 DEF SharedInstall
    <2>5. Taken(d, s, x)
      BY <1>1, <1>4, <2>3, <2>4 DEF Taken
    <2> QED  BY <2>2, <2>5
  <1> QED  BY <1>2, <1>3, <1>4

LEMMA RootResolvesStep ==
  ASSUME IInv, NEW r \in Resources, RootResolves(r)
  PROVE  IInv'
  <1>1. PICK t \in RootInstall : t = root[r] /\ t.state = "resolving"
    BY DEF RootResolves, IInv, TypeOK
  <1>2. ASSUME NEW y \in RootInstall, root' = [root EXCEPT ![r] = y]
        PROVE  /\ root' \in [Resources -> RootInstall]
               /\ \A q \in Resources : root'[q] = IF q = r THEN y ELSE root[q]
    BY <1>2 DEF IInv, TypeOK
  <1>3. ASSUME NEW d \in Resources, NEW s \in op[d].subs
        PROVE  s = Root(r) => d # r
    BY <1>1, SubsFacts DEF Root
  <1>4. CASE t.aborted
    <2>1. PICK y \in RootInstall : y = Ended(t, "failed")
      BY EndedFacts DEF Results, Outcomes
    <2>2. root' = [root EXCEPT ![r] = y] /\ UNCHANGED <<installed, op>>
      BY <1>1, <1>4, <2>1 DEF RootResolves
    <2>3. TypeOK'
      BY <1>2, <2>2 DEF IInv, TypeOK
    <2>4. ASSUME NEW d \in Resources PROVE SubsOK(d)' /\ VisitsItself(d)' /\ OwnedOK(d)'
      <3>1. ASSUME NEW s \in op[d].subs
            PROVE  /\ s.kind = "root" => (s.of = d /\ root'[d].state = "joined")
                   /\ s.kind = "op" => (op[s.of].phase = "joined" /\ op[s.of].dep = d)
                   /\ Aborted(s)' = Aborted(s)
        <4>1. s.kind = "root" => (s.of = d /\ d # r /\ root[d].state = "joined")
          BY <1>1, SubsFacts
        <4>2. s.kind = "op" => (op[s.of].phase = "joined" /\ op[s.of].dep = d)
          BY SubsFacts
        <4>3. s.kind = "root" => root'[s.of] = root[s.of]
          BY <1>2, <2>2, <4>1
        <4> QED  BY <2>2, <4>1, <4>2, <4>3 DEF Aborted
      <3> QED  BY <2>2, <3>1 DEF IInv, SubsOK, VisitsItself, OwnedOK, InFlight
    <2> QED  BY <2>3, <2>4 DEF IInv
  <1>5. CASE ~t.aborted
    <2>1. PICK s \in Subscriber : s = Root(r)
      BY DEF Root, Subscriber
    <2>2. PICK x : x = Subscribed(r, s) /\ Taken(r, s, x)
      BY SubscribedFacts
    <2> PICK j \in {"queued", "joined"} : j = Joins(r)
      BY DEF Joins
    <2> PICK y \in RootInstall : y = [t EXCEPT !.state = j]
      BY DEF RootInstall
    <2>3. y.state = j /\ y.aborted = t.aborted
      <3>1. CASE j = "queued"
        BY <3>1 DEF RootInstall
      <3>2. CASE j = "joined"
        BY <3>2 DEF RootInstall
      <3> QED  BY <3>1, <3>2
    <2>4. /\ root' = [root EXCEPT ![r] = y]
          /\ op' = [op EXCEPT ![r] = x]
          /\ UNCHANGED installed
      BY <1>1, <1>5, <2>1, <2>2, <2>3 DEF RootResolves
    <2>5. \A d \in Resources : op'[d] = IF d = r THEN x ELSE op[d]
      BY <2>4 DEF IInv, TypeOK
    <2>6. x \in SharedInstall /\ (x.dep # NoResource <=> x.phase \in {"queued", "joined"})
      BY <2>2 DEF Taken, IInv, TypeOK
    <2>7. TypeOK'
      BY <1>2, <2>4, <2>5, <2>6 DEF IInv, TypeOK
    <2>8. ASSUME NEW d \in Resources, NEW p \in op[d].subs
          PROVE  /\ p.kind = "root" => (p.of = d /\ root'[d].state = "joined")
                 /\ p.kind = "op" => (op'[p.of].phase = "joined" /\ op'[p.of].dep = d)
                 /\ Aborted(p)' = Aborted(p)
      <3>1. CASE p.kind = "root" /\ p.of = d /\ root[d].state = "joined"
        <4>1. root'[d] = root[d]
          BY <1>1, <1>2, <2>4, <3>1
        <4> QED  BY <3>1, <4>1 DEF Aborted
      <3>2. CASE p.kind = "op" /\ op[p.of].phase = "joined" /\ op[p.of].dep = d
        <4>1. p.of \in Resources
          BY SubsFacts
        <4>2. /\ op'[p.of].phase = "joined"
              /\ op'[p.of].dep = d
              /\ op'[p.of].aborted = op[p.of].aborted
          BY <2>2, <2>5, <3>2, <4>1 DEF Taken, InFlight
        <4> QED  BY <3>2, <4>2 DEF Aborted
      <3> QED  BY <3>1, <3>2, SubsFacts
    <2>9. ASSUME NEW d \in Resources, d # r PROVE SubsOK(d)' /\ VisitsItself(d)' /\ OwnedOK(d)'
      BY <2>5, <2>8, <2>9 DEF IInv, SubsOK, VisitsItself, OwnedOK, InFlight
    <2>10. ~x.aborted => (root'[r].state = "joined" /\ ~Aborted(s)')
      BY <1>1, <1>2, <1>5, <2>1, <2>2, <2>3, <2>4 DEF Taken, Aborted, Root
    <2>11. SubsOK(r)'
      <3>1. ASSUME NEW p \in x.subs
            PROVE  /\ p.kind = "root" => (p.of = r /\ root'[r].state = "joined")
                   /\ p.kind = "op" => (op'[p.of].phase = "joined" /\ op'[p.of].dep = r)
        <4>1. CASE p \in op[r].subs
          BY <2>8, <4>1
        <4>2. CASE p \notin op[r].subs
          <5>1. p = s /\ ~x.aborted
            BY <2>2, <4>2 DEF Taken
          <5> QED  BY <2>1, <2>10, <5>1 DEF Root
        <4> QED  BY <4>1, <4>2
      <3> QED  BY <2>5, <3>1 DEF SubsOK
    <2>12. VisitsItself(r)'
      BY <2>2, <2>5 DEF Taken, IInv, VisitsItself, InFlight
    <2>13. OwnedOK(r)'
      <3>1. CASE x.aborted
        <4>1. /\ InFlight(r)
              /\ op[r].aborted
              /\ x.subs = op[r].subs
              /\ x.phase = op[r].phase
          BY <2>2, <3>1 DEF Taken
        <4>2. op[r].phase # "committed" => \A p \in op[r].subs : Aborted(p)
          BY <4>1 DEF IInv, OwnedOK
        <4> QED  BY <2>5, <2>8, <3>1, <4>1, <4>2 DEF OwnedOK
      <3>2. CASE ~x.aborted
        BY <2>2, <2>5, <2>10, <3>2 DEF Taken, OwnedOK
      <3> QED  BY <3>1, <3>2
    <2> QED  BY <2>7, <2>9, <2>11, <2>12, <2>13 DEF IInv
  <1> QED  BY <1>4, <1>5

LEMMA RequestDependencyStep ==
  ASSUME IInv, NEW r \in Resources, NEW d \in Resources, RequestDependency(r, d)
  PROVE  IInv'
  <1>1. d # r
    BY DEF RequestDependency, IInv, VisitsItself, InFlight
  <1>2. PICK y \in SharedInstall : y = op[r] /\ y.phase = "deps" /\ ~y.aborted
    BY OpFacts DEF RequestDependency
  <1>3. PICK s \in Subscriber : s = Context(r)
    BY DEF Context, Subscriber
  <1>4. PICK x : x = Subscribed(d, s) /\ Taken(d, s, x)
    BY SubscribedFacts
  <1> PICK j \in {"queued", "joined"} : j = Joins(d)
    BY DEF Joins
  <1> PICK z : z = [y EXCEPT !.phase = j, !.dep = d, !.todo = @ \ {d}]
    OBVIOUS
  <1>5. /\ z \in SharedInstall
        /\ z.phase = j
        /\ z.dep = d
        /\ z.aborted = y.aborted
        /\ z.subs = y.subs
        /\ z.visiting = y.visiting
    <2>1. CASE j = "queued"
      BY <2>1 DEF SharedInstall, Phases
    <2>2. CASE j = "joined"
      BY <2>2 DEF SharedInstall, Phases
    <2> QED  BY <2>1, <2>2
  <1>6. /\ op' = [op EXCEPT ![d] = x, ![r] = [op[r] EXCEPT !.phase = j, !.dep = d, !.todo = @ \ {d}]]
        /\ UNCHANGED <<installed, root>>
    BY <1>3, <1>4 DEF RequestDependency
  <1>7. \A e \in Resources : op'[e] = IF e = r THEN z ELSE IF e = d THEN x ELSE op[e]
    <2>1. op \in [Resources -> SharedInstall]
      BY DEF IInv, TypeOK
    <2>2. ASSUME NEW e \in Resources, e # r PROVE op'[e] = IF e = d THEN x ELSE op[e]
      BY <1>6, <2>1, <2>2
    <2>3. op'[r] = [op[r] EXCEPT !.phase = j, !.dep = d, !.todo = @ \ {d}]
      BY <1>1, <1>6, <2>1
    <2>4. op'[r] = z
      BY <1>2, <2>3
    <2> QED  BY <2>2, <2>4
  <1>8. /\ x \in SharedInstall
        /\ x.dep # NoResource <=> x.phase \in {"queued", "joined"}
        /\ z.dep # NoResource
        /\ z.phase \in {"queued", "joined"}
    BY <1>4, <1>5, ResourceAssumption DEF Taken, Joins, IInv, TypeOK
  <1>9. TypeOK'
    <2>1. op' = [e \in Resources |-> op'[e]]
      BY <1>6 DEF IInv, TypeOK
    <2>2. ASSUME NEW e \in Resources
          PROVE  /\ op'[e] \in SharedInstall
                 /\ op'[e].dep # NoResource <=> op'[e].phase \in {"queued", "joined"}
      <3>1. CASE e = r
        BY <1>5, <1>7, <1>8, <3>1
      <3>2. CASE e = d
        BY <1>1, <1>7, <1>8, <3>2
      <3>3. CASE e # r /\ e # d
        BY <1>7, <3>3 DEF IInv, TypeOK
      <3> QED  BY <3>1, <3>2, <3>3
    <2>3. op' \in [Resources -> SharedInstall]
      BY <2>1, <2>2
    <2> QED  BY <1>6, <2>2, <2>3 DEF IInv, TypeOK
  <1>10. ASSUME NEW e \in Resources, NEW p \in op[e].subs
         PROVE  /\ p.kind = "root" => (p.of = e /\ root'[e].state = "joined")
                /\ p.kind = "op" => (op'[p.of].phase = "joined" /\ op'[p.of].dep = e)
                /\ Aborted(p)' = Aborted(p)
    <2>1. CASE p.kind = "root" /\ p.of = e /\ root[e].state = "joined"
      BY <1>6, <2>1 DEF Aborted
    <2>2. CASE p.kind = "op" /\ op[p.of].phase = "joined" /\ op[p.of].dep = e
      <3>1. p.of \in Resources /\ p.of # r
        BY <1>2, <2>2, SubsFacts
      <3>2. /\ op'[p.of].phase = "joined"
            /\ op'[p.of].dep = e
            /\ op'[p.of].aborted = op[p.of].aborted
        BY <1>4, <1>7, <2>2, <3>1 DEF Taken, InFlight
      <3> QED  BY <2>2, <3>2 DEF Aborted
    <2> QED  BY <2>1, <2>2, SubsFacts
  <1>11. ASSUME NEW e \in Resources, e # d PROVE SubsOK(e)' /\ VisitsItself(e)' /\ OwnedOK(e)'
    <2>1. /\ op'[e].subs = op[e].subs
          /\ op'[e].visiting = op[e].visiting
          /\ op'[e].aborted = op[e].aborted
          /\ op'[e].phase = op[e].phase \/ op[e].phase = "deps"
      BY <1>2, <1>5, <1>7, <1>11
    <2> QED  BY <1>10, <2>1 DEF IInv, SubsOK, VisitsItself, OwnedOK, InFlight
  <1>12. ~x.aborted => (op'[r].phase = "joined" /\ op'[r].dep = d /\ ~Aborted(s)')
    BY <1>2, <1>3, <1>4, <1>5, <1>7 DEF Taken, Aborted, Context
  <1>13. SubsOK(d)'
    <2>1. ASSUME NEW p \in x.subs
          PROVE  /\ p.kind = "root" => (p.of = d /\ root'[d].state = "joined")
                 /\ p.kind = "op" => (op'[p.of].phase = "joined" /\ op'[p.of].dep = d)
      <3>1. CASE p \in op[d].subs
        BY <1>10, <3>1
      <3>2. CASE p \notin op[d].subs
        <4>1. p = s /\ ~x.aborted
          BY <1>4, <3>2 DEF Taken
        <4> QED  BY <1>3, <1>12, <4>1 DEF Context
      <3> QED  BY <3>1, <3>2
    <2> QED  BY <1>1, <1>7, <2>1 DEF SubsOK
  <1>14. VisitsItself(d)'
    BY <1>1, <1>4, <1>7 DEF Taken, IInv, VisitsItself, InFlight
  <1>15. OwnedOK(d)'
    <2>1. CASE x.aborted
      <3>1. /\ InFlight(d)
            /\ op[d].aborted
            /\ x.subs = op[d].subs
            /\ x.phase = op[d].phase
        BY <1>4, <2>1 DEF Taken
      <3>2. op[d].phase # "committed" => \A p \in op[d].subs : Aborted(p)
        BY <3>1 DEF IInv, OwnedOK
      <3> QED  BY <1>1, <1>7, <1>10, <2>1, <3>1, <3>2 DEF OwnedOK
    <2>2. CASE ~x.aborted
      BY <1>1, <1>4, <1>7, <1>12, <2>2 DEF Taken, OwnedOK
    <2> QED  BY <2>1, <2>2
  <1> QED  BY <1>9, <1>11, <1>13, <1>14, <1>15 DEF IInv

LEMMA InstallStep ==
  ASSUME IInv, NEW r \in Resources, Install(r)
  PROVE  IInv'
  <1>1. PICK y \in RootInstall : y = [NoRoot EXCEPT !.state = "resolving"]
    BY DEF NoRoot, RootInstall, Results
  <1>2. /\ root' = [root EXCEPT ![r] = y]
        /\ root[r].state = "none"
        /\ UNCHANGED <<installed, op>>
    BY <1>1 DEF Install
  <1>3. /\ root' \in [Resources -> RootInstall]
        /\ \A q \in Resources : root'[q] = IF q = r THEN y ELSE root[q]
    BY <1>2 DEF IInv, TypeOK
  <1>4. TypeOK'
    BY <1>2, <1>3 DEF IInv, TypeOK
  <1>5. ASSUME NEW d \in Resources PROVE SubsOK(d)' /\ VisitsItself(d)' /\ OwnedOK(d)'
    <2>1. ASSUME NEW s \in op[d].subs
          PROVE  /\ s.kind = "root" => (s.of = d /\ root'[d].state = "joined")
                 /\ s.kind = "op" => (op[s.of].phase = "joined" /\ op[s.of].dep = d)
                 /\ Aborted(s)' = Aborted(s)
      <3>1. s.kind = "root" => (s.of = d /\ d # r /\ root[d].state = "joined")
        BY <1>2, SubsFacts
      <3>2. s.kind = "op" => (op[s.of].phase = "joined" /\ op[s.of].dep = d)
        BY SubsFacts
      <3>3. s.kind = "root" => root'[s.of] = root[s.of]
        BY <1>3, <3>1
      <3> QED  BY <1>2, <3>1, <3>2, <3>3 DEF Aborted
    <2> QED  BY <1>2, <2>1 DEF IInv, SubsOK, VisitsItself, OwnedOK, InFlight
  <1> QED  BY <1>4, <1>5 DEF IInv

-----------------------------------------------------------------------------
LEMMA TaskStepKeeps ==
  ASSUME IInv, NEW r \in Resources, TaskStep(r)
  PROVE  IInv'
  <1>1. CASE \/ Plan(r) \/ Fails(r) \/ BeginCommit(r) \/ WriteManifest(r)
            \/ CommitChecked(r) \/ RestoreManifest(r) \/ RestoreFails(r)
            \/ Finish(r) \/ DependencyAnswered(r)
    BY <1>1, PlanStep, FailsStep, BeginCommitStep, WriteManifestStep, CommitCheckedStep,
       RestoreManifestStep, RestoreFailsStep, FinishStep, DependencyAnsweredStep
  <1>2. CASE \E d \in Resources : \/ SkipDependency(r, d)
                                  \/ RequestDependency(r, d)
                                  \/ DependencyCycle(r, d)
    BY <1>2, SkipDependencyStep, RequestDependencyStep, DependencyCycleStep
  <1> QED  BY <1>1, <1>2 DEF TaskStep

LEMMA NextIInv == IInv /\ [Next]_vars => IInv'
  <1> SUFFICES ASSUME IInv, [Next]_vars PROVE IInv'  OBVIOUS
  <1>1. CASE UNCHANGED vars
    BY <1>1, StutterIInv
  <1>2. ASSUME NEW r \in Resources,
               \/ Install(r) \/ RootResolves(r) \/ TaskStep(r)
               \/ CancelRoot(r) \/ CancelOperation(r)
        PROVE  IInv'
    BY <1>2, InstallStep, RootResolvesStep, TaskStepKeeps, CancelRootStep, CancelOperationStep
  <1> QED  BY <1>1, <1>2 DEF Next

THEOREM IInvHolds == Spec => []IInv
  BY InitIInv, NextIInv, PTL DEF Spec

(* Every variable keeps its shape, and a task waits for a dependency exactly  *)
(* while it is queued for one or subscribed to one, whatever is installed and *)
(* cancelled in what order (runShared, performRootCancellation,               *)
(* cancelUnownedOperation of resourceInstallCoordinator.ts).                  *)
THEOREM TypeCorrect == Spec => []TypeOK
  BY IInvHolds, PTL DEF IInv

(* The work on a resource is aborted exactly when no subscriber of it is      *)
(* still alive, for any number of resources, roots and dependencies:          *)
(* cancelling one install never stops another's dependency and leaves no      *)
(* dependency of its own running alone (hasOtherLiveSubscriber and            *)
(* cancelUnownedOperation of resourceInstallCoordinator.ts).                  *)
THEOREM WorkIsOwned == Spec => []AbortedIffUnwanted
  <1>1. IInv => AbortedIffUnwanted
    BY DEF IInv, OwnedOK, AbortedIffUnwanted
  <1> QED  BY <1>1, IInvHolds, PTL

-----------------------------------------------------------------------------
(* What a cancellation is told *)

(* Until it writes the manifest an operation finds the resource as it was     *)
(* when it began; from then on the resource is registered, until it ends.     *)
Unwritten == {"planning", "deps", "queued", "joined", "answered", "committing"}
Written   == {"written", "restoring", "committed"}
Registers(d) == /\ op[d].phase \in Written => d \in installed
                /\ op[d].phase \in Unwritten /\ d \in installed => op[d].had
Honest == \A d \in Resources : Registers(d)

(* What HonestCancellation asks of a step.                                   *)
Ends(r) == root[r].state = "joined" /\ root'[r].state = "none"
HonestEnd(r) ==
  /\ root'[r].told \in {"installed", "too_late"} => r \in installed'
  /\ root'[r].told = "cancelled" /\ ~root'[r].left => (r \in installed' => op[r].had)
HonestStep == \A r \in Resources : Ends(r) => HonestEnd(r)

(* A step that leaves the operation of d before, or after, its write.         *)
Tame(d) ==
  \/ op'[d].phase = "none"
  \/ op'[d].phase = "planning" /\ (d \in installed' => op'[d].had)
  \/ op'[d].phase \in Written /\ d \in installed'
  \/ /\ op[d].phase \in Unwritten /\ op'[d].phase \in Unwritten
     /\ op'[d].had = op[d].had /\ (d \in installed' => d \in installed)

LEMMA TameKeeps ==
  ASSUME NEW d, Registers(d), Tame(d)
  PROVE  Registers(d)'
  BY DEF Registers, Tame, Unwritten, Written

LEMMA AllTame ==
  ASSUME Honest,
         \A d \in Resources :
           \/ Tame(d)
           \/ op'[d] = op[d] /\ (d \in installed' <=> d \in installed)
  PROVE  Honest'
  <1>1. ASSUME NEW d \in Resources PROVE Registers(d)'
    <2>1. CASE Tame(d)
      BY <2>1, TameKeeps DEF Honest
    <2>2. CASE op'[d] = op[d] /\ (d \in installed' <=> d \in installed)
      BY <2>2 DEF Honest, Registers
    <2> QED  BY <2>1, <2>2
  <1> QED  BY <1>1 DEF Honest

LEMMA NewOpHad ==
  ASSUME NEW r, NEW subs, NEW visiting, NEW now
  PROVE  /\ NewOp(r, subs, visiting, r \in now).phase = "planning"
         /\ r \in now => NewOp(r, subs, visiting, r \in now).had
  <1>1. ASSUME NEW had
        PROVE  /\ NewOp(r, subs, visiting, had).phase = "planning"
               /\ NewOp(r, subs, visiting, had).had = had
    BY DEF NewOp, NoOp
  <1>2. CASE r \in now
    <2>1. (r \in now) = TRUE
      BY <1>2
    <2>2. NewOp(r, subs, visiting, r \in now) = NewOp(r, subs, visiting, TRUE)
      BY <2>1, Zenon
    <2>3. /\ NewOp(r, subs, visiting, TRUE).had
          /\ NewOp(r, subs, visiting, TRUE).phase = "planning"
      BY <1>1
    <2> QED  BY <2>2, <2>3, Zenon
  <1>3. CASE r \notin now
    <2>1. (r \in now) = FALSE
      BY <1>3
    <2>2. NewOp(r, subs, visiting, r \in now) = NewOp(r, subs, visiting, FALSE)
      BY <2>1, Zenon
    <2>3. NewOp(r, subs, visiting, FALSE).phase = "planning"
      BY <1>1
    <2> QED  BY <1>3, <2>2, <2>3, Zenon
  <1> QED  BY <1>2, <1>3

LEMMA HadAfter ==
  ASSUME IInv, NEW r \in Resources, NEW res, NEW now, Settle(r, res, now),
         NEW x \in Resources, x # r
  PROVE  op'[x].had = op[x].had
  <1>1. \/ op'[x] = AnsweredBy(r, x, res) \/ op'[x] = AnsweredBy(r, x, "failed")
        \/ op'[x] = Promoted(r, x) \/ op'[x] = Unvisited(r, x)
    <2>1. op'[x] = CASE op[x].dep = r /\ op[x].phase = "joined" -> AnsweredBy(r, x, res)
                     [] Context(x) \in Alive(r) -> Promoted(r, x)
                     [] Context(x) \in Queue(r) \ Alive(r) -> AnsweredBy(r, x, "failed")
                     [] OTHER -> Unvisited(r, x)
      BY SettleOthers
    <2> QED  BY <2>1
  <1>2. PICK y \in SharedInstall : y = op[x]
    BY OpFacts
  <1> QED  BY <1>1, <1>2 DEF AnsweredBy, Promoted, Unvisited, SharedInstall

LEMMA RootAnswered ==
  ASSUME IInv, NEW r \in Resources, NEW res, NEW now, Settle(r, res, now),
         root[r].state = "joined"
  PROVE  root'[r].told = Answer(root[r], res)
  <1>1. PICK x \in RootInstall : x = root[r]
    BY DEF IInv, TypeOK
  <1>2. root' = [root EXCEPT ![r] =
           CASE x.state = "joined" -> Ended(x, res)
             [] Root(r) \in Alive(r) -> [x EXCEPT !.state = "joined"]
             [] Root(r) \in Queue(r) \ Alive(r) -> Ended(x, "failed")
             [] OTHER -> x]
    BY <1>1 DEF Settle, Alive, Queue
  <1>3. Root(r) \notin Queue(r) /\ Root(r) \notin Alive(r)
    BY RootQueued DEF Alive
  <1>4. root'[r] = Ended(x, res)
    BY <1>1, <1>2, <1>3 DEF IInv, TypeOK
  <1> QED  BY <1>1, <1>4 DEF Ended, NoRoot

(* What the end of an operation tells the root.                              *)
LEMMA SettleHonest ==
  ASSUME IInv, Honest, NEW r \in Resources, NEW res \in Outcomes, NEW now, Settle(r, res, now),
         now \ {r} = installed \ {r},
         res = "ok" => r \in now,
         res = "failed" => (r \in now => op[r].had)
  PROVE  Honest' /\ HonestStep
  <1>1. installed' = now
    BY SettleInstalls
  <1>2. Tame(r)
    <2>1. CASE op'[r] = NoOp
      BY <2>1, NoOpType DEF Tame
    <2>2. CASE \E first \in Alive(r) :
                 op'[r] = NewOp(r, Alive(r), VisitingOf(first) \union {r}, r \in now)
      <3>1. op'[r].phase = "planning" /\ (r \in now => op'[r].had)
        BY <2>2, NewOpHad
      <3> QED  BY <1>1, <3>1 DEF Tame
    <2> QED  BY <2>1, <2>2, SettleItself
  <1>3. ASSUME NEW x \in Resources, x # r
        PROVE  Registers(x)'
    <2>1. op'[x].had = op[x].had /\ (x \in installed' <=> x \in installed)
      BY <1>1, <1>3, HadAfter
    <2>2. \/ op'[x].phase = op[x].phase
          \/ op[x].phase \in Unwritten /\ op'[x].phase \in Unwritten
      BY <1>3, OthersAfter DEF Unwritten
    <2> QED  BY <2>1, <2>2 DEF Honest, Registers, Unwritten, Written
  <1>4. Registers(r)'
    BY <1>2, TameKeeps DEF Honest
  <1>5. Honest'
    BY <1>3, <1>4 DEF Honest
  <1>6. ASSUME NEW q \in Resources, Ends(q) PROVE HonestEnd(q)
    <2>1. q = r /\ root[r].state = "joined"
      BY <1>6, RootsAfter DEF Ends
    <2>2. root'[r].told = Answer(root[r], res)
      BY <2>1, RootAnswered
    <2>3. /\ root'[r].told \in {"installed", "too_late"} => res = "ok"
          /\ root'[r].told = "cancelled" => res = "failed"
      BY <2>2 DEF Answer
    <2> QED  BY <1>1, <2>1, <2>3 DEF HonestEnd
  <1> QED  BY <1>5, <1>6 DEF HonestStep

(* Where no root ends there is nobody to be told.                            *)
LEMMA QuietHonest ==
  ASSUME \A r \in Resources :
           root'[r] = root[r] \/ root[r].state # "joined" \/ root'[r].state # "none"
  PROVE  HonestStep
  BY DEF HonestStep, Ends

(* The task of r goes on, and no root is told anything.                       *)
LEMMA GoesHonest ==
  ASSUME IInv, Honest, NEW r \in Resources, NEW x, op' = [op EXCEPT ![r] = x],
         UNCHANGED root, installed' \ {r} = installed \ {r}, Tame(r)
  PROVE  Honest' /\ HonestStep
  <1>1. \A d \in Resources \ {r} : op'[d] = op[d] /\ (d \in installed' <=> d \in installed)
    BY DEF IInv, TypeOK
  <1>2. Honest'
    BY <1>1, AllTame
  <1> QED  BY <1>2, QuietHonest

LEMMA PlanHonest ==
  ASSUME IInv, Honest, NEW r \in Resources, Plan(r)
  PROVE  Honest' /\ HonestStep
  <1>1. PICK x : x = [op[r] EXCEPT !.phase = "deps", !.todo = Requires[r] \ installed]
    OBVIOUS
  <1>2. x.phase = "deps" /\ x.had = op[r].had
    BY <1>1, OpFacts DEF SharedInstall
  <1>3. op' = [op EXCEPT ![r] = x] /\ UNCHANGED <<installed, root>> /\ op'[r] = x
    BY <1>1 DEF Plan, Goes, IInv, TypeOK
  <1>4. Tame(r)
    BY <1>2, <1>3 DEF Plan, Tame, Unwritten
  <1> QED  BY <1>3, <1>4, GoesHonest

LEMMA SkipDependencyHonest ==
  ASSUME IInv, Honest, NEW r \in Resources, NEW d \in Resources, SkipDependency(r, d)
  PROVE  Honest' /\ HonestStep
  <1>1. PICK x : x = [op[r] EXCEPT !.todo = @ \ {d}]
    OBVIOUS
  <1>2. x.phase = op[r].phase /\ x.had = op[r].had
    BY <1>1, OpFacts DEF SharedInstall
  <1>3. op' = [op EXCEPT ![r] = x] /\ UNCHANGED <<installed, root>> /\ op'[r] = x
    BY <1>1 DEF SkipDependency, Goes, IInv, TypeOK
  <1>4. Tame(r)
    BY <1>2, <1>3 DEF SkipDependency, Tame, Unwritten
  <1> QED  BY <1>3, <1>4, GoesHonest

LEMMA BeginCommitHonest ==
  ASSUME IInv, Honest, NEW r \in Resources, BeginCommit(r)
  PROVE  Honest' /\ HonestStep
  <1>1. PICK x : x = [op[r] EXCEPT !.phase = "committing"]
    OBVIOUS
  <1>2. x.phase = "committing" /\ x.had = op[r].had
    BY <1>1, OpFacts DEF SharedInstall
  <1>3. op' = [op EXCEPT ![r] = x] /\ UNCHANGED <<installed, root>> /\ op'[r] = x
    BY <1>1 DEF BeginCommit, Goes, IInv, TypeOK
  <1>4. Tame(r)
    BY <1>2, <1>3 DEF BeginCommit, Tame, Unwritten
  <1> QED  BY <1>3, <1>4, GoesHonest

LEMMA WriteManifestHonest ==
  ASSUME IInv, Honest, NEW r \in Resources, WriteManifest(r)
  PROVE  Honest' /\ HonestStep
  <1>1. PICK x : x = [op[r] EXCEPT !.phase = "written"]
    OBVIOUS
  <1>2. x.phase = "written"
    BY <1>1, OpFacts DEF SharedInstall
  <1>3. /\ op' = [op EXCEPT ![r] = x] /\ UNCHANGED root /\ op'[r] = x
        /\ installed' = installed \union {r}
    BY <1>1 DEF WriteManifest, IInv, TypeOK
  <1>4. Tame(r)
    BY <1>2, <1>3 DEF Tame, Written
  <1> QED  BY <1>3, <1>4, GoesHonest

LEMMA CommitCheckedHonest ==
  ASSUME IInv, Honest, NEW r \in Resources, CommitChecked(r)
  PROVE  Honest' /\ HonestStep
  <1>1. PICK phase \in {"restoring", "committed"} : Goes(r, [op[r] EXCEPT !.phase = phase])
    BY DEF CommitChecked
  <1>2. PICK x : x = [op[r] EXCEPT !.phase = phase]
    OBVIOUS
  <1>3. x.phase = phase
    BY <1>2, OpFacts DEF SharedInstall
  <1>4. op' = [op EXCEPT ![r] = x] /\ UNCHANGED <<installed, root>> /\ op'[r] = x
    BY <1>1, <1>2 DEF Goes, IInv, TypeOK
  <1>5. r \in installed
    BY DEF Honest, Registers, CommitChecked, Written
  <1>6. Tame(r)
    BY <1>3, <1>4, <1>5 DEF Tame, Written
  <1> QED  BY <1>4, <1>6, GoesHonest

LEMMA FailsHonest ==
  ASSUME IInv, Honest, NEW r \in Resources,
         Fails(r) \/ \E d \in Resources : DependencyCycle(r, d)
  PROVE  Honest' /\ HonestStep
  <1>1. Settle(r, "failed", installed) /\ op[r].phase \in Unwritten
    BY DEF Fails, DependencyCycle, Unwritten
  <1>2. r \in installed => op[r].had
    BY <1>1 DEF Honest, Registers
  <1> QED  BY <1>1, <1>2, SettleHonest DEF Results, Outcomes

LEMMA DependencyAnsweredHonest ==
  ASSUME IInv, Honest, NEW r \in Resources, DependencyAnswered(r)
  PROVE  Honest' /\ HonestStep
  <1>1. PICK y \in SharedInstall : y = op[r]
    BY OpFacts
  <1>2. op[r].phase = "answered" /\ (r \in installed => op[r].had)
    BY DEF DependencyAnswered, Honest, Registers, Unwritten
  <1>3. CASE y.got = "ok" /\ ~y.aborted
    <2>1. PICK x : x = [y EXCEPT !.phase = "deps", !.got = "none"]
      OBVIOUS
    <2>2. x.phase = "deps" /\ x.had = y.had
      BY <2>1 DEF SharedInstall
    <2>3. op' = [op EXCEPT ![r] = x] /\ UNCHANGED <<installed, root>> /\ op'[r] = x
      BY <1>1, <1>3, <2>1 DEF DependencyAnswered, Goes, IInv, TypeOK
    <2>4. Tame(r)
      BY <1>1, <1>2, <2>2, <2>3 DEF Tame, Unwritten
    <2> QED  BY <2>3, <2>4, GoesHonest
  <1>4. CASE ~(y.got = "ok" /\ ~y.aborted)
    <2>1. y.got \in Outcomes
      BY DEF SharedInstall, Outcomes
    <2>2. PICK res \in Outcomes \ {"ok"} : Settle(r, res, installed)
      BY <1>1, <1>4, <2>1 DEF DependencyAnswered, Results, Outcomes
    <2> QED  BY <1>2, <2>2, SettleHonest
  <1> QED  BY <1>3, <1>4

LEMMA RestoreManifestHonest ==
  ASSUME IInv, Honest, NEW r \in Resources, RestoreManifest(r)
  PROVE  Honest' /\ HonestStep
  <1>1. PICK now : /\ now = IF op[r].had THEN installed ELSE installed \ {r}
                   /\ Settle(r, "failed", now)
    BY DEF RestoreManifest
  <1>2. now \ {r} = installed \ {r} /\ (r \in now => op[r].had)
    BY <1>1
  <1> QED  BY <1>1, <1>2, SettleHonest DEF Results, Outcomes

LEMMA RestoreFailsHonest ==
  ASSUME IInv, Honest, NEW r \in Resources, RestoreFails(r)
  PROVE  Honest' /\ HonestStep
  BY SettleHonest DEF RestoreFails, Results, Outcomes

LEMMA FinishHonest ==
  ASSUME IInv, Honest, NEW r \in Resources, Finish(r)
  PROVE  Honest' /\ HonestStep
  <1>1. r \in installed
    BY DEF Finish, Honest, Registers, Written
  <1> QED  BY <1>1, SettleHonest DEF Finish, Results, Outcomes

(* What a subscription makes of the operation of d.                          *)
LEMMA SubscribedHad ==
  ASSUME IInv, NEW d \in Resources, NEW s
  PROVE  \/ /\ Subscribed(d, s).phase = "planning"
            /\ d \in installed => Subscribed(d, s).had
         \/ /\ Subscribed(d, s).phase = op[d].phase
            /\ Subscribed(d, s).had = op[d].had
  <1>1. CASE ~InFlight(d)
    <2>1. Subscribed(d, s) = NewOp(d, {s}, VisitingOf(s) \union {d}, d \in installed)
      BY <1>1, Zenon DEF Subscribed
    <2> QED  BY <2>1, NewOpHad
  <1>2. CASE InFlight(d)
    BY <1>2, OpFacts DEF Subscribed, SharedInstall
  <1> QED  BY <1>1, <1>2

LEMMA RootResolvesHonest ==
  ASSUME IInv, Honest, NEW r \in Resources, RootResolves(r)
  PROVE  Honest' /\ HonestStep
  <1>1. HonestStep
    <2>1. \A q \in Resources : root'[q] = root[q] \/ root[q].state # "joined"
      BY DEF RootResolves, IInv, TypeOK
    <2> QED  BY <2>1, QuietHonest
  <1>2. CASE UNCHANGED op
    BY <1>1, <1>2 DEF RootResolves, Honest, Registers
  <1>3. CASE op' = [op EXCEPT ![r] = Subscribed(r, Root(r))]
    <2>1. /\ op'[r] = Subscribed(r, Root(r)) /\ UNCHANGED installed
          /\ \A d \in Resources \ {r} : op'[d] = op[d]
      BY <1>3 DEF RootResolves, IInv, TypeOK
    <2>2. Registers(r)'
      BY <2>1, SubscribedHad DEF Honest, Registers, Unwritten, Written
    <2> QED  BY <1>1, <2>1, <2>2 DEF Honest, Registers
  <1> QED  BY <1>1, <1>2, <1>3 DEF RootResolves

LEMMA RequestDependencyHonest ==
  ASSUME IInv, Honest, NEW r \in Resources, NEW d \in Resources, RequestDependency(r, d)
  PROVE  Honest' /\ HonestStep
  <1>1. d # r
    BY DEF RequestDependency, IInv, VisitsItself, InFlight
  <1>2. PICK x : x = Subscribed(d, Context(r))
    OBVIOUS
  <1>3. PICK z : z = [op[r] EXCEPT !.phase = Joins(d), !.dep = d, !.todo = @ \ {d}]
    OBVIOUS
  <1>4. z.phase \in {"queued", "joined"} /\ z.had = op[r].had
    BY <1>3, OpFacts DEF Joins, SharedInstall
  <1>5. op' = [op EXCEPT ![d] = x, ![r] = z] /\ UNCHANGED <<installed, root>>
    BY <1>2, <1>3 DEF RequestDependency
  <1>6. /\ op'[r] = z /\ op'[d] = x
        /\ \A e \in Resources \ {r, d} : op'[e] = op[e]
    BY <1>1, <1>5 DEF IInv, TypeOK
  <1>7. Registers(r)'
    BY <1>4, <1>5, <1>6 DEF RequestDependency, Honest, Registers, Unwritten, Written
  <1>8. Registers(d)'
    BY <1>2, <1>5, <1>6, SubscribedHad DEF Honest, Registers, Unwritten, Written
  <1>9. Honest'
    BY <1>5, <1>6, <1>7, <1>8 DEF Honest, Registers
  <1> QED  BY <1>5, <1>9, QuietHonest

LEMMA InstallHonest ==
  ASSUME IInv, Honest, NEW r \in Resources, Install(r)
  PROVE  Honest' /\ HonestStep
  <1>1. \A q \in Resources : root'[q] = root[q] \/ root[q].state # "joined"
    BY DEF Install, IInv, TypeOK
  <1>2. Honest'
    BY DEF Install, Honest, Registers
  <1> QED  BY <1>1, <1>2, QuietHonest

(* A root that leaves work which others keep is told "cancelled" at once.     *)
LEMMA AbortHonest ==
  ASSUME IInv, Honest, NEW U, NEW R, Abort(U, R)
  PROVE  Honest' /\ HonestStep
  <1>1. PICK X : X = Cascade(U, R)
    OBVIOUS
  <1> DEFINE Leaves(x) == x \in X /\ op[x].phase = "joined" /\ Wanted(op[x].dep, X, R)
             leavers == {Context(x) : x \in {y \in Resources : Leaves(y)}}
                          \union {Root(r) : r \in R}
             Left(x) == [op[x] EXCEPT !.aborted = @ \/ x \in X,
                           !.subs = IF Wanted(x, X, R) THEN @ \ leavers ELSE @]
             Gone(x) == [Left(x) EXCEPT !.phase = "answered", !.got = "failed",
                                        !.dep = NoResource]
             RootLeaves(r) == root[r].state = "joined" /\ Wanted(r, X, R)
  <1>2. op' = [x \in Resources |-> IF Leaves(x) THEN Gone(x) ELSE Left(x)]
    BY <1>1 DEF Abort
  <1>3. /\ root' = [r \in Resources |->
                    IF r \notin R THEN root[r]
                    ELSE IF RootLeaves(r)
                    THEN [NoRoot EXCEPT !.told = "cancelled", !.left = TRUE]
                    ELSE [root[r] EXCEPT !.aborted = TRUE]]
        /\ UNCHANGED installed
    BY <1>1 DEF Abort
  <1>4. ASSUME NEW x \in Resources
        PROVE  /\ op'[x].had = op[x].had
               /\ \/ op'[x].phase = op[x].phase
                  \/ op[x].phase = "joined" /\ op'[x].phase = "answered"
    <2>1. op[x] \in SharedInstall
      BY DEF IInv, TypeOK
    <2>2. CASE Leaves(x)
      BY <1>2, <2>1, <2>2 DEF SharedInstall
    <2>3. CASE ~Leaves(x)
      BY <1>2, <2>1, <2>3 DEF SharedInstall
    <2> QED  BY <2>2, <2>3
  <1>5. ASSUME NEW r \in Resources, Ends(r)
        PROVE  root'[r].told = "cancelled" /\ root'[r].left
    <2>1. root[r] \in RootInstall
      BY DEF IInv, TypeOK
    <2> QED  BY <1>3, <1>5, <2>1 DEF Ends, NoRoot, RootInstall
  <1> HIDE DEF Leaves, leavers, Left, Gone, RootLeaves
  <1>6. Honest'
    BY <1>3, <1>4 DEF Honest, Registers, Unwritten, Written
  <1>7. HonestStep
    BY <1>5 DEF HonestStep, HonestEnd
  <1> QED  BY <1>6, <1>7

LEMMA CancelHonest ==
  ASSUME IInv, Honest, NEW r \in Resources, CancelRoot(r) \/ CancelOperation(r)
  PROVE  Honest' /\ HonestStep
  <1>1. CASE root' = [root EXCEPT ![r].late = TRUE] /\ UNCHANGED <<installed, op>>
    <2>1. \A q \in Resources : root'[q].state = root[q].state
      BY <1>1 DEF IInv, TypeOK, RootInstall
    <2>2. Honest'
      BY <1>1 DEF Honest, Registers
    <2> QED  BY <2>1, <2>2, QuietHonest
  <1>2. CASE \E U, R : Abort(U, R)
    BY <1>2, AbortHonest
  <1> QED  BY <1>1, <1>2 DEF CancelRoot, CancelOperation

LEMMA NextHonest == IInv /\ Honest /\ [Next]_vars => Honest' /\ HonestStep
  <1> SUFFICES ASSUME IInv, Honest, [Next]_vars PROVE Honest' /\ HonestStep  OBVIOUS
  <1>1. CASE UNCHANGED vars
    BY <1>1, QuietHonest DEF vars, Honest, Registers
  <1>2. ASSUME NEW r \in Resources,
               \/ Plan(r) \/ Fails(r) \/ BeginCommit(r) \/ WriteManifest(r)
               \/ CommitChecked(r) \/ RestoreManifest(r) \/ RestoreFails(r)
               \/ Finish(r) \/ DependencyAnswered(r)
        PROVE  Honest' /\ HonestStep
    BY <1>2, PlanHonest, FailsHonest, BeginCommitHonest, WriteManifestHonest,
       CommitCheckedHonest, RestoreManifestHonest, RestoreFailsHonest, FinishHonest,
       DependencyAnsweredHonest
  <1>3. ASSUME NEW r \in Resources, NEW d \in Resources,
               SkipDependency(r, d) \/ RequestDependency(r, d) \/ DependencyCycle(r, d)
        PROVE  Honest' /\ HonestStep
    BY <1>3, SkipDependencyHonest, RequestDependencyHonest, FailsHonest
  <1>4. ASSUME NEW r \in Resources,
               Install(r) \/ RootResolves(r) \/ CancelRoot(r) \/ CancelOperation(r)
        PROVE  Honest' /\ HonestStep
    BY <1>4, InstallHonest, RootResolvesHonest, CancelHonest
  <1> QED  BY <1>1, <1>2, <1>3, <1>4 DEF Next, TaskStep

(* Whoever cancels is told what happened: a root that hears "too late" or     *)
(* success finds the resource registered, one that hears "cancelled" finds    *)
(* it as it was, unless other installs kept the work, however the abort races *)
(* the write of the manifest and its restoration (performRootCancellation of  *)
(* resourceInstallCoordinator.ts, the commit of installTool).                 *)
THEOREM CancellationIsHonest == Spec => HonestCancellation
  <1>1. Init => Honest
    BY NoOpType DEF Init, Honest, Registers, Unwritten, Written
  <1>2. IInv /\ Honest /\ [Next]_vars => Honest' /\ HonestStep
    BY NextHonest
  <1>3. HonestStep => \A r \in Resources :
          root[r].state = "joined" /\ root'[r].state = "none" =>
            LET told == root'[r].told IN
            /\ told \in {"installed", "too_late"} => r \in installed'
            /\ told = "cancelled" /\ ~root'[r].left => (r \in installed' => op[r].had)
    BY DEF HonestStep, Ends, HonestEnd
  <1>4. Spec => [](Honest /\ IInv)
    BY <1>1, <1>2, IInvHolds, PTL DEF Spec
  <1> QED  BY <1>2, <1>3, <1>4, PTL DEF Spec, HonestCancellation

-----------------------------------------------------------------------------
(* Whoever waits is waited for *)

Joined(s, d) == IF s.kind = "root" THEN s.of = d /\ root[d].state = "joined"
                ELSE op[s.of].phase = "joined" /\ op[s.of].dep = d
Queued(s, d) == IF s.kind = "root" THEN s.of = d /\ root[d].state = "queued"
                ELSE op[s.of].phase = "queued" /\ op[s.of].dep = d

(* An operation that somebody has joined is under way and knows him, and it   *)
(* is not aborted while he is alive; who is queued waits for an aborted one   *)
(* to stop.  Nobody waits for what will never settle.                         *)
WaitersAreServed ==
  \A s \in Subscriber, d \in Resources :
    /\ Joined(s, d) => /\ InFlight(d) /\ s \in op[d].subs
                       /\ ~Aborted(s) => ~op[d].aborted
    /\ Queued(s, d) => InFlight(d) /\ op[d].aborted

Serves(s, d) == /\ Joined(s, d) => InFlight(d) /\ s \in op[d].subs
                /\ Queued(s, d) => InFlight(d) /\ op[d].aborted
CommitsRun(d) == op[d].phase = "committed" => ~op[d].aborted
Served == \A d \in Resources : CommitsRun(d) /\ \A s \in Subscriber : Serves(s, d)

LEMMA ServedMeans == IInv /\ Served => WaitersAreServed
  <1> SUFFICES ASSUME IInv, Served, NEW s \in Subscriber, NEW d \in Resources,
                      Joined(s, d), ~Aborted(s)
               PROVE  ~op[d].aborted
    BY DEF Served, Serves, WaitersAreServed
  <1>1. InFlight(d) /\ s \in op[d].subs
    BY DEF Served, Serves
  <1> QED  BY <1>1 DEF IInv, OwnedOK, Served, CommitsRun

(* A step of one task that neither begins nor stops to wait.                  *)
Waitless == Phases \ {"none", "queued", "joined"}
GoesOn(r) ==
  /\ UNCHANGED root
  /\ \A d \in Resources \ {r} : op'[d] = op[d]
  /\ op[r].phase \in Waitless /\ op'[r].phase \in Waitless
  /\ op'[r].subs = op[r].subs
  /\ op'[r].aborted = op[r].aborted
  /\ op'[r].phase = "committed" => ~op[r].aborted

LEMMA GoesOnServed ==
  ASSUME IInv, Served, NEW r \in Resources, GoesOn(r)
  PROVE  Served'
  <1>1. ASSUME NEW d \in Resources PROVE CommitsRun(d)'
    BY DEF GoesOn, Served, CommitsRun
  <1>2. ASSUME NEW d \in Resources, NEW s \in Subscriber PROVE Serves(s, d)'
    <2>1. s.of \in Resources
      BY SubscriberCases
    <2>2. (Joined(s, d)' => Joined(s, d)) /\ (Queued(s, d)' => Queued(s, d))
      BY <2>1 DEF GoesOn, Joined, Queued, Waitless
    <2>3. InFlight(d) => InFlight(d)' /\ op'[d].subs = op[d].subs
                         /\ op'[d].aborted = op[d].aborted
      BY DEF GoesOn, InFlight, Waitless
    <2> QED  BY <2>2, <2>3 DEF Served, Serves
  <1> QED  BY <1>1, <1>2 DEF Served

LEMMA TasksGoOn ==
  ASSUME IInv, NEW r \in Resources,
         \/ Plan(r) \/ BeginCommit(r) \/ WriteManifest(r) \/ CommitChecked(r)
         \/ \E d \in Resources : SkipDependency(r, d)
  PROVE  GoesOn(r)
  <1>1. op[r] \in SharedInstall /\ op \in [Resources -> SharedInstall]
    BY DEF IInv, TypeOK
  <1>2. CASE Plan(r)
    BY <1>1, <1>2 DEF Plan, Goes, GoesOn, Waitless, Phases, SharedInstall
  <1>3. CASE BeginCommit(r)
    BY <1>1, <1>3 DEF BeginCommit, Goes, GoesOn, Waitless, Phases, SharedInstall
  <1>4. CASE WriteManifest(r)
    BY <1>1, <1>4 DEF WriteManifest, GoesOn, Waitless, Phases, SharedInstall
  <1>5. CASE CommitChecked(r)
    <2>1. PICK phase \in {"restoring", "committed"} :
             /\ op' = [op EXCEPT ![r] = [op[r] EXCEPT !.phase = phase]]
             /\ phase = "committed" => ~op[r].aborted
      BY <1>5 DEF CommitChecked, Goes
    <2> QED  BY <1>1, <1>5, <2>1
             DEF CommitChecked, Goes, GoesOn, Waitless, Phases, SharedInstall
  <1>6. ASSUME NEW d \in Resources, SkipDependency(r, d) PROVE GoesOn(r)
    BY <1>1, <1>6 DEF SkipDependency, Goes, GoesOn, Waitless, Phases, SharedInstall
  <1> QED  BY <1>2, <1>3, <1>4, <1>5, <1>6

(* The root of an operation that ends is answered, or joins the next one.     *)
LEMMA RootAfterItself ==
  ASSUME IInv, NEW r \in Resources, NEW res \in Outcomes, NEW now, Settle(r, res, now)
  PROVE  root'[r].state # "queued" /\ (root'[r].state = "joined" => Root(r) \in Alive(r))
  <1>1. PICK x \in RootInstall : x = root[r]
    BY DEF IInv, TypeOK
  <1>2. root' = [root EXCEPT ![r] =
           CASE x.state = "joined" -> Ended(x, res)
             [] Root(r) \in Alive(r) -> [x EXCEPT !.state = "joined"]
             [] Root(r) \in Queue(r) \ Alive(r) -> Ended(x, "failed")
             [] OTHER -> x]
    BY <1>1 DEF Settle, Alive, Queue
  <1>3. Root(r) \in Queue(r) <=> x.state = "queued"
    BY <1>1 DEF Queue, Root, Subscriber
  <1>4. "failed" \in Outcomes
    BY DEF Results, Outcomes
  <1>5. CASE x.state = "joined"
    <2>1. root'[r] = Ended(x, res)
      BY <1>1, <1>2, <1>3, <1>5 DEF Alive, IInv, TypeOK
    <2> QED  BY <2>1, EndedFacts
  <1>6. CASE Root(r) \in Alive(r)
    <2>1. root'[r] = [x EXCEPT !.state = "joined"]
      BY <1>1, <1>2, <1>3, <1>6 DEF Alive, IInv, TypeOK
    <2> QED  BY <1>6, <2>1 DEF RootInstall
  <1>7. CASE Root(r) \in Queue(r) \ Alive(r)
    <2>1. root'[r] = Ended(x, "failed")
      BY <1>1, <1>2, <1>3, <1>7 DEF IInv, TypeOK
    <2> QED  BY <1>4, <2>1, EndedFacts
  <1>8. CASE x.state # "joined" /\ Root(r) \notin Queue(r)
    <2>1. root'[r] = x
      BY <1>1, <1>2, <1>8 DEF Alive, IInv, TypeOK
    <2> QED  BY <1>3, <1>8, <2>1
  <1> QED  BY <1>5, <1>6, <1>7, <1>8 DEF Alive

LEMMA ContextAfter ==
  ASSUME IInv, NEW r \in Resources, NEW res \in Outcomes, NEW now, Settle(r, res, now),
         NEW x \in Resources, x # r, op'[x].dep = r
  PROVE  op'[x].phase # "queued" /\ (op'[x].phase = "joined" => Context(x) \in Alive(r))
  <1>1. "failed" \in Outcomes /\ r # NoResource
    BY ResourceAssumption DEF Results, Outcomes
  <1>2. CASE op[x].dep = r /\ op[x].phase = "joined"
    <2>1. Context(x) \notin Alive(r) /\ Context(x) \notin Queue(r)
      BY <1>2, ContextQueued DEF Alive
    <2>2. op'[x] = AnsweredBy(r, x, res)
      BY <1>2, <2>1, SettleOthers
    <2> QED  BY <1>1, <2>2, AfterFacts
  <1>3. CASE Context(x) \in Alive(r)
    BY <1>3, OthersAfter
  <1>4. CASE Context(x) \in Queue(r) \ Alive(r)
    <2>1. op[x].phase = "queued" /\ op[x].dep = r
      BY <1>4, ContextQueued
    <2>2. op'[x] = AnsweredBy(r, x, "failed")
      BY <1>4, <2>1, SettleOthers
    <2> QED  BY <1>1, <2>2, AfterFacts
  <1>5. CASE ~(op[x].dep = r /\ op[x].phase = "joined") /\ Context(x) \notin Queue(r)
    <2>1. op'[x] = Unvisited(r, x)
      BY <1>5, SettleOthers DEF Alive
    <2>2. op'[x].phase = op[x].phase /\ op[x].dep = r
      BY <1>1, <2>1, AfterFacts
    <2>3. op[x].phase = "queued" => Context(x) \in Queue(r)
      BY <2>2 DEF Queue, Context, Subscriber
    <2> QED  BY <1>5, <2>2, <2>3
  <1> QED  BY <1>2, <1>3, <1>4, <1>5

(* The end of an operation answers or takes along all who wait for it.        *)
LEMMA SettleServed ==
  ASSUME IInv, Served, NEW r \in Resources, NEW res \in Outcomes, NEW now,
         Settle(r, res, now), op[r].phase \notin {"queued", "joined"}
  PROVE  Served'
  <1>1. \/ op'[r] = NoOp /\ Alive(r) = {}
        \/ Begun(r, op'[r])
    BY ItselfAfter
  <1>2. CommitsRun(r)'
    BY <1>1, NoOpType DEF CommitsRun, Begun
  <1>3. ASSUME NEW d \in Resources, d # r
        PROVE  /\ CommitsRun(d)' /\ op'[d].subs = op[d].subs /\ op'[d].aborted = op[d].aborted
               /\ InFlight(d) => InFlight(d)'
    BY <1>3, OthersAfter DEF Served, CommitsRun, InFlight
  <1>4. ASSUME NEW x \in Resources, NEW d \in Resources, d # r
        PROVE  \A phase \in {"joined", "queued"} :
                 op'[x].phase = phase /\ op'[x].dep = d => op[x].phase = phase /\ op[x].dep = d
    <2>1. CASE x = r
      BY <1>1, <2>1, NoOpType DEF Begun
    <2>2. CASE x # r
      BY <1>4, <2>2, OthersAfter
    <2> QED  BY <2>1, <2>2
  <1>5. ASSUME NEW d \in Resources, d # r, NEW s \in Subscriber PROVE Serves(s, d)'
    <2>1. s.of \in Resources
      BY SubscriberCases
    <2>2. root'[d] = root[d]
      BY <1>5, RootsAfter
    <2>3. (Joined(s, d)' => Joined(s, d)) /\ (Queued(s, d)' => Queued(s, d))
      BY <1>4, <1>5, <2>1, <2>2 DEF Joined, Queued
    <2> QED  BY <1>3, <1>5, <2>3 DEF Served, Serves
  <1>6. ASSUME NEW s \in Subscriber PROVE Serves(s, r)'
    <2>1. ~Queued(s, r)' /\ (Joined(s, r)' => s \in Alive(r))
      <3>1. CASE s = Root(r)
        <4>1. root'[r].state # "queued" /\ (root'[r].state = "joined" => Root(r) \in Alive(r))
          BY RootAfterItself
        <4> QED  BY <3>1, <4>1 DEF Joined, Queued, Root
      <3>2. CASE s = Context(s.of) /\ s.of \in Resources
        <4>1. CASE s.of = r
          BY <1>1, <3>2, <4>1, NoOpType, ResourceAssumption DEF Begun, Joined, Queued, Context
        <4>2. CASE s.of # r
          BY <3>2, <4>2, ContextAfter DEF Joined, Queued, Context
        <4> QED  BY <4>1, <4>2
      <3>3. CASE s = Root(s.of) /\ s.of # r
        BY <3>3 DEF Joined, Queued, Root
      <3> QED  BY <3>1, <3>2, <3>3, SubscriberCases
    <2>2. s \in Alive(r) => InFlight(r)' /\ s \in op'[r].subs
      BY <1>1 DEF Begun, InFlight
    <2> QED  BY <2>1, <2>2 DEF Serves
  <1> QED  BY <1>2, <1>3, <1>5, <1>6 DEF Served

LEMMA EndsServed ==
  ASSUME IInv, Served, NEW r \in Resources,
         \/ Fails(r) \/ RestoreManifest(r) \/ RestoreFails(r) \/ Finish(r)
         \/ \E d \in Resources : DependencyCycle(r, d)
  PROVE  Served'
  <1>1. PICK res \in Outcomes : \E now : Settle(r, res, now)
    BY DEF Fails, RestoreManifest, RestoreFails, Finish, DependencyCycle, Results, Outcomes
  <1>2. op[r].phase \notin {"queued", "joined"}
    BY DEF Fails, RestoreManifest, RestoreFails, Finish, DependencyCycle
  <1> QED  BY <1>1, <1>2, SettleServed

LEMMA DependencyAnsweredServed ==
  ASSUME IInv, Served, NEW r \in Resources, DependencyAnswered(r)
  PROVE  Served'
  <1>1. PICK y \in SharedInstall : y = op[r]
    BY OpFacts
  <1>2. CASE y.got = "ok" /\ ~y.aborted
    <2>1. op' = [op EXCEPT ![r] = [y EXCEPT !.phase = "deps", !.got = "none"]] /\ UNCHANGED root
      BY <1>1, <1>2 DEF DependencyAnswered, Goes
    <2>2. GoesOn(r)
      BY <1>1, <1>2, <2>1 DEF GoesOn, DependencyAnswered, Waitless, Phases, SharedInstall,
         IInv, TypeOK
    <2> QED  BY <2>2, GoesOnServed
  <1>3. CASE ~(y.got = "ok" /\ ~y.aborted)
    <2>1. y.got \in Outcomes
      BY DEF SharedInstall, Outcomes
    <2>2. PICK res \in Outcomes : Settle(r, res, installed)
      BY <1>1, <1>3, <2>1 DEF DependencyAnswered, Results, Outcomes
    <2> QED  BY <2>2, SettleServed DEF DependencyAnswered
  <1> QED  BY <1>2, <1>3

LEMMA InstallServed ==
  ASSUME IInv, Served, NEW r \in Resources, Install(r)
  PROVE  Served'
  <1>1. UNCHANGED op /\ \A d \in Resources : root'[d].state \in {"queued", "joined"}
                                              => root'[d] = root[d]
    BY DEF Install, NoRoot, IInv, TypeOK
  <1>2. ASSUME NEW d \in Resources, NEW s \in Subscriber PROVE Serves(s, d)'
    <2>1. (Joined(s, d)' => Joined(s, d)) /\ (Queued(s, d)' => Queued(s, d))
      BY <1>1 DEF Joined, Queued
    <2> QED  BY <1>1, <2>1 DEF Served, Serves, InFlight
  <1> QED  BY <1>1, <1>2 DEF Served, CommitsRun

(* A live subscriber s asks for d; apart from it nobody begins to wait.       *)
LEMMA SubscribedServes ==
  ASSUME IInv, Served, NEW d \in Resources, NEW s \in Subscriber, NEW x, Taken(d, s, x),
         op'[d].subs = x.subs, op'[d].phase = x.phase, op'[d].aborted = x.aborted,
         x.phase # "none",
         \A e \in Resources \ {d} : /\ op'[e].subs = op[e].subs
                                    /\ op'[e].aborted = op[e].aborted
                                    /\ InFlight(e) => InFlight(e)'
                                    /\ op'[e].phase = "committed" => op[e].phase = "committed",
         \A p \in Subscriber \ {s}, e \in Resources :
           (Joined(p, e)' => Joined(p, e)) /\ (Queued(p, e)' => Queued(p, e)),
         \A e \in Resources : (Joined(s, e)' => e = d /\ ~x.aborted)
                              /\ (Queued(s, e)' => e = d /\ x.aborted),
         InFlight(d) => op[d].subs \subseteq x.subs
  PROVE  Served'
  <1>1. ASSUME NEW e \in Resources PROVE CommitsRun(e)'
    BY DEF Taken, Served, CommitsRun, InFlight
  <1>2. ASSUME NEW e \in Resources, NEW p \in Subscriber PROVE Serves(p, e)'
    <2>1. CASE p = s
      BY <2>1 DEF Serves, Taken, InFlight
    <2>2. CASE p # s /\ e = d
      BY <2>2 DEF Served, Serves, Taken, InFlight
    <2>3. CASE p # s /\ e # d
      BY <2>3 DEF Served, Serves
    <2> QED  BY <2>1, <2>2, <2>3
  <1> QED  BY <1>1, <1>2 DEF Served

LEMMA SubscribedSubs ==
  ASSUME IInv, NEW d \in Resources, NEW s, InFlight(d)
  PROVE  op[d].subs \subseteq Subscribed(d, s).subs
  BY OpFacts DEF Subscribed, SharedInstall

LEMMA RootResolvesServed ==
  ASSUME IInv, Served, NEW r \in Resources, RootResolves(r)
  PROVE  Served'
  <1>1. PICK t \in RootInstall : t = root[r] /\ t.state = "resolving"
    BY DEF RootResolves, IInv, TypeOK
  <1>2. CASE t.aborted
    <2>1. root' = [root EXCEPT ![r] = Ended(t, "failed")] /\ UNCHANGED op
      BY <1>1, <1>2 DEF RootResolves
    <2>2. \A d \in Resources : root'[d].state \in {"queued", "joined"} => root'[d] = root[d]
      BY <2>1, EndedFacts DEF Results, Outcomes, IInv, TypeOK
    <2>3. ASSUME NEW d \in Resources, NEW s \in Subscriber PROVE Serves(s, d)'
      <3>1. (Joined(s, d)' => Joined(s, d)) /\ (Queued(s, d)' => Queued(s, d))
        BY <2>1, <2>2 DEF Joined, Queued
      <3> QED  BY <2>1, <3>1 DEF Served, Serves, InFlight
    <2> QED  BY <2>1, <2>3 DEF Served, CommitsRun
  <1>3. CASE ~t.aborted
    <2>1. PICK s \in Subscriber : s = Root(r)
      BY DEF Root, Subscriber
    <2>2. PICK x : x = Subscribed(r, s) /\ Taken(r, s, x)
      BY SubscribedFacts
    <2>3. /\ root' = [root EXCEPT ![r].state = Joins(r)]
          /\ op' = [op EXCEPT ![r] = x]
      BY <1>1, <1>3, <2>1, <2>2 DEF RootResolves
    <2>4. /\ op'[r] = x
          /\ \A d \in Resources \ {r} : op'[d] = op[d] /\ root'[d] = root[d]
          /\ root'[r].state = Joins(r)
      BY <2>3 DEF IInv, TypeOK, RootInstall
    <2>5. ASSUME NEW p \in Subscriber \ {s}, NEW e \in Resources
          PROVE  (Joined(p, e)' => Joined(p, e)) /\ (Queued(p, e)' => Queued(p, e))
      <3>1. CASE p = Root(p.of) /\ p.kind = "root"
        BY <2>1, <2>4, <3>1 DEF Joined, Queued
      <3>2. CASE p = Context(p.of) /\ p.kind = "op"
        BY <2>2, <2>4, <3>2, SubscriberCases DEF Joined, Queued, Taken
      <3> QED  BY <3>1, <3>2, SubscriberCases
    <2>6. ASSUME NEW e \in Resources
          PROVE  (Joined(s, e)' => e = r /\ ~x.aborted) /\ (Queued(s, e)' => e = r /\ x.aborted)
      BY <2>1, <2>2, <2>4 DEF Joined, Queued, Root, Taken
    <2>7. x.phase # "none" /\ (InFlight(r) => op[r].subs \subseteq x.subs)
      BY <2>2, SubscribedSubs DEF Taken, InFlight
    <2> QED  BY <2>2, <2>4, <2>5, <2>6, <2>7, SubscribedServes DEF InFlight
  <1> QED  BY <1>2, <1>3

LEMMA RequestDependencyServed ==
  ASSUME IInv, Served, NEW r \in Resources, NEW d \in Resources, RequestDependency(r, d)
  PROVE  Served'
  <1>1. d # r
    BY DEF RequestDependency, IInv, VisitsItself, InFlight
  <1>2. PICK y \in SharedInstall : y = op[r] /\ y.phase = "deps"
    BY OpFacts DEF RequestDependency
  <1>3. PICK s \in Subscriber : s = Context(r)
    BY DEF Context, Subscriber
  <1>4. PICK x : x = Subscribed(d, s) /\ Taken(d, s, x)
    BY SubscribedFacts
  <1>5. PICK z : z = [y EXCEPT !.phase = Joins(d), !.dep = d, !.todo = @ \ {d}]
    OBVIOUS
  <1>6. /\ z.phase = Joins(d) /\ z.dep = d
        /\ z.aborted = y.aborted /\ z.subs = y.subs
    BY <1>5 DEF SharedInstall
  <1>7. op' = [op EXCEPT ![d] = x, ![r] = z] /\ UNCHANGED root
    BY <1>2, <1>3, <1>4, <1>5 DEF RequestDependency
  <1>8. /\ op'[r] = z /\ op'[d] = x
        /\ \A e \in Resources \ {r, d} : op'[e] = op[e]
    BY <1>1, <1>7 DEF IInv, TypeOK
  <1>9. Joins(d) \in {"queued", "joined"}
    BY DEF Joins
  <1>10. ASSUME NEW p \in Subscriber \ {s}, NEW e \in Resources
         PROVE  (Joined(p, e)' => Joined(p, e)) /\ (Queued(p, e)' => Queued(p, e))
    <2>1. CASE p.kind = "root"
      BY <1>7, <2>1 DEF Joined, Queued
    <2>2. CASE p = Context(p.of) /\ p.kind = "op"
      <3>1. p.of \in Resources \ {r}
        BY <1>3, <2>2, SubscriberCases
      <3> QED  BY <1>4, <1>8, <2>2, <3>1 DEF Joined, Queued, Taken
    <2> QED  BY <2>1, <2>2, SubscriberCases
  <1>11. ASSUME NEW e \in Resources
         PROVE  (Joined(s, e)' => e = d /\ ~x.aborted) /\ (Queued(s, e)' => e = d /\ x.aborted)
    BY <1>3, <1>4, <1>6, <1>8 DEF Joined, Queued, Context, Taken
  <1>12. x.phase # "none" /\ (InFlight(d) => op[d].subs \subseteq x.subs)
    BY <1>4, SubscribedSubs DEF Taken, InFlight
  <1>13. ASSUME NEW e \in Resources \ {d}
         PROVE  /\ op'[e].subs = op[e].subs /\ op'[e].aborted = op[e].aborted
                /\ InFlight(e) => InFlight(e)'
                /\ op'[e].phase = "committed" => op[e].phase = "committed"
    BY <1>2, <1>6, <1>8, <1>9 DEF InFlight
  <1> QED  BY <1>4, <1>8, <1>10, <1>11, <1>12, <1>13, SubscribedServes

(* Who stays joined to work that is wanted is not among those that leave it.  *)
LEMMA AbortServed ==
  ASSUME IInv, Served, NEW U \in SUBSET Resources, NEW R \in SUBSET Resources, Abort(U, R),
         \A d \in U : op[d].phase # "committed"
  PROVE  Served'
  <1>1. PICK X \in SUBSET Resources : X = Cascade(U, R)
    BY CascadeFacts
  <1>2. ASSUME NEW d \in X PROVE op[d].phase # "committed"
    BY <1>1, CascadeFacts DEF Running
  <1> DEFINE Leaves(x) == x \in X /\ op[x].phase = "joined" /\ Wanted(op[x].dep, X, R)
             leavers == {Context(x) : x \in {y \in Resources : Leaves(y)}}
                          \union {Root(r) : r \in R}
             Left(x) == [op[x] EXCEPT !.aborted = @ \/ x \in X,
                           !.subs = IF Wanted(x, X, R) THEN @ \ leavers ELSE @]
             Gone(x) == [Left(x) EXCEPT !.phase = "answered", !.got = "failed",
                                        !.dep = NoResource]
             RootLeaves(r) == root[r].state = "joined" /\ Wanted(r, X, R)
  <1>3. op' = [x \in Resources |-> IF Leaves(x) THEN Gone(x) ELSE Left(x)]
    BY <1>1 DEF Abort
  <1>4. root' = [r \in Resources |->
                  IF r \notin R THEN root[r]
                  ELSE IF RootLeaves(r) THEN [NoRoot EXCEPT !.told = "cancelled", !.left = TRUE]
                  ELSE [root[r] EXCEPT !.aborted = TRUE]]
    BY <1>1 DEF Abort
  <1>5. ASSUME NEW x \in Resources
        PROVE  /\ op'[x].aborted <=> (op[x].aborted \/ x \in X)
               /\ op'[x].subs = IF Wanted(x, X, R) THEN op[x].subs \ leavers ELSE op[x].subs
               /\ IF Leaves(x) THEN op'[x].phase = "answered" /\ op'[x].dep = NoResource
                  ELSE op'[x].phase = op[x].phase /\ op'[x].dep = op[x].dep
    <2>1. op[x] \in SharedInstall
      BY DEF IInv, TypeOK
    <2>2. CASE Leaves(x)
      BY <1>3, <2>1, <2>2 DEF SharedInstall, Phases, Results
    <2>3. CASE ~Leaves(x)
      BY <1>3, <2>1, <2>3 DEF SharedInstall
    <2> QED  BY <2>2, <2>3
  <1>6. ASSUME NEW r \in Resources, root'[r].state \in {"queued", "joined"}
        PROVE  root'[r].state = root[r].state /\ (r \in R => ~RootLeaves(r))
    BY <1>4, <1>6 DEF IInv, TypeOK, RootInstall, NoRoot
  <1> HIDE DEF Left, Gone
  <1>7. ASSUME NEW d \in Resources PROVE CommitsRun(d)'
    BY <1>2, <1>5 DEF Served, CommitsRun
  <1>8. ASSUME NEW d \in Resources, NEW s \in Subscriber PROVE Serves(s, d)'
    <2>1. CASE s = Root(s.of) /\ s.kind = "root"
      <3>1. (Joined(s, d)' => Joined(s, d)) /\ (Queued(s, d)' => Queued(s, d))
        BY <1>6, <2>1 DEF Joined, Queued
      <3>2. Joined(s, d)' => (Wanted(d, X, R) => s \notin leavers)
        BY <1>6, <2>1 DEF Joined, Root, Context
      <3> QED  BY <1>5, <2>1, <3>1, <3>2 DEF Served, Serves, InFlight
    <2>2. CASE s = Context(s.of) /\ s.kind = "op"
      <3>1. s.of \in Resources
        BY SubscriberCases
      <3>2. (Joined(s, d)' => Joined(s, d)) /\ (Queued(s, d)' => Queued(s, d))
        BY <1>5, <2>2, <3>1 DEF Joined, Queued
      <3>3. Joined(s, d)' => s \notin leavers
        <4>1. Joined(s, d)' => ~Leaves(s.of)
          BY <1>5, <2>2, <3>1 DEF Joined
        <4> HIDE DEF Leaves
        <4> QED  BY <2>2, <4>1 DEF Root, Context
      <3> QED  BY <1>5, <3>2, <3>3 DEF Served, Serves, InFlight
    <2> QED  BY <2>1, <2>2, SubscriberCases
  <1> QED  BY <1>7, <1>8 DEF Served

(* What depends on a running operation has joined it, so it is not committed. *)
LEMMA DependentsRun ==
  ASSUME IInv, NEW r \in Resources, op[r].phase # "committed", NEW d \in Dependents(r)
  PROVE  op[d].phase # "committed"
  <1> DEFINE Y == {e \in Resources : op[e].phase # "committed"}
  <1>1. r \in Y
    OBVIOUS
  <1>2. ASSUME NEW e \in Y, NEW p \in Resources, Context(p) \in op[e].subs PROVE p \in Y
    BY <1>2, SubsFacts DEF Context
  <1>3. Y \in SUBSET Resources
    OBVIOUS
  <1> HIDE DEF Y
  <1>4. d \in Y
    BY <1>1, <1>2, <1>3 DEF Dependents
  <1> QED  BY <1>4 DEF Y

LEMMA CancelServed ==
  ASSUME IInv, Served, NEW r \in Resources, CancelRoot(r) \/ CancelOperation(r)
  PROVE  Served'
  <1>1. CASE root' = [root EXCEPT ![r].late = TRUE] /\ UNCHANGED op
    <2>1. \A q \in Resources : root'[q].state = root[q].state
      BY <1>1 DEF IInv, TypeOK, RootInstall
    <2>2. ASSUME NEW d \in Resources, NEW s \in Subscriber PROVE Serves(s, d)'
      <3>1. (Joined(s, d)' => Joined(s, d)) /\ (Queued(s, d)' => Queued(s, d))
        BY <1>1, <2>1 DEF Joined, Queued
      <3> QED  BY <1>1, <3>1 DEF Served, Serves, InFlight
    <2> QED  BY <1>1, <2>2 DEF Served, CommitsRun
  <1>2. CASE Abort({}, {r})
    BY <1>2, AbortServed
  <1>3. CASE CancelOperation(r)
    <2>1. PICK U \in SUBSET Resources : U = Dependents(r)
      BY DependentsFacts
    <2>2. PICK R \in SUBSET Resources :
            R = {q \in Resources : \E d \in U : Root(q) \in op[d].subs}
      OBVIOUS
    <2>3. Abort(U, R) /\ op[r].phase # "committed"
      BY <1>3, <2>1, <2>2 DEF CancelOperation, Running
    <2> QED  BY <2>1, <2>3, DependentsRun, AbortServed
  <1> QED  BY <1>1, <1>2, <1>3 DEF CancelRoot

LEMMA NextServed == IInv /\ Served /\ [Next]_vars => Served'
  <1> SUFFICES ASSUME IInv, Served, [Next]_vars PROVE Served'  OBVIOUS
  <1>1. CASE UNCHANGED vars
    BY <1>1 DEF vars, Served, CommitsRun, Serves, Joined, Queued, InFlight
  <1>2. ASSUME NEW r \in Resources, TaskStep(r) PROVE Served'
    <2>1. CASE \/ Plan(r) \/ BeginCommit(r) \/ WriteManifest(r) \/ CommitChecked(r)
               \/ \E d \in Resources : SkipDependency(r, d)
      BY <2>1, TasksGoOn, GoesOnServed
    <2>2. CASE \/ Fails(r) \/ RestoreManifest(r) \/ RestoreFails(r) \/ Finish(r)
               \/ \E d \in Resources : DependencyCycle(r, d)
      BY <2>2, EndsServed
    <2>3. ASSUME NEW d \in Resources, RequestDependency(r, d) PROVE Served'
      BY <2>3, RequestDependencyServed
    <2> QED  BY <1>2, <2>1, <2>2, <2>3, DependencyAnsweredServed DEF TaskStep
  <1>3. ASSUME NEW r \in Resources,
               Install(r) \/ RootResolves(r) \/ CancelRoot(r) \/ CancelOperation(r)
        PROVE  Served'
    BY <1>3, InstallServed, RootResolvesServed, CancelServed
  <1> QED  BY <1>1, <1>2, <1>3 DEF Next

(* Nobody waits for work that will never answer him: an operation that an     *)
(* install or another operation has joined is under way, has him in its list  *)
(* of subscribers and, while he is alive, is not aborted; and whoever waits   *)
(* in runShared for an aborted operation to stop finds it still stopping      *)
(* (runShared, finishOperation and removeSubscriber of                       *)
(* resourceInstallCoordinator.ts).                                           *)
THEOREM WaitersStayServed == Spec => []WaitersAreServed
  <1>1. Init => Served
    BY NoOpType, NoRootType
    DEF Init, Served, CommitsRun, Serves, Joined, Queued, NoRoot, Subscriber
  <1>2. IInv /\ Served /\ [Next]_vars => Served'
    BY NextServed
  <1>3. IInv /\ Served => WaitersAreServed
    BY ServedMeans
  <1> QED  BY <1>1, <1>2, <1>3, IInvHolds, PTL DEF Spec
=============================================================================
