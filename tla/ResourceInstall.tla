--------------------------- MODULE ResourceInstall ---------------------------
(***************************************************************************)
(* Installation of tools, PDKs and MPCs with their dependencies:            *)
(* ResourceInstallCoordinator (services/resourceInstallCoordinator.ts) and   *)
(* the install task of ResourceManagerService that runs under it.           *)
(*                                                                         *)
(* A root is one Install the user asked for.  The work on a resource is a   *)
(* shared operation: roots, and operations that need the resource as a      *)
(* dependency, subscribe to it.  Cancelling aborts a root; an operation is  *)
(* aborted when nobody who is still alive subscribes to it.                 *)
(***************************************************************************)
EXTENDS Naturals, FiniteSets

CONSTANTS Resources,
          Requires,    \* Requires[r]: what the registry lists for r
          NoResource

ASSUME ResourceAssumption == /\ Requires \in [Resources -> SUBSET Resources]
                             /\ NoResource \notin Resources

VARIABLES
  installed,  \* resources registered in the manifest or the PDK inventory
  root,       \* root[r]: the RootInstall of r and what its caller was told
  op          \* op[r]: the SharedInstall of r and where its task is

vars == <<installed, root, op>>

Results == {"ok", "failed", "restore"}  \* "restore": ResourceMetadataRestoreError
Subscriber == [kind : {"root", "op"}, of : Resources]
Root(r) == [kind |-> "root", of |-> r]
Context(r) == [kind |-> "op", of |-> r]

RootInstall == [state : {"none", "resolving", "queued", "joined"},
                aborted : BOOLEAN,
                late : BOOLEAN,    \* cancelled after the commit
                told : {"none", "installed", "too_late", "cancelled"} \union Results,
                left : BOOLEAN]    \* history: other subscribers kept the work

(* The states of SharedInstall: "committed" from the commit on; before it    *)
(* "cancelling" if aborted, else "running".  It accepts unless aborted.       *)
Phases == {"none", "planning", "deps", "queued", "joined", "answered",
           "committing", "written", "restoring", "committed"}
SharedInstall == [phase : Phases,
                  aborted : BOOLEAN,
                  subs : SUBSET Subscriber,
                  todo : SUBSET Resources,       \* unsatisfied dependencies
                  dep : Resources \union {NoResource},
                  got : Results \union {"none"}, \* how the dependency ended
                  visiting : SUBSET Resources,
                  had : BOOLEAN]                 \* registered before it began

NoRoot == [state |-> "none", aborted |-> FALSE, late |-> FALSE,
           told |-> "none", left |-> FALSE]
NoOp == [phase |-> "none", aborted |-> FALSE, subs |-> {}, todo |-> {},
         dep |-> NoResource, got |-> "none", visiting |-> {}, had |-> FALSE]
(* createOperation *)
NewOp(r, subs, visiting, had) ==
  [NoOp EXCEPT !.phase = "planning", !.subs = subs, !.visiting = visiting,
               !.had = had]

InFlight(r)   == op[r].phase # "none"
Running(r)    == InFlight(r) /\ op[r].phase # "committed" /\ ~op[r].aborted
Aborted(s)    == IF s.kind = "root" THEN root[s.of].aborted ELSE op[s.of].aborted
VisitingOf(s) == IF s.kind = "root" THEN {} ELSE op[s.of].visiting

Init == /\ installed = {}
        /\ root = [r \in Resources |-> NoRoot]
        /\ op = [r \in Resources |-> NoOp]

-----------------------------------------------------------------------------
(* runShared up to its await: subscriber s asks for resource d.              *)

Joins(d) == IF InFlight(d) /\ op[d].aborted THEN "queued" ELSE "joined"
Subscribed(d, s) ==
  IF ~InFlight(d) THEN NewOp(d, {s}, VisitingOf(s) \union {d}, d \in installed)
  ELSE IF op[d].aborted THEN op[d]
  ELSE [op[d] EXCEPT !.subs = @ \union {s}]

(* Mistaken variant: the error of an aborted install is passed on as it is. *)
AnswerUntranslated(x, res) ==
  IF res = "failed" /\ x.aborted THEN "aborted"
  ELSE IF res = "ok" THEN "installed" ELSE res

(* What the caller of a root, or of its cancellation, is told at the end. *)
Answer(x, res) ==
  CASE res = "ok" -> IF x.aborted \/ x.late THEN "too_late" ELSE "installed"
    [] res = "failed" -> IF x.aborted THEN "cancelled" ELSE "failed"
    [] OTHER -> "restore"
Ended(x, res) == [NoRoot EXCEPT !.told = Answer(x, res)]

(* Mistaken variant: who waits for an aborted operation is never woken. *)
SettleNoRetry(r, res, now) ==
  /\ installed' = now
  /\ op' = [x \in Resources |->
              IF x = r THEN NoOp
              ELSE IF op[x].dep = r /\ op[x].phase = "joined"
              THEN [op[x] EXCEPT !.phase = "answered", !.got = res, !.dep = NoResource,
                                 !.visiting = @ \ {r}]
              ELSE [op[x] EXCEPT !.visiting = @ \ {r}]]
  /\ root' = [root EXCEPT ![r] = IF @.state = "joined" THEN Ended(@, res) ELSE @]

(* The promise of the operation of r settles: finishOperation, then its      *)
(* subscribers, then the waiters of runShared's line 101, whom the first     *)
(* that is still alive gives a new operation.                                *)
Settle(r, res, now) ==
  LET queue == {s \in Subscriber :
                  IF s.kind = "root" THEN s = Root(r) /\ root[r].state = "queued"
                  ELSE op[s.of].phase = "queued" /\ op[s.of].dep = r}
      alive == {s \in queue : ~Aborted(s)}
      Answered(x, how) == [op[x] EXCEPT !.phase = "answered", !.got = how,
                                        !.dep = NoResource, !.visiting = @ \ {r}]
  IN  /\ installed' = now
      /\ \E first \in IF alive = {} THEN {Root(r)} ELSE alive :
           op' = [x \in Resources |->
             CASE x = r /\ alive = {} -> NoOp
               [] x = r /\ alive # {} ->
                    NewOp(r, alive, VisitingOf(first) \union {r}, r \in now)
               [] x # r /\ op[x].dep = r /\ op[x].phase = "joined" -> Answered(x, res)
               [] x # r /\ Context(x) \in alive ->
                    [op[x] EXCEPT !.phase = "joined", !.visiting = @ \ {r}]
               [] x # r /\ Context(x) \in queue \ alive -> Answered(x, "failed")
               [] OTHER -> [op[x] EXCEPT !.visiting = @ \ {r}]]
      /\ root' = [root EXCEPT ![r] =
           CASE @.state = "joined" -> Ended(@, res)
             [] Root(r) \in alive  -> [@ EXCEPT !.state = "joined"]
             [] Root(r) \in queue \ alive -> Ended(@, "failed")
             [] OTHER -> @]

-----------------------------------------------------------------------------
(* runRoot.  A second Install of a root in progress gets the same promise;   *)
(* installing what the manifest already locks is left out.                   *)

Install(r) ==
  /\ root[r].state = "none" /\ r \notin installed
  /\ root' = [root EXCEPT ![r] = [NoRoot EXCEPT !.state = "resolving"]]
  /\ UNCHANGED <<installed, op>>

RootResolves(r) ==             \* after resolveInstallOperation
  /\ root[r].state = "resolving"
  /\ IF root[r].aborted
     THEN /\ root' = [root EXCEPT ![r] = Ended(@, "failed")]
          /\ UNCHANGED op
     ELSE /\ root' = [root EXCEPT ![r].state = Joins(r)]
          /\ op' = [op EXCEPT ![r] = Subscribed(r, Root(r))]
  /\ UNCHANGED installed

-----------------------------------------------------------------------------
(* runInstallResourceWithDependencies and the install of one resource.       *)

Goes(r, x) == op' = [op EXCEPT ![r] = x] /\ UNCHANGED <<installed, root>>

Plan(r) ==
  /\ op[r].phase = "planning" /\ ~op[r].aborted
  /\ Goes(r, [op[r] EXCEPT !.phase = "deps", !.todo = Requires[r] \ installed])

Fails(r) ==                    \* an error, or throwIfAborted
  /\ op[r].phase \in {"planning", "deps", "committing"}
  /\ Settle(r, "failed", installed)

SkipDependency(r, d) ==
  /\ op[r].phase = "deps" /\ ~op[r].aborted
  /\ d \in op[r].todo /\ d \in installed
  /\ Goes(r, [op[r] EXCEPT !.todo = @ \ {d}])

RequestDependency(r, d) ==
  /\ op[r].phase = "deps" /\ ~op[r].aborted
  /\ d \in op[r].todo /\ d \notin installed /\ d \notin op[r].visiting
  /\ op' = [op EXCEPT ![d] = Subscribed(d, Context(r)),
                      ![r] = [op[r] EXCEPT !.phase = Joins(d), !.dep = d,
                                           !.todo = @ \ {d}]]
  /\ UNCHANGED <<installed, root>>

DependencyCycle(r, d) ==       \* Resource dependency cycle detected
  /\ op[r].phase = "deps" /\ ~op[r].aborted
  /\ d \in op[r].todo /\ d \notin installed /\ d \in op[r].visiting
  /\ Settle(r, "failed", installed)

DependencyAnswered(r) ==
  /\ op[r].phase = "answered"
  /\ IF op[r].got = "ok" /\ ~op[r].aborted
     THEN Goes(r, [op[r] EXCEPT !.phase = "deps", !.got = "none"])
     ELSE Settle(r, IF op[r].got = "ok" THEN "failed" ELSE op[r].got, installed)

BeginCommit(r) ==              \* downloaded, staged; assertCommitCanStart
  /\ op[r].phase = "deps" /\ op[r].todo = {} /\ ~op[r].aborted
  /\ Goes(r, [op[r] EXCEPT !.phase = "committing"])

WriteManifest(r) ==            \* mutateManifest, registerManagedInstallation
  /\ op[r].phase = "committing" /\ ~op[r].aborted
  /\ installed' = installed \union {r}
  /\ op' = [op EXCEPT ![r].phase = "written"]
  /\ UNCHANGED root

(* Mistaken variant: an abort that arrives during the write is not noticed. *)
CommitUnchecked(r) ==
  /\ op[r].phase = "written"
  /\ IF op[r].aborted THEN Settle(r, "failed", installed)
     ELSE Goes(r, [op[r] EXCEPT !.phase = "committed"])

CommitChecked(r) ==            \* signal.aborted after the write; markCommitted
  /\ op[r].phase = "written"
  /\ Goes(r, [op[r] EXCEPT !.phase = IF op[r].aborted THEN "restoring"
                                     ELSE "committed"])

RestoreManifest(r) ==
  /\ op[r].phase = "restoring"
  /\ Settle(r, "failed", IF op[r].had THEN installed ELSE installed \ {r})

RestoreFails(r) ==
  /\ op[r].phase = "restoring"
  /\ Settle(r, "restore", installed)

Finish(r) ==
  /\ op[r].phase = "committed"
  /\ Settle(r, "ok", installed)

-----------------------------------------------------------------------------
(* Cancellation runs without an await until every abort signal is delivered: *)
(* operations U are cancelled, roots R aborted, and cancelUnownedOperation    *)
(* cancels in turn each operation that is left without a live subscriber.     *)

(* Mistaken variant: nobody asks whether others still want the work. *)
WantedNever(d, X, R) == FALSE

(* hasOtherLiveSubscriber, once roots R and operations X are aborted. *)
Wanted(d, X, R) ==
  \E s \in op[d].subs : ~Aborted(s) /\ s \notin {Root(r) : r \in R}
                        /\ s \notin {Context(x) : x \in X}

Cascade(U, R) ==               \* the least set of operations to abort
  LET Closed(X) == /\ U \subseteq X
                   /\ \A d \in Resources : Running(d) => d \in X \/ Wanted(d, X, R)
  IN  {d \in Resources : \A X \in SUBSET Resources : Closed(X) => d \in X}

Abort(U, R) ==
  LET X == Cascade(U, R)
      Left(x) == /\ x \in X /\ op[x].phase = "joined"
                 /\ Wanted(op[x].dep, X, R)
      leavers == {Context(x) : x \in {y \in Resources : Left(y)}}
                   \union {Root(r) : r \in R}
      RootLeaves(r) == root[r].state = "joined" /\ Wanted(r, X, R)
  IN  /\ op' = [x \in Resources |->
                 LET y == [op[x] EXCEPT !.aborted = @ \/ x \in X,
                             !.subs = IF Wanted(x, X, R) THEN @ \ leavers ELSE @]
                 IN  IF Left(x)
                     THEN [y EXCEPT !.phase = "answered", !.got = "failed",
                                    !.dep = NoResource]
                     ELSE y]
      /\ root' = [r \in Resources |->
                   IF r \notin R THEN root[r]
                   ELSE IF RootLeaves(r)
                   THEN [NoRoot EXCEPT !.told = "cancelled", !.left = TRUE]
                   ELSE [root[r] EXCEPT !.aborted = TRUE]]
      /\ UNCHANGED installed

CancelRoot(r) ==               \* cancelAndWait, performRootCancellation
  /\ root[r].state # "none" /\ ~root[r].aborted /\ ~root[r].late
  /\ IF root[r].state = "joined" /\ op[r].phase = "committed"
     THEN /\ root' = [root EXCEPT ![r].late = TRUE]
          /\ UNCHANGED <<installed, op>>
     ELSE Abort({}, {r})

(* cancelOperationAndWait: the operation and everyone who depends on it. *)
Dependents(r) ==
  LET Closed(X) == r \in X /\ \A d \in X, p \in Resources :
                                Context(p) \in op[d].subs => p \in X
  IN  {d \in Resources : \A X \in SUBSET Resources : Closed(X) => d \in X}

CancelOperation(r) ==          \* no root of its own, not committed
  /\ root[r].state = "none" /\ Running(r)
  /\ Abort(Dependents(r), {q \in Resources : \E d \in Dependents(r) :
                                                Root(q) \in op[d].subs})

-----------------------------------------------------------------------------
TaskStep(r) == \/ Plan(r) \/ Fails(r) \/ BeginCommit(r) \/ WriteManifest(r)
               \/ CommitChecked(r) \/ RestoreManifest(r) \/ RestoreFails(r)
               \/ Finish(r) \/ DependencyAnswered(r)
               \/ \E d \in Resources : \/ SkipDependency(r, d)
                                       \/ RequestDependency(r, d)
                                       \/ DependencyCycle(r, d)

Next == \E r \in Resources : \/ Install(r) \/ RootResolves(r) \/ TaskStep(r)
                             \/ CancelRoot(r) \/ CancelOperation(r)

Spec == Init /\ [][Next]_vars

(* Downloads, extractions, file writes and the registry request end, well or *)
(* badly; no timer and no user is needed.                                    *)
LiveSpec == /\ Spec
            /\ \A r \in Resources : WF_vars(RootResolves(r)) /\ WF_vars(TaskStep(r))

-----------------------------------------------------------------------------
(* The type invariant: every variable keeps its shape, and a task waits for   *)
(* a dependency exactly while it is queued for one or subscribed to one.      *)
TypeOK == /\ installed \subseteq Resources
          /\ root \in [Resources -> RootInstall]
          /\ op \in [Resources -> SharedInstall]
          /\ \A r \in Resources :
               op[r].dep # NoResource <=> op[r].phase \in {"queued", "joined"}

(* Work goes on while an install that nobody cancelled needs it, directly or  *)
(* through other operations, and is aborted as soon as none does: cancelling  *)
(* one install neither stops another's dependency nor leaves its own behind.  *)
AbortedIffUnwanted ==
  \A r \in Resources :
    InFlight(r) /\ op[r].phase # "committed"
      => (op[r].aborted <=> \A s \in op[r].subs : Aborted(s))

(* What a cancellation reports is what happened to the installation: "too     *)
(* late" and success leave the resource registered; "cancelled" leaves it as   *)
(* it was, unless other installs kept the work, even if the abort came while   *)
(* the manifest was being written.                                           *)
HonestCancellation ==
  [][\A r \in Resources :
       root[r].state = "joined" /\ root'[r].state = "none" =>
         LET told == root'[r].told IN
         /\ told \in {"installed", "too_late"} => r \in installed'
         /\ told = "cancelled" /\ ~root'[r].left => (r \in installed' => op[r].had)]_vars

(* Every install ends, cancelled or not, also one that had to wait for the    *)
(* cancelled operation before it to stop.  (If no dependency cycle exists.)   *)
InstallEnds ==
  \A r \in Resources : (root[r].state # "none") ~> (root[r].state = "none")

(* "Use Install on a resource card to install it and its required             *)
(* dependencies": what is committed has all its dependencies installed.       *)
DependenciesInstalled ==
  \A r \in Resources : op[r].phase = "committed" => Requires[r] \subseteq installed
=============================================================================
