----------------------------- MODULE EccRuntime -----------------------------
(***************************************************************************)
(* EccCliRuntimeService (services/eccCli/runtimeService.ts) for one        *)
(* Workspace: how a run of the detached `ecc` CLI is started, registered,  *)
(* adopted, observed through two files and declared terminal.              *)
(*                                                                         *)
(* The service shares no lock with the ECC processes.  All it sees is the  *)
(* Project Manifest's runtime_processes entry of the Workspace, the        *)
(* Workspace's flow.json, and the 'exit' event of a child it spawned.  An  *)
(* await in the code is a point where any other action may happen.         *)
(***************************************************************************)
EXTENDS Naturals, FiniteSets

CONSTANTS Runs,         \* run ids (randomUUID), of Studio and of terminals
          Trackers,     \* TrackedOperation objects
          NoRun, NoTracker,
          InitialFlows, \* classes flow.json may have before any run
          WrittenFlows, \* bound: classes a run writes
          MaxWrites,    \* bound: versions of flow.json
          MaxReads,     \* bound: refreshes of one tracker in flight
          MaxAdopts     \* bound: concurrent adoptions of one run

ASSUME ConstantsAssumption == /\ NoRun \notin Runs
                              /\ NoTracker \notin Trackers
                              /\ InitialFlows \subseteq {"Unstart", "Success",
                                                  "Failed", "Interrupted"}
                              /\ WrittenFlows \subseteq {"Ongoing", "Success",
                                                  "Failed", "Interrupted"}
                              /\ MaxWrites \in Nat /\ MaxReads \in Nat
                              /\ MaxAdopts \in Nat

VARIABLES
  proc,        \* proc[r]: the ECC process of run r
  entry,       \* runtime_processes[workspace].run_id in project.json
  flow,        \* home/flow.json: the class of its steps and a write count
  operations,  \* operations[r]: the service's Map, run id -> tracker
  trk,         \* trk[t]: the TrackedOperation and its startOperation call
  reads,       \* reads[t]: the calls of refreshOperation(t) in flight
  planning,    \* start calls suspended in `await firstFlowStep(session)`
  adopting     \* adopting[r]: adoptions in `await processIsAlive`: inspecting,
               \* or with the answer that the process is alive on its way back

env  == <<proc, entry, flow>>
vars == <<proc, entry, flow, operations, trk, reads, planning, adopting>>

(***************************************************************************)
(* "rejected" is a process that exited before it registered; "exited" with *)
(* entry = r is a crash that left the registration behind.                 *)
(***************************************************************************)
ProcStates == {"none", "starting", "registered", "settled", "closed",
               "exited", "rejected"}
FlowStates == {"Unstart", "Ongoing", "Success", "Failed", "Interrupted"}
TerminalStates == {"succeeded", "failed", "cancelled", "interrupted"}
StartSteps == {"none", "spawning", "handshake", "ready", "done", "failed",
               "adopted"}

Flow == [state : FlowStates, ver : Nat]
NoFlow == [state |-> "unread", ver |-> 0]
Read == [current : BOOLEAN,
         man     : {"unread", "mine", "other"},
         flow    : Flow \union {NoFlow}]
Tracker == [run : Runs \union {NoRun},
            state : {"absent", "running"} \union TerminalStates,
            pending : BOOLEAN,     \* registrationPending
            cancel : BOOLEAN,      \* requestedCancel
            live : BOOLEAN,        \* watcher and poller attached
            announced : BOOLEAN,   \* outcome published, waiters resolved
            shown : Nat,           \* version of the projected flow
            start : StartSteps,    \* where its startOperation call is
            rerun : BOOLEAN,       \* started through the --from gap
            child : {"none", "watched", "seen", "lost"}]  \* 'exit' event

Adoption   == [asked : Nat, alive : Nat]
NoAdoption == [asked |-> 0, alive |-> 0]

NewTracker(r, step, isPending, isRerun) ==
  [run |-> r, state |-> "running", pending |-> isPending, cancel |-> FALSE,
   live |-> step = "adopted", announced |-> FALSE, shown |-> 0,
   start |-> step, rerun |-> isRerun, child |-> "none"]

Absent == [run |-> NoRun, state |-> "absent", pending |-> FALSE,
           cancel |-> FALSE, live |-> FALSE, announced |-> FALSE, shown |-> 0,
           start |-> "none", rerun |-> FALSE, child |-> "none"]

Gone(r)     == proc[r] \in {"exited", "rejected"}
Active(r)   == operations[r] # NoTracker /\ trk[operations[r]].state = "running"
isWorkspaceRuntimeActive == \E r \in Runs : Active(r)

Becomes(t, x) == trk' = [trk EXCEPT ![t] = x]

(* Mistaken variant: the flow class is reported without being translated. *)
terminalStateUntranslated(state, cancelled) ==
  IF cancelled THEN "cancelled" ELSE state

(* The class of a flow decides the outcome unless a cancel was requested. *)
terminalState(state, cancelled) ==
  IF cancelled THEN "cancelled"
  ELSE IF state = "Failed" THEN "failed"
  ELSE IF state \in {"Success", "Unstart"} THEN "succeeded"
  ELSE "interrupted"

Init == /\ proc = [r \in Runs |-> "none"]
        /\ entry = NoRun
        /\ flow \in {[state |-> s, ver |-> 1] : s \in InitialFlows}
        /\ operations = [r \in Runs |-> NoTracker]
        /\ trk = [t \in Trackers |-> Absent]
        /\ reads = [t \in Trackers |-> {}]
        /\ planning = {}
        /\ adopting = [r \in Runs |-> NoAdoption]

-----------------------------------------------------------------------------
(* The ECC CLI (external): a run registers if no live run is registered,    *)
(* writes flow.json, unregisters, exits; it may be refused or crash.        *)

service == <<operations, trk, reads, planning, adopting>>
SetFlow(s) == flow' = [state |-> s, ver |-> flow.ver + 1]

TerminalStartsRun(r) ==          \* `ecc run` in a terminal
  /\ proc[r] = "none" /\ r \notin planning
  /\ \A t \in Trackers : trk[t].run # r
  /\ proc' = [proc EXCEPT ![r] = "starting"]
  /\ UNCHANGED <<entry, flow, service>>

CliRegisters(r) ==
  /\ proc[r] = "starting"
  /\ entry \in {NoRun} \union {s \in Runs : Gone(s)}
  /\ proc' = [proc EXCEPT ![r] = "registered"]
  /\ entry' = r
  /\ UNCHANGED <<flow, service>>

CliRefused(r) ==
  /\ proc[r] = "starting"
  /\ proc' = [proc EXCEPT ![r] = "rejected"]
  /\ UNCHANGED <<entry, flow, service>>

CliWritesFlow(r, s) ==
  /\ proc[r] = "registered" /\ flow.ver < MaxWrites
  /\ SetFlow(s)
  /\ proc' = [proc EXCEPT ![r] = IF s = "Ongoing" THEN @ ELSE "settled"]
  /\ UNCHANGED <<entry, service>>

CliUnregisters(r) ==             \* from "registered": nothing was left to do
  /\ proc[r] \in {"registered", "settled"}
  /\ proc' = [proc EXCEPT ![r] = "closed"]
  /\ entry' = NoRun
  /\ UNCHANGED <<flow, service>>

CliExits(r) ==                   \* normally, or by a crash
  /\ proc[r] \in {"registered", "settled", "closed"}
  /\ proc' = [proc EXCEPT ![r] = "exited"]
  /\ UNCHANGED <<entry, flow, service>>

(* `ecc process reconcile`: clears the registration a dead run left behind. *)
ProcessReconcile(r) ==
  IF entry = r /\ Gone(r)
  THEN /\ entry' = NoRun
       /\ IF flow.state = "Ongoing" /\ flow.ver < MaxWrites
          THEN SetFlow("Interrupted") ELSE UNCHANGED flow
       /\ UNCHANGED proc
  ELSE UNCHANGED env

(* `ecc process inspect` exits 0: the run is registered and its process lives *)
processIsAlive(r) == entry = r /\ ~Gone(r)

-----------------------------------------------------------------------------
(* refreshOperation: ++refreshSequence, then two independent file reads.    *)
(* `current` stands for refreshSequence === tracked.refreshSequence.        *)

Fresh == [current |-> TRUE, man |-> "unread", flow |-> NoFlow]
(* Mistaken variant: no refreshSequence, so an older refresh stays current. *)
SupersededNever(S) == S
Superseded(S) == {[q EXCEPT !.current = FALSE] : q \in S}

BeginRefresh(t, tracker) ==      \* tracker: the value of trk[t] at the call
  IF tracker.state = "running"
  THEN /\ Cardinality(reads[t]) < MaxReads
       /\ reads' = [reads EXCEPT ![t] = Superseded(@) \union {Fresh}]
  ELSE UNCHANGED reads

ReadManifest(t, q) ==
  /\ q \in reads[t] /\ q.man = "unread"
  /\ LET seen == IF entry = trk[t].run THEN "mine" ELSE "other"
     IN  reads' = [reads EXCEPT ![t] = (@ \ {q}) \union {[q EXCEPT !.man = seen]}]
  /\ UNCHANGED <<env, operations, trk, planning, adopting>>

ReadFlow(t, q) ==
  /\ q \in reads[t] /\ q.flow = NoFlow
  /\ reads' = [reads EXCEPT ![t] = (@ \ {q}) \union {[q EXCEPT !.flow = flow]}]
  /\ UNCHANGED <<env, operations, trk, planning, adopting>>

ReadFails(t, q) ==
  /\ q \in reads[t] /\ (q.man = "unread" \/ q.flow = NoFlow)
  /\ reads' = [reads EXCEPT ![t] = @ \ {q}]
  /\ UNCHANGED <<env, operations, trk, planning, adopting>>

(* Mistaken variant: a finished flow settles a run that is still registered. *)
ProjectedEarly(x, q) ==
  IF q.man = "mine" /\ q.flow.state # "Success"
  THEN [x EXCEPT !.shown = q.flow.ver, !.pending = FALSE]
  ELSE [x EXCEPT !.shown = q.flow.ver, !.pending = FALSE,
                 !.state = terminalState(q.flow.state, x.cancel)]

(* What a refresh that is still current makes of tracker x. *)
Projected(x, q) ==
  IF q.man = "mine" THEN [x EXCEPT !.shown = q.flow.ver, !.pending = FALSE]
  ELSE IF x.pending THEN [x EXCEPT !.shown = q.flow.ver]
  ELSE [x EXCEPT !.shown = q.flow.ver,
                 !.state = terminalState(q.flow.state, x.cancel)]

(* Mistaken variant: the checks after the awaited reads are dropped. *)
FinishRefreshUnchecked(t, q) ==
  /\ q \in reads[t] /\ q.man # "unread" /\ q.flow # NoFlow
  /\ reads' = [reads EXCEPT ![t] = @ \ {q}]
  /\ Becomes(t, Projected(trk[t], q))
  /\ UNCHANGED <<env, operations, planning, adopting>>

FinishRefresh(t, q) ==
  /\ q \in reads[t] /\ q.man # "unread" /\ q.flow # NoFlow
  /\ reads' = [reads EXCEPT ![t] = @ \ {q}]
  /\ IF q.current /\ trk[t].state = "running"
     THEN Becomes(t, Projected(trk[t], q))
     ELSE UNCHANGED trk
  /\ UNCHANGED <<env, operations, planning, adopting>>

(* After `await tracked.watcher?.close()`: outcome, waiters, terminal event. *)
AnnounceOutcome(t) ==
  /\ trk[t].state \in TerminalStates /\ ~trk[t].announced
  /\ Becomes(t, [trk[t] EXCEPT !.announced = TRUE, !.live = FALSE])
  /\ UNCHANGED <<env, operations, reads, planning, adopting>>

-----------------------------------------------------------------------------
(* startOperation *)

Track(r, t, isRerun) ==
  /\ trk[t].state = "absent"
  /\ Becomes(t, NewTracker(r, "spawning", TRUE, isRerun))
  /\ operations' = [operations EXCEPT ![r] = t]

Unused(r) == /\ proc[r] = "none" /\ r \notin planning
             /\ \A t \in Trackers : trk[t].run # r

(* Mistaken variant: the WORKSPACE_BUSY check is dropped. *)
StartPlainUnchecked(r, t) ==
  /\ Unused(r)
  /\ Track(r, t, FALSE)
  /\ UNCHANGED <<env, reads, planning, adopting>>

StartPlain(r, t) ==              \* no await between the check and the set
  /\ Unused(r) /\ ~isWorkspaceRuntimeActive
  /\ Track(r, t, FALSE)
  /\ UNCHANGED <<env, reads, planning, adopting>>

StartRerun(r) ==                 \* suspended in `await firstFlowStep(session)`
  /\ Unused(r) /\ ~isWorkspaceRuntimeActive
  /\ planning' = planning \union {r}
  /\ UNCHANGED <<env, operations, trk, reads, adopting>>

RerunPlanned(r, t) ==
  /\ r \in planning
  /\ planning' = planning \ {r}
  /\ Track(r, t, TRUE)
  /\ UNCHANGED <<env, reads, adopting>>

SpawnFails(t) ==                 \* spawnDetached throws: no launch, no log file
  /\ trk[t].start = "spawning" /\ proc[trk[t].run] = "none"
  /\ Becomes(t, [trk[t] EXCEPT !.start = "failed"])
  /\ UNCHANGED <<env, operations, reads, planning, adopting>>

ChildSpawned(t) ==
  /\ trk[t].start = "spawning" /\ proc[trk[t].run] = "none"
  /\ proc' = [proc EXCEPT ![trk[t].run] = "starting"]
  /\ UNCHANGED <<entry, flow, service>>

(* child.once('exit') is attached after `await logHandle.close()`; an exit   *)
(* in between may already have been emitted.                                *)
SpawnReturns(t) ==
  /\ trk[t].start = "spawning" /\ proc[trk[t].run] # "none"
  /\ \E event \in IF Gone(trk[t].run) THEN {"watched", "lost"} ELSE {"watched"} :
       Becomes(t, [trk[t] EXCEPT !.start = "handshake", !.child = event])
  /\ UNCHANGED <<env, operations, reads, planning, adopting>>

ChildExits(t) ==                 \* the 'exit' listener
  /\ trk[t].child = "watched" /\ Gone(trk[t].run)
  /\ Becomes(t, [trk[t] EXCEPT !.child = "seen", !.pending = FALSE])
  /\ BeginRefresh(t, trk[t])
  /\ UNCHANGED <<env, operations, planning, adopting>>

HandshakeMatches(t) ==
  /\ trk[t].start = "handshake" /\ entry = trk[t].run
  /\ Becomes(t, [trk[t] EXCEPT !.start = "ready", !.pending = FALSE, !.live = TRUE])
  /\ UNCHANGED <<env, operations, reads, planning, adopting>>

HandshakeGivesUp(t) ==           \* 30 s, or an unreadable manifest
  /\ trk[t].start = "handshake" /\ trk[t].child # "seen"
  /\ Becomes(t, [trk[t] EXCEPT !.start = "ready", !.live = TRUE])
  /\ UNCHANGED <<env, operations, reads, planning, adopting>>

HandshakeAborts(t) ==            \* ECC_RUN_START_FAILED
  /\ trk[t].start = "handshake" /\ trk[t].child = "seen"
  /\ operations' = [operations EXCEPT ![trk[t].run] = NoTracker]
  /\ Becomes(t, [trk[t] EXCEPT !.start = "failed"])
  /\ UNCHANGED <<env, reads, planning, adopting>>

WatcherReady(t) ==               \* after `await watcher.ready`
  /\ trk[t].start = "ready"
  /\ Becomes(t, [trk[t] EXCEPT !.start = "done"])
  /\ IF trk[t].live THEN BeginRefresh(t, trk[t]) ELSE UNCHANGED reads
  /\ UNCHANGED <<env, operations, planning, adopting>>

-----------------------------------------------------------------------------
(* restoreRegisteredOperation, run by openWorkspace and by every             *)
(* reconcileOperationProjection; nothing makes those calls exclusive.       *)

Adoptions(r)  == adopting[r].asked + adopting[r].alive
WasNamed(r)   == proc[r] \in {"registered", "settled", "closed", "exited"}
InspectEnds(r, x) == adopting' = [adopting EXCEPT ![r] =
                                   [asked |-> @.asked - 1, alive |-> @.alive + x]]

(* Mistaken variant: a run that is tracked already is adopted again. *)
AdoptBeginUnchecked(r) ==
  /\ WasNamed(r)
  /\ Adoptions(r) < MaxAdopts
  /\ adopting' = [adopting EXCEPT ![r].asked = @ + 1]
  /\ UNCHANGED <<env, operations, trk, reads, planning>>

AdoptBegin(r) ==                 \* openWorkspace read the manifest awaits ago
  /\ WasNamed(r) /\ operations[r] = NoTracker
  /\ Adoptions(r) < MaxAdopts
  /\ adopting' = [adopting EXCEPT ![r].asked = @ + 1]
  /\ UNCHANGED <<env, operations, trk, reads, planning>>

InspectAlive(r) ==               \* `process inspect` exits 0, in its own process
  /\ adopting[r].asked > 0 /\ processIsAlive(r)
  /\ InspectEnds(r, 1)
  /\ UNCHANGED <<env, operations, trk, reads, planning>>

AdoptAlive(r, t) ==              \* the await returns, whatever holds by now
  /\ adopting[r].alive > 0
  /\ trk[t].state = "absent"
  /\ adopting' = [adopting EXCEPT ![r].alive = @ - 1]
  /\ Becomes(t, NewTracker(r, "adopted", FALSE, FALSE))
  /\ operations' = [operations EXCEPT ![r] = t]
  /\ UNCHANGED <<env, reads, planning>>

(* `process reconcile` instead of a tracker.  That a run is not alive stays  *)
(* true, so the answer and what follows from it are one step.               *)
AdoptDead(r) ==
  /\ adopting[r].asked > 0 /\ ~processIsAlive(r)
  /\ InspectEnds(r, 0)
  /\ ProcessReconcile(r)
  /\ UNCHANGED <<operations, trk, reads, planning>>

AdoptFails(r) ==                 \* `process inspect` itself failed
  /\ adopting[r].asked > 0
  /\ InspectEnds(r, 0)
  /\ UNCHANGED <<env, operations, trk, reads, planning>>

-----------------------------------------------------------------------------
(* What else triggers a refresh, and cancellation *)

(* A file watcher event, or reconcileOperationProjection over operations. *)
Trigger(t) ==
  /\ trk[t].state = "running"
  /\ trk[t].live \/ operations[trk[t].run] = t
  /\ BeginRefresh(t, trk[t])
  /\ UNCHANGED <<env, operations, trk, planning, adopting>>

(* Mistaken variant: the poller never reconciles a dead registration. *)
inspectWithoutReconcile(t) ==
  /\ trk[t].live /\ trk[t].state = "running"
  /\ trk[t].pending => entry = trk[t].run
  /\ Becomes(t, [trk[t] EXCEPT !.pending = FALSE])
  /\ BeginRefresh(t, trk[t])
  /\ UNCHANGED <<env, operations, planning, adopting>>

inspectTrackedProcess(t) ==      \* the 5 s poller
  LET r == trk[t].run IN
  /\ trk[t].live /\ trk[t].state = "running"
  /\ trk[t].pending => entry = r
  /\ Becomes(t, [trk[t] EXCEPT !.pending = FALSE])
  /\ ProcessReconcile(r)
  /\ BeginRefresh(t, trk[t])
  /\ UNCHANGED <<operations, planning, adopting>>

cancelOperation(r) ==            \* flag first; the CLI may stop the run later
  /\ Active(r) /\ ~trk[operations[r]].cancel
  /\ Becomes(operations[r], [trk[operations[r]] EXCEPT !.cancel = TRUE])
  /\ UNCHANGED <<env, operations, reads, planning, adopting>>

-----------------------------------------------------------------------------
CliNext(r) == \/ TerminalStartsRun(r) \/ CliRegisters(r) \/ CliRefused(r)
              \/ \E s \in WrittenFlows : CliWritesFlow(r, s)
              \/ CliUnregisters(r) \/ CliExits(r)

RunNext(r) == \/ \E t \in Trackers : StartPlain(r, t) \/ RerunPlanned(r, t)
              \/ StartRerun(r)
              \/ AdoptBegin(r) \/ InspectAlive(r) \/ AdoptDead(r) \/ AdoptFails(r)
              \/ \E t \in Trackers : AdoptAlive(r, t)
              \/ cancelOperation(r)

RefreshNext(t) == \/ \E q \in reads[t] : \/ ReadManifest(t, q) \/ ReadFlow(t, q)
                                         \/ ReadFails(t, q) \/ FinishRefresh(t, q)
                  \/ AnnounceOutcome(t)

StartNext(t) == \/ SpawnFails(t) \/ ChildSpawned(t) \/ SpawnReturns(t)
                \/ ChildExits(t) \/ HandshakeMatches(t) \/ HandshakeGivesUp(t)
                \/ HandshakeAborts(t) \/ WatcherReady(t)

Next == \/ \E r \in Runs : CliNext(r) \/ RunNext(r)
        \/ \E t \in Trackers : \/ RefreshNext(t) \/ StartNext(t)
                               \/ Trigger(t) \/ inspectTrackedProcess(t)

Spec == Init /\ [][Next]_vars

-----------------------------------------------------------------------------
(* The type invariant: every variable keeps the shape declared for it above. *)
TypeOK == /\ proc \in [Runs -> ProcStates]
          /\ entry \in Runs \union {NoRun}
          /\ flow \in Flow
          /\ operations \in [Runs -> Trackers \union {NoTracker}]
          /\ trk \in [Trackers -> Tracker]
          /\ reads \in [Trackers -> SUBSET Read]
          /\ planning \subseteq Runs
          /\ adopting \in [Runs -> Adoption]

(* The flow an operation projects to the renderer never goes back to an     *)
(* older version of flow.json, although refreshes triggered by watcher,      *)
(* poller, exit event and panel overlap and their reads finish in any order. *)
ProjectionNeverGoesBack ==
  [][\A t \in Trackers : trk[t].shown <= trk'[t].shown]_vars

(* An operation adopted from the manifest is never declared terminal while   *)
(* its ECC process still holds the registration: "wait for the terminal      *)
(* state" really means that execution has stopped.                           *)
AdoptedTerminalMeansStopped ==
  \A t \in Trackers :
    trk[t].start = "adopted" /\ trk[t].state \in TerminalStates
      => proc[trk[t].run] \in {"closed", "exited"}

(* A run whose start was reported failed, or whose outcome is known, is not   *)
(* tracked again while it holds its registration, however late an adoption of *)
(* it resumes.  An 'alive' that was answered before the run ended may track   *)
(* it again only when it is over, which the poller of that operation finds.   *)
NoResurrection ==
  [][\A t, u \in Trackers :
       /\ trk[t].state = "absent" /\ trk'[t].state = "running"
       /\ trk[u].run = trk'[t].run
       => \/ trk[u].state = "running" /\ trk[u].start # "failed"
          \/ /\ trk'[t].start = "adopted"
             /\ proc[trk[u].run] \in {"closed", "exited"}]_vars

(* Two starts that took the path without an await between the WORKSPACE_BUSY *)
(* check and the registration in `operations` are never active together.     *)
PlainStartsExclude ==
  \A r, s \in Runs :
    /\ Active(r) /\ trk[operations[r]].start # "adopted" /\ ~trk[operations[r]].rerun
    /\ Active(s) /\ trk[operations[s]].start # "adopted" /\ ~trk[operations[s]].rerun
    => r = s

(* Every operation settles once and announces that outcome once.             *)
Lifecycle == INSTANCE OperationLifecycle
               WITH Ids <- Trackers, Outcomes <- TerminalStates,
                    state <- [t \in Trackers |-> trk[t].state],
                    announced <- [t \in Trackers |-> trk[t].announced]
LifecycleSpec == Lifecycle!Spec

-----------------------------------------------------------------------------
(* Inductive invariants behind the safety properties (EccRuntimeProofs).     *)

(* Of the refreshes in flight at most one is current, and what it read is no *)
(* older than what the tracker already shows.                               *)
ReadsOrdered(t) ==
  /\ trk[t].shown <= flow.ver
  /\ \A q \in reads[t] :
       q.flow # NoFlow => /\ q.flow.ver <= flow.ver
                          /\ q.current => trk[t].shown <= q.flow.ver
  /\ \A p, q \in reads[t] : p.current /\ q.current => p = q

(* A live registered process is the one the manifest names, and the manifest *)
(* names nobody who never registered.                                       *)
Registration(r) ==
  /\ proc[r] \in {"registered", "settled"} => entry = r
  /\ entry = r => proc[r] \in {"registered", "settled", "exited"}

(* An adopted run was seen registered; a refresh that reads another entry, or *)
(* none, knows that it has unregistered.                                    *)
AdoptionKnown(t) ==
  trk[t].start = "adopted" =>
    /\ trk[t].run \in Runs
    /\ proc[trk[t].run] \in {"registered", "settled", "closed", "exited"}
    /\ \/ trk[t].state \in TerminalStates
       \/ \E q \in reads[t] : q.man = "other"
       => proc[trk[t].run] \in {"closed", "exited"}

(* Nothing is in flight for a tracker that does not exist. *)
AbsentIsQuiet(t) == trk[t].state = "absent" => trk[t] = Absent /\ reads[t] = {}

-----------------------------------------------------------------------------
(* Liveness.  The 5 s poller fires again and again while it is attached, and *)
(* file reads finish.  ReadsKeepUp is the timing the code relies on: from     *)
(* some time on both files are readable, and the reads of one refresh take    *)
(* less than the time to the next watcher, panel or poller trigger.           *)
Calm(t) == \A q \in reads[t] : ~q.current

ReadStep(t, isCurrent) ==
  \E q \in reads[t] : /\ q.current = isCurrent
                      /\ \/ ReadManifest(t, q) \/ ReadFlow(t, q)
                         \/ FinishRefresh(t, q)
PollStep(t) == Calm(t) /\ inspectTrackedProcess(t)

Fairness == \A t \in Trackers : /\ \A c \in BOOLEAN : WF_vars(ReadStep(t, c))
                               /\ WF_vars(AnnounceOutcome(t))
                               /\ WF_vars(ChildExits(t))
                               /\ SF_vars(PollStep(t))

ReadsKeepUp ==
  <>[][\A t \in Trackers :
         /\ Trigger(t) \/ inspectTrackedProcess(t) => Calm(t)
         /\ \A q \in reads[t] : ~ReadFails(t, q)]_vars

LiveSpec == Spec /\ Fairness /\ ReadsKeepUp

(* An operation under observation whose ECC process is gone, by exit or by a *)
(* crash that left its registration, is eventually announced as terminal.    *)
GoneRunSettles ==
  \A t \in Trackers :
    (trk[t].live /\ Gone(trk[t].run) /\ trk[t].child # "lost")
      ~> trk[t].announced
=============================================================================
