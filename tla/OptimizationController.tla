------------------------- MODULE OptimizationController -------------------------
(***************************************************************************)
(* One Optimization Episode of the agent: the thread that runs its turns   *)
(* (gui/provider_optimization_episode.py and optimization/runner.py), its  *)
(* controller (optimization/controller*.py), the durable ledger and state  *)
(* snapshot (ledger.py, controller._persist), its cases (controller_cases  *)
(* and knowledge/cases.py), and the candidate operations that ECC executes *)
(* (ecc/adapter.py, runtime_waiting.py).                                   *)
(*                                                                         *)
(* The thread's steps are atomic between two durable writes or two waits.  *)
(* The user and the host set its flags at any time, ECC finishes an        *)
(* operation at any time, and the process may die between any two steps    *)
(* or within a write to the ledger; the episode is then launched again.    *)
(***************************************************************************)
EXTENDS Naturals, Sequences, FiniteSets

CONSTANTS
  Slots,            \* max_in_flight_candidates
  CandidateLimit,   \* EpisodeBudget.candidate_execution_limit
  PlanLimit,        \* EpisodeBudget.planning_call_limit
  MaxIdleTurns,     \* EpisodeBudget.max_planning_only_turns
  Controls,         \* which of "stop", "pause", "drain", "clock" occur
  MaxLaunches       \* bound: launches of the episode after the first

ASSUME ControllerAssumption ==
  /\ Slots \in Nat \ {0} /\ CandidateLimit \in Nat \ {0} /\ PlanLimit \in Nat \ {0}
  /\ MaxIdleTurns \in Nat /\ MaxLaunches \in Nat
  /\ Controls \subseteq {"stop", "pause", "drain", "clock"}

VARIABLES
  pc,          \* where the episode's thread is; "down": no process
  next,        \* after "persist": where the thread goes on
  ctl,         \* the controller's memory
  entry,       \* <<e>> while e is being appended to the ledger
  reply,       \* what ECC answered to the start of entry
  phase,       \* final_phase, as reported when the thread ends
  stop,        \* session.optimization_stop and the runner's stop event
  paused,      \* session.optimization_pause
  held,        \* the argument `paused` of the current turn
  drain,       \* session.optimization_shutdown
  wasPaused,   \* session.optimization_shutdown_was_paused
  ledger,      \* the complete records of optimization-outcomes.v1.jsonl
  tail,        \* <<>>, or the last line, which has no newline
  snap,        \* optimization-episode-state.v10.json
  auditAhead,  \* an audit has entries that the snapshot does not count
  cases,       \* the files of cases: "none" in the pool; some are "pooled";
               \* the last line of the pool or of the case audit is "torn"
  ops,         \* ops[i]: the ECC operation of intervention i
  launches

thread == <<pc, next, ctl, entry, reply, phase>>
flags == <<stop, paused, held, drain, wasPaused>>
disk == <<ledger, tail, snap, auditAhead, cases>>
vars == <<thread, flags, disk, ops, launches>>

Interventions == 1..CandidateLimit
Log == INSTANCE OutcomeLog WITH log <- ledger

States == {"created", "planning", "awaiting", "executing", "quarantined",
           "stopped", "escalated"}
Plannable == {"created", "planning", "executing", "awaiting"}
PCs == {"down", "top", "fill", "ask", "repair", "askRepair", "dispatch", "execute",
        "append", "unconfirmed", "record", "persist", "settle", "absorb", "cancelling", "after",
        "ended", "unrecoverable"}
Alive == pc \notin {"down", "ended", "unrecoverable"}

(* proposal holds the parent incumbent of the approved proposal, if any.    *)
Controller == [state : States, proposal : SUBSET (Interventions \union {0}),
               pending : SUBSET Interventions, consumed : 0..CandidateLimit,
               calls : 0..PlanLimit, late : BOOLEAN, idle : Nat,
               incumbent : Interventions \union {0}]
NewController == [state |-> "created", proposal |-> {}, pending |-> {},
                  consumed |-> 0, calls |-> 0, late |-> FALSE, idle |-> 0,
                  incumbent |-> 0]

ExhaustedLate(c) == c.consumed = CandidateLimit \/ c.calls > PlanLimit \/ c.late
Exhausted(c) == c.consumed = CandidateLimit \/ c.calls = PlanLimit \/ c.late
HasSlot(c) == Cardinality(c.pending) < Slots
(* The state of an episode that has nothing approved and nothing to decide. *)
Resting(c) == IF c.pending = {} THEN "planning" ELSE "executing"
Oldest(S) == CHOOSE i \in S : \A j \in S : i <= j

Init ==
  /\ pc = "top" /\ next = "top" /\ ctl = NewController
  /\ entry = <<>> /\ reply = "none" /\ phase = "none"
  /\ stop = FALSE /\ paused = FALSE /\ held = FALSE /\ drain = FALSE
  /\ wasPaused = FALSE
  /\ ledger = <<>> /\ tail = <<>> /\ auditAhead = FALSE
  /\ cases \in {"none", "pooled"}    \* an earlier episode's, in the same pool
  /\ snap = [ctl |-> NewController, count |-> 0]
  /\ ops = [i \in Interventions |-> "none"]
  /\ launches = 0

Goes(p) == pc' = p /\ UNCHANGED <<next, ctl, entry, reply, phase, flags, disk, ops, launches>>
Ends(p) == /\ pc' = "ended" /\ phase' = p
           /\ UNCHANGED <<next, ctl, entry, reply, flags, disk, ops, launches>>

(* The controller becomes c; _persist follows, then the thread is at p.     *)
PersistsThen(c, p) == /\ ctl' = c /\ pc' = "persist" /\ next' = p
                      /\ UNCHANGED <<entry, reply, phase, flags, ops, launches>>
Persists(c, p) == PersistsThen(c, p) /\ UNCHANGED disk
(* The same after an entry was appended to the planning or decision audit.  *)
Audits(c, p) == /\ PersistsThen(c, p) /\ auditAhead' = TRUE
                /\ UNCHANGED <<ledger, tail, snap, cases>>

Persist ==
  /\ pc = "persist"
  /\ snap' = [ctl |-> ctl, count |-> Len(ledger)]
  /\ auditAhead' = FALSE
  /\ pc' = next /\ next' = "top"
  /\ UNCHANGED <<ctl, entry, reply, phase, flags, ledger, tail, cases, ops, launches>>

-----------------------------------------------------------------------------
(* The loop of the episode's thread (_run_optimization_episode) *)

Idle == ctl.pending = {}
FinalPhase == CASE ctl.state = "escalated" -> "error"
                [] ctl.state = "quarantined" -> "quarantined"
                [] ctl.state = "stopped" -> "stopped"
                [] OTHER -> "completed"

EndDrained == pc = "top" /\ drain /\ Idle /\ Ends("interrupted")

EndDecided == /\ pc = "top" /\ ~(drain /\ Idle) /\ ~stop
              /\ ctl.state \notin Plannable
              /\ Ends(FinalPhase)

(* finish_stop: the controller is stopped durably.                          *)
EndStopped ==
  /\ pc = "top" /\ ~(drain /\ Idle) /\ stop /\ Idle
  /\ ctl' = [ctl EXCEPT !.state = "stopped",
                        !.proposal = IF ctl.state = "awaiting" THEN {} ELSE @]
  /\ pc' = "persist" /\ next' = "ended" /\ phase' = "stopped"
  /\ UNCHANGED <<entry, reply, flags, disk, ops, launches>>

EndQuarantined == /\ pc = "top" /\ stop /\ ~Idle /\ ctl.state = "quarantined"
                  /\ Ends("quarantined")

(* An exception of the turn ends the thread (the except clause).            *)
Raises == Ends(IF stop /\ ctl.state # "executing" THEN "stopped" ELSE "error")

(* run_turn refuses a state in which nothing can be planned.                *)
TurnRefused == /\ pc = "top" /\ stop /\ ~Idle
               /\ ctl.state \in {"stopped", "escalated"}
               /\ Raises

(* An idle paused episode waits.                                            *)
TurnBegins == /\ pc = "top" /\ ctl.state \in Plannable
              /\ ~(drain /\ Idle) /\ ~(stop /\ Idle) /\ (paused => ~Idle)

StartTurn ==
  /\ TurnBegins
  /\ held' = paused
  /\ pc' = "fill"
  /\ UNCHANGED <<next, ctl, entry, reply, phase, stop, paused, drain, wasPaused,
                 disk, ops, launches>>

AfterTurn ==
  /\ pc = "after"
  /\ CASE ctl.state = "quarantined" -> Ends("quarantined")
       [] ctl.state # "quarantined" /\ stop /\ Idle -> Ends("stopped")
       [] ctl.state # "quarantined" /\ ~stop /\ drain /\ Idle -> Ends("interrupted")
       [] OTHER -> Goes("top")

-----------------------------------------------------------------------------
(* The fill phase of run_turn, and plan() *)

Filling == /\ pc = "fill" /\ ~stop /\ ~held
           /\ ctl.state \in Plannable /\ HasSlot(ctl)

FillEnds == pc = "fill" /\ ~Filling /\ Goes("settle")

FillRetries == Filling /\ ctl.state = "awaiting" /\ Goes("execute")

PlanExhausted ==
  /\ Filling /\ ctl.state # "awaiting" /\ Exhausted(ctl)
  /\ IF Idle THEN Persists([ctl EXCEPT !.state = "stopped", !.proposal = {}], "settle")
             ELSE Goes("settle")

PlanBegins ==
  /\ Filling /\ ctl.state # "awaiting" /\ ~Exhausted(ctl)
  /\ Audits([ctl EXCEPT !.state = IF Idle THEN "planning" ELSE @, !.calls = @ + 1], "ask")

Asking == pc \in {"ask", "askRepair"}

(* The knowledge base, the provider or the workspace's files fail.          *)
TurnRaises == (TurnBegins \/ Filling \/ Asking) /\ Raises

PlannerProposes ==
  /\ Asking
  /\ Audits([ctl EXCEPT !.proposal = {ctl.incumbent}, !.idle = 0, !.state = "awaiting"],
            "dispatch")

(* A stop is accepted after enough candidates. The approved proposal stays. *)
PlannerDecides ==
  /\ Asking
  /\ \E decision \in {"escalated", "stopped"} :
       Audits([ctl EXCEPT !.state = decision], "settle")

(* No legal action is left.                                                 *)
NothingToPropose ==
  /\ pc = "ask"
  /\ Audits([ctl EXCEPT !.state = "stopped", !.proposal = {}], "settle")

(* _defer_or_escalate                                                       *)
PlannerDefers ==
  /\ Asking
  /\ \E turns \in {0, ctl.idle + 1} :
       LET goesOn == turns < MaxIdleTurns /\ ctl.calls < PlanLimit /\ ~ctl.late
       IN Audits([ctl EXCEPT !.proposal = {}, !.idle = turns,
                    !.state = IF goesOn THEN Resting(ctl) ELSE "escalated"], "settle")

GivesUpPlanning == Audits([ctl EXCEPT !.proposal = {}, !.idle = @ + 1,
                                      !.state = "escalated"], "settle")

(* An answer that cannot be parsed is asked for once more, which is charged. *)
AnswerUnreadable ==
  \/ pc = "ask" /\ Audits(ctl, "repair")
  \/ Asking /\ GivesUpPlanning

RepairBeginsUnchecked ==
  pc = "repair" /\ Audits([ctl EXCEPT !.calls = @ + 1], "askRepair")
RepairBegins ==
  /\ pc = "repair"
  /\ IF ctl.calls = PlanLimit \/ ctl.late THEN GivesUpPlanning
     ELSE Audits([ctl EXCEPT !.calls = @ + 1], "askRepair")

-----------------------------------------------------------------------------
(* execute() *)

StopBeforeExecution ==
  /\ pc \in {"dispatch", "settle"} /\ stop /\ ctl.state = "awaiting"
  /\ Persists([ctl EXCEPT !.proposal = {},
                          !.state = IF Idle THEN "stopped" ELSE "executing"], "settle")

Dispatch == pc = "dispatch" /\ ~stop /\ Goes("execute")

FillAgain(c) == IF c.state = "executing" /\ HasSlot(c) THEN "fill" ELSE "settle"

(* A proposal of this turn ends the filling, one of an earlier turn does not. *)
ExecuteExhausted ==
  /\ pc = "execute" /\ Exhausted(ctl)
  /\ LET c == [ctl EXCEPT !.proposal = {}, !.state = IF Idle THEN "stopped" ELSE "executing"]
     IN \E p \in {"settle", FillAgain(c)} : Persists(c, p)

Stale == ctl.incumbent \notin ctl.proposal
ExecuteStale ==
  /\ pc = "execute" /\ ~Exhausted(ctl) /\ Stale
  /\ LET c == [ctl EXCEPT !.proposal = {}, !.state = Resting(ctl)]
     IN Persists(c, FillAgain(c))

Executing == pc = "execute" /\ ~Exhausted(ctl) /\ ~Stale

ExecuteBusyForever ==
  /\ Executing
  /\ Persists([ctl EXCEPT !.state = "awaiting"], "settle")
ExecuteBusy ==
  /\ Executing
  /\ Persists([ctl EXCEPT !.state = IF Idle THEN "planning" ELSE "awaiting"], "settle")

(* _next_intervention_id: the idempotency key of the operation.             *)
NextIntervention == Cardinality(Log!Started(ledger)) + 1

(* _register_started_candidate; append_start follows.                       *)
Registers(i, r) ==
  /\ entry' = <<Log!StartEntry(i)>> /\ reply' = r
  /\ ctl' = [ctl EXCEPT !.consumed = @ + 1, !.pending = @ \union {i}, !.proposal = {},
                        !.state = IF r = "accepted" THEN "executing" ELSE @]
  /\ pc' = "append"
  /\ next' = FillAgain(ctl')
  /\ UNCHANGED <<phase, flags, disk, launches>>

(* candidate.rerun under the key of an operation that exists returns it.    *)
ExecuteAccepted ==
  /\ Executing
  /\ LET i == NextIntervention
     IN /\ ops' = [ops EXCEPT ![i] = IF @ = "none" THEN "running" ELSE @]
        /\ Registers(i, IF ops[i] = "failed" THEN "failed" ELSE "accepted")

ExecuteFailedAtOnce ==
  /\ Executing /\ ops[NextIntervention] = "none"
  /\ ops' = [ops EXCEPT ![NextIntervention] = "failed"]
  /\ Registers(NextIntervention, "failed")

(* The call fails; ECC may have accepted it.                                *)
ExecuteLost ==
  /\ Executing
  /\ \E o \in {ops[NextIntervention]} \union
             (IF ops[NextIntervention] = "none" THEN {"running"} ELSE {}) :
       ops' = [ops EXCEPT ![NextIntervention] = o]
  /\ Registers(NextIntervention, "lost")

-----------------------------------------------------------------------------
(* _complete: a terminal outcome becomes durable, then changes the state *)

Merged(c, i, o) ==
  LET d == [c EXCEPT !.pending = @ \ {i}, !.incumbent = IF o = "improved" THEN i ELSE @]
  IN [d EXCEPT !.state = CASE o = "indeterminate" -> "quarantined"
                           [] o # "indeterminate" /\ d.proposal # {} -> "awaiting"
                           [] o # "indeterminate" /\ d.proposal = {} /\ d.pending # {} ->
                                "executing"
                           [] OTHER -> IF Exhausted(d) THEN "stopped" ELSE "planning"]

Merge(i, o, p) ==
  /\ entry' = <<Log!TerminalEntry(i, o)>>
  /\ ctl' = Merged(ctl, i, o)
  /\ pc' = "append" /\ next' = p /\ reply' = "none"
  /\ UNCHANGED <<phase, flags, disk, ops, launches>>

Unconfirmed ==
  /\ pc = "unconfirmed"
  /\ LET i == ledger[Len(ledger)].id
         o == IF reply = "lost" THEN "indeterminate" ELSE "other"
     IN Merge(i, o, FillAgain(Merged(ctl, i, o)))

(* append_start and append_terminal. A started candidate is persisted at    *)
(* once, any other start is completed first.                                *)
AppendEntry ==
  /\ pc = "append"
  /\ \E e \in {entry[k] : k \in DOMAIN entry} :
       /\ Log!Accepts(ledger, e)
       /\ ledger' = Append(ledger, e)
       /\ pc' = IF e.kind = "terminal" THEN "record"
                ELSE IF reply = "accepted" THEN "persist" ELSE "unconfirmed"
  /\ reply' = IF pc' = "unconfirmed" THEN reply ELSE "none"
  /\ entry' = <<>>
  /\ UNCHANGED <<next, ctl, phase, flags, tail, snap, auditAhead, cases, ops, launches>>

(* _record_empirical_case: a case goes to the pool and then to the case     *)
(* audit, a diagnostic to the audit alone, of which recovery expects that   *)
(* it is ahead of the snapshot. Modes without cases record nothing.         *)
RecordCase ==
  /\ pc = "record" /\ pc' = "persist"
  /\ cases' \in {cases, "pooled"}
  /\ UNCHANGED <<next, ctl, entry, reply, phase, flags, ledger, tail, snap, auditAhead,
                 ops, launches>>

(* It raises before the controller leaves the state it was in.              *)
RecordingRaises ==
  pc = "record" /\ \E p \in {"error"} \union (IF stop THEN {"stopped"} ELSE {}) : Ends(p)

-----------------------------------------------------------------------------
(* The wait phase of run_turn: one terminal is absorbed *)

Settle ==
  /\ pc = "settle" /\ ~(stop /\ ctl.state = "awaiting")
  /\ pc' = "absorb" /\ held' = FALSE
  /\ UNCHANGED <<next, ctl, entry, reply, phase, stop, paused, drain, wasPaused,
                 disk, ops, launches>>

AbsorbNothing == pc = "absorb" /\ Idle /\ Goes("after")

Waiting == pc \in {"absorb", "cancelling"}

(* Evidence decides whether the candidate becomes the incumbent.            *)
Collect(i) ==
  /\ Waiting /\ i \in ctl.pending
  /\ \/ ops[i] = "succeeded" /\ \E o \in {"improved", "other"} : Merge(i, o, "after")
     \/ ops[i] = "failed" /\ Merge(i, "other", "after")

(* A receipt without candidate evidence is an error of the turn.            *)
EvidenceMissing(i) ==
  /\ Waiting /\ i \in ctl.pending
  /\ ops[i] \in {"succeeded", "failed"}
  /\ Raises

(* The waiter raises: the oldest pending candidate is taken to be lost.     *)
WaitFails == /\ Waiting /\ ~Idle /\ ~stop
             /\ Merge(Oldest(ctl.pending), "indeterminate", "after")

(* On stop, or when the time to wait has passed. A call may fail.           *)
RequestCancels ==
  /\ pc = "absorb" /\ ~Idle
  /\ \E reached \in {ctl.pending} \union (IF stop THEN SUBSET ctl.pending ELSE {}) :
       ops' = [i \in Interventions |->
                 IF i \in reached /\ ops[i] = "running" THEN "cancelling" ELSE ops[i]]
  /\ pc' = "cancelling"
  /\ UNCHANGED <<next, ctl, entry, reply, phase, flags, disk, launches>>

GiveUpOnlyIfCancelled ==
  /\ pc = "cancelling" /\ ~Idle /\ ops[Oldest(ctl.pending)] = "failed"
  /\ Merge(Oldest(ctl.pending), "indeterminate", "after")
(* 60 seconds after the cancellation no terminal has arrived.               *)
GiveUp == /\ pc = "cancelling" /\ ~Idle
          /\ Merge(Oldest(ctl.pending), "indeterminate", "after")

(* The budget is read after its wall clock limit.                           *)
TimeRunsOut ==
  /\ "clock" \in Controls /\ ~ctl.late
  /\ pc \in {"fill", "execute", "repair", "absorb"}
  /\ ctl' = [ctl EXCEPT !.late = TRUE]
  /\ UNCHANGED <<pc, next, entry, reply, phase, flags, disk, ops, launches>>

-----------------------------------------------------------------------------
(* ECC *)

OpFinishes(i) ==
  /\ ops[i] \in {"running", "cancelling"}
  /\ \E o \in {"succeeded", "failed"} : ops' = [ops EXCEPT ![i] = o]
  /\ UNCHANGED <<thread, flags, disk, launches>>

-----------------------------------------------------------------------------
(* The user's controls and Safe Shutdown, which act while the thread is alive *)

Sets(c) == c \in Controls /\ Alive /\ UNCHANGED <<thread, held, disk, ops, launches>>

Pause == /\ Sets("pause") /\ paused' = TRUE /\ UNCHANGED <<stop, drain, wasPaused>>
Resume == /\ Sets("pause") /\ paused' = FALSE /\ UNCHANGED <<stop, drain, wasPaused>>

(* Stop also interrupts the provider: a turn that is asking it raises.      *)
RequestStop == /\ Sets("stop") /\ stop' = TRUE /\ UNCHANGED <<paused, drain, wasPaused>>

PrepareShutdown == /\ Sets("drain") /\ ~drain /\ drain' = TRUE /\ paused' = TRUE
                   /\ wasPaused' = paused /\ UNCHANGED stop
CancelShutdown == /\ Sets("drain") /\ drain /\ drain' = FALSE /\ paused' = wasPaused
                  /\ wasPaused' = FALSE /\ UNCHANGED stop

-----------------------------------------------------------------------------
(* The process dies; the episode is launched again and recovered *)

Lines(e) == {<<>>} \union {<<[entry |-> e[k], whole |-> w]>> :
                             k \in DOMAIN e, w \in BOOLEAN}

Crash ==
  /\ Alive /\ launches < MaxLaunches
  /\ pc' = "down" /\ next' = "top" /\ entry' = <<>> /\ reply' = "none"
  /\ tail' \in (IF pc = "append" THEN Lines(entry) ELSE {<<>>})
  /\ ctl' = NewController
  /\ stop' = FALSE /\ paused' = FALSE /\ held' = FALSE /\ drain' = FALSE
  /\ wasPaused' = FALSE
  /\ cases' \in {cases} \union (IF pc = "record" THEN {"pooled", "torn"} ELSE {})
  /\ UNCHANGED <<phase, ledger, snap, auditAhead, ops, launches>>

(* OptimizationLedger.recover: only an incomplete last line is discarded.   *)
RepairedTooShort == IF tail # <<>> THEN SubSeq(ledger, 1, Len(ledger) - 1) ELSE ledger
Repaired == IF tail # <<>> /\ tail[1].whole THEN Append(ledger, tail[1].entry)
                                              ELSE ledger

(* The entries that the snapshot has not seen.                              *)
Surplus == SubSeq(Repaired, snap.count + 1, Len(Repaired))

RecoverableExactly == ~auditAhead /\ cases = "none" /\ Surplus = <<>>
(* _surplus_terminal_outcomes and _verify_snapshot_trace. No snapshot of an *)
(* episode with the default pool counts its cases: recover takes an empty   *)
(* pool only. A line of the case files that is torn is never repaired.      *)
Recoverable ==
  /\ ~auditAhead /\ cases = "none"
  /\ \A n \in DOMAIN Surplus :
       Surplus[n].kind = "terminal" /\ Surplus[n].id \in snap.ctl.pending

ReconciledOnlyPending ==
  LET d == [snap.ctl EXCEPT !.pending = @ \ Log!Answered(Surplus)]
  IN IF Surplus = <<>> THEN snap.ctl
     ELSE [d EXCEPT !.state = IF d.pending = {} /\ d.state = "executing" THEN "planning" ELSE @]
(* _reconcile_surplus_terminals                                             *)
Reconciled ==
  LET d == [snap.ctl EXCEPT !.pending = @ \ Log!Answered(Surplus),
              !.incumbent = IF Log!Promoted(Surplus) = {} THEN @ ELSE Log!Incumbent(Surplus)]
      state == IF d.pending = {} /\ d.state = "executing" THEN "planning" ELSE d.state
  IN IF Surplus = <<>> THEN snap.ctl
     ELSE [d EXCEPT !.state = IF Exhausted(d) /\ d.pending = {} /\ state = "planning"
                              THEN "stopped" ELSE state]

(* R1: an episode with candidates in flight goes on collecting them.        *)
Recovered ==
  LET state == CASE Reconciled.pending # {} /\ Reconciled.state \in Plannable -> "executing"
                 [] Reconciled.pending = {} /\ Reconciled.state = "executing" -> "planning"
                 [] OTHER -> Reconciled.state
  IN [Reconciled EXCEPT !.state = state]

Launchable == pc = "down" \/ (pc = "ended" /\ phase = "interrupted")

LaunchAgain ==
  /\ Launchable /\ launches < MaxLaunches /\ launches' = launches + 1
  /\ Recoverable
  /\ pc' = "top" /\ ctl' = Recovered
  /\ snap' = [ctl |-> Recovered, count |-> Len(Repaired)]
  /\ stop' \in (IF "stop" \in Controls /\ pc = "down" THEN BOOLEAN ELSE {FALSE})
  /\ paused' = FALSE /\ held' = FALSE /\ drain' = FALSE /\ wasPaused' = FALSE
  /\ ledger' = Repaired /\ tail' = <<>>
  /\ UNCHANGED <<next, entry, reply, phase, auditAhead, cases, ops>>

LaunchFails ==
  /\ Launchable /\ launches < MaxLaunches /\ launches' = launches + 1
  /\ ~Recoverable
  /\ pc' = "unrecoverable" /\ ledger' = Repaired /\ tail' = <<>>
  /\ UNCHANGED <<next, ctl, entry, reply, phase, flags, snap, auditAhead, cases, ops>>

-----------------------------------------------------------------------------
Loop == EndDrained \/ EndDecided \/ EndStopped \/ EndQuarantined \/ TurnRefused
        \/ StartTurn \/ AfterTurn
Plan == FillEnds \/ FillRetries \/ PlanExhausted \/ PlanBegins \/ TurnRaises
        \/ PlannerProposes \/ PlannerDecides \/ NothingToPropose \/ PlannerDefers
        \/ AnswerUnreadable \/ RepairBegins
Execute == StopBeforeExecution \/ Dispatch \/ ExecuteExhausted \/ ExecuteStale
           \/ ExecuteBusy \/ ExecuteAccepted \/ ExecuteFailedAtOnce \/ ExecuteLost
           \/ Unconfirmed
Absorb == Settle \/ AbsorbNothing \/ WaitFails \/ RequestCancels \/ GiveUp
          \/ \E i \in Interventions : Collect(i) \/ EvidenceMissing(i)

Record == RecordCase \/ RecordingRaises

Thread == Loop \/ Plan \/ Execute \/ Absorb \/ AppendEntry \/ Record \/ Persist
Control == Pause \/ Resume \/ RequestStop \/ PrepareShutdown \/ CancelShutdown
Relaunch == LaunchAgain \/ LaunchFails

Next == \/ Thread \/ TimeRunsOut \/ Control \/ Crash \/ Relaunch
        \/ \E i \in Interventions : OpFinishes(i)

Spec == Init /\ [][Next]_vars

(* The thread runs: every wait has a deadline, every call to the provider   *)
(* returns or fails.                                                        *)
LiveSpec == Spec /\ WF_vars(Thread)

-----------------------------------------------------------------------------
(* Properties *)

TypeOK ==
  /\ pc \in PCs /\ next \in PCs /\ ctl \in Controller
  /\ \/ entry = <<>>
     \/ \E e \in Log!Entry : entry = <<e>>
  /\ reply \in {"none", "accepted", "failed", "lost"}
  /\ phase \in {"none", "completed", "stopped", "interrupted", "quarantined", "error"}
  /\ stop \in BOOLEAN /\ paused \in BOOLEAN /\ held \in BOOLEAN
  /\ drain \in BOOLEAN /\ wasPaused \in BOOLEAN
  /\ ledger \in Seq(Log!Entry)
  /\ \/ tail = <<>>
     \/ \E e \in Log!Entry, w \in BOOLEAN : tail = <<[entry |-> e, whole |-> w]>>
  /\ snap \in [ctl : Controller, count : Nat] /\ auditAhead \in BOOLEAN
  /\ cases \in {"none", "pooled", "torn"}
  /\ ops \in [Interventions -> {"none", "running", "cancelling", "succeeded", "failed"}]
  /\ launches \in 0..MaxLaunches

(* What the controller remembers is what the ledger says, counting the      *)
(* entry that is being appended: the candidates in flight, the candidate    *)
(* budget and the incumbent, after any crash and recovery                   *)
(* (controller_recovery.py:230-262, controller_execution.py:568-775).       *)
Written == IF pc = "append" THEN ledger \o entry ELSE ledger
MemoryMatchesLedger ==
  Alive => /\ ctl.pending = Log!Unanswered(Written)
           /\ ctl.consumed = Cardinality(Log!Started(Written))
           /\ ctl.incumbent = Log!Incumbent(Written)

(* The frozen budget is never exceeded, across relaunches: candidates,      *)
(* planning calls and slots. ECC has at most one operation that the ledger  *)
(* does not know, and the next candidate takes its key                      *)
(* (controller_execution.py:795, budget_contracts.py).                      *)
BudgetKept ==
  /\ Cardinality(Log!Started(ledger)) <= CandidateLimit
  /\ ctl.calls <= PlanLimit
  /\ Cardinality(Log!Unanswered(ledger)) <= Slots
  /\ \A i \in Interventions : ops[i] # "none" => i <= NextIntervention

(* Recovery refuses an episode only for the gaps the code leaves open: an   *)
(* audit entry, or a start, that was written and not yet persisted; a case  *)
(* in the pool of the Parent, whichever episode put it there; a torn line   *)
(* of the case files. A terminal outcome that only the ledger has never     *)
(* loses the episode, nor does the diagnostic recorded with it              *)
(* (controller_recovery.py:109-130, 192-206, 272-302).                      *)
OnlyGapsAreRefused ==
  pc = "unrecoverable" =>
    \/ auditAhead \/ cases # "none"
    \/ \E n \in snap.count + 1 .. Len(ledger) : ledger[n].kind = "start"

(* Crashes, torn lines and repairs included, the file is the promised log.  *)
LedgerIsLog == Log!Spec

(* A requested stop ends the thread (provider_optimization_episode.py).     *)
StopSettles == stop ~> ~Alive

(* No episode runs forever: it ends, or it waits because it is paused.      *)
EpisodeEnds == []<>(~Alive \/ paused)
=============================================================================
