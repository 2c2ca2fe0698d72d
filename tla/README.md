# Verification of ECOS Studio

TLA+ models of the parts of ECOS Studio where processes, windows, files and
crashes meet, the TLC runs that check them, and proofs checked by TLAPS.

`E/` below stands for `src/ecos/gui/apps/desktop-electron/electron/`.

## 1. Inventory

ECOS Studio is an Electron application for chip design. Its main process starts
and watches detached `ecc` CLI processes, installs tools and PDKs, hosts agent
providers, and serves Vue renderers, one window per Workspace.

| Component | State it keeps | Operations | Interacts with | Hard because | Correct if |
|---|---|---|---|---|---|
| ECC CLI runtime service (`E/services/eccCli/runtimeService.ts`) | sessions, `operations` (run id to tracker), outcomes, watchers and pollers | open/close Workspace, start flow or step, cancel, reconcile, refresh, poll | detached `ecc` processes through `project.json` and `flow.json` only; renderers by events | no shared lock with ECC: every decision rests on two files read at different times; ECC crashes and late exits | a terminal operation has stopped; a gone run settles; one outcome; projections never go back; starts exclude each other |
| Safe Shutdown (`E/main/shutdownCoordinator.ts`) | one attempt, accepted work, approvals | close window, quit, wait, cancel, Force Quit, renderer cleanup | runtimes, creation journal, agent runtime manager, all renderers | awaits between decision and effect; attempts cancelled and replaced meanwhile | what is approved is idle and cleaned up; a cancelled drain is undone; Force Quit ends |
| Resource install (`E/services/resourceInstallCoordinator.ts`, install task of `resourceManagerService.ts`) | roots, shared operations, subscribers, manifest | install with dependencies, cancel | registry, downloads, manifest, PDK inventory | shared work with several owners; cancel racing commit and rollback | work aborted exactly when unwanted; honest answers; every install ends |
| Workspace creation journal (`E/services/workspaceCreationJournal*.ts`, `workspaceCreationRegistrations.ts`) | one JSON file per creation and a Map | begin, mark, register, complete, unfinished, continue, abandon, load | `ecc init`, Project manifest, recent Workspaces, Safe Shutdown | crashes between two writes; edits of the registrations by others | durable, monotonic, removes only what it made, recoverable |
| Project manifest service | `project.json` | mutations, registration of Workspaces | ECC, journal | edited by ECC and terminals too | as far as the journal uses it |
| Agent runtime manager (`E/services/agent/agentRuntimeManager.ts`) | episodes, authorizations, sessions, one JSON file | admission, control, drain, restore, persist | provider processes, guards of product commands | admissions and edits cut by awaits, silent write failures, provider restarts | what was launched is on disk; guard held while a thread may run; one admission at a time |
| Agent provider process runtime | pending requests, process | request, interrupt, restart | provider over stdio | late answers after a restart | no answer reaches another request |
| Frontend RPC runtime (`E/services/frontendRpc`) | pool of runtimes, their queues, sessions, the client of a sidecar | open, close, command, cancel, restart, stop, recover | one sidecar process per directory | requests pending when a sidecar dies, starts that overlap, deferred stops | an id is used only with the process that gave it; a crash is never taken for a stop; every command is answered |
| Optimization controller and ledger (`src/ecos/agent/src/ecos_agent/optimization`) | ledger file, snapshot, queue, slots, operations in flight, budget | turn, plan, dispatch, wait, absorb, recover, pause, drain, Stop | executor of candidates, planner | crash within a record, between a start and its dispatch, or before a snapshot | a start is settled once and never lost; limits count what a recovery takes up; every launch ends |
| Resource archives (`resourceArchiveRecovery.ts`, downloads of `resourceManagerService.ts`) | archives, tool directories | download, resume, verify, extract, replace, roll back, uninstall | registry, mirrors, manifest | crashes between renames, wrong bytes, uninstalls beside installs | what is registered is there; retrying succeeds |
| CLI installer, Workspace rerun | files | install, plan a rerun | `ecc` | crash between files | the last complete state is found |
| Renderer stores, chip viewer (Rust), knowledge base, shared contracts | presentation, geometry, documents, types | | | | |

Safe Shutdown is where the others meet: it asks the ECC runtime for a
projection, the journal for active creations, the agent runtime manager to
drain, and each window to clean up; its Force Quit marks creations unfinished,
which is what the journal's recovery starts from.

## 2. Modules and how they correspond to the code

Every asynchronous handler is cut at its awaits: the part after an await is an
action of its own, and anything may happen before it. Between two awaits
JavaScript runs to completion, so that part is one step. The Python controller
runs in one thread and is cut at its writes, where a crash tells the difference.

* **`OperationLifecycle`** is the abstract promise of a runtime: an operation is
  created, settles in one outcome and announces it once.
* **`EccRuntime`** is `EccCliRuntimeService` for one Workspace. `proc`, `entry`
  and `flow` are the ECC process, its `runtime_processes` entry and `flow.json`
  (external); `operations` and `trk` are the Map and the `TrackedOperation`s;
  `reads` are the calls of `refreshOperation` in flight, each with what it has
  read so far; `planning` and `adopting` are calls suspended in `startOperation`
  and `restoreRegisteredOperation`. `flow.json` is abstracted to the class of
  its steps, which decides the outcome, and a version. It implements
  `OperationLifecycle` (`LifecycleSpec`).
* **`ShutdownCoordinator`** is the coordinator with the drain of
  `AgentRuntimeManager` and the cleanup handler of `useAppWindowClose`. `calls`
  holds the suspended calls, `att` the Attempt objects, `handling` the attempt a
  renderer is cleaning up for, `held` the map `optimizationShutdownStates`. The
  blockers are commands and creations (`work`) and episodes (`episode`);
  detached ECC flows do not block (`withoutDetachedFlows`). An inspection is
  read when it ends; two calls that wait at the same point for the same thing
  are answered together; an attempt nobody holds any more loses its fields
  (`Dropped`).
* **`ResourceInstall`** is the coordinator and the install task. `root[r]` is the
  `RootInstall` and what its caller was told, `op[r]` the `SharedInstall` and the
  point its task has reached, `installed` the manifest. Delivery of abort signals
  is synchronous in the code, so `Cascade` computes it as one step. A PDK's
  version suffix is ignored, and "installed" means that the registry's lock
  matches. Uninstalling is left out here.
* **`ResourceFiles`** is the install task on disk, for the versions of one tool:
  `part` is the resumable download, `left` the archives earlier installs left
  behind, `dir` the directories, `entry` the entry in the manifest, `op` the
  install with the step it has reached. Contents are what the checksum tells
  apart: a right or a wrong prefix, a right or a wrong archive. Housekeeping that
  the code lets fail (the removal of archives) may fail at any time. `un` is an
  uninstall that holds the manifest lock. `damaged` is history: the versions whose
  directory one of the weaknesses of section 5 has hit, and which the properties
  exclude from then on. The size of a release is known, so a complete partial file
  is recognised when the server answers 416. Staged directories and
  backups that a crash leaves are never read again and are not kept.
* **`WorkspaceCreation`** is the journal. `file` and `rec` are the JSON file and
  the Map, `job` the queued action with its remaining steps, `manifest` and
  `recent` the two registrations with their fingerprints. A failed or crashed
  step may happen anywhere. `ended`, `born` and `blind` are history. Each
  creation has its own target directory; path authorization and invalid journal
  files (which the code leaves untouched) are not modelled.
* **`OptimizationEpisodes`** is the part of `AgentRuntimeManager` that admits,
  guards, controls and remembers optimization episodes, with the provider
  process and the ECC runtime as its environment. `ep` is `optimizationEpisodes`
  and `file` its projection on disk, `auth` the pending authorizations, `call`
  the answers of the user and the Stops and Resumes suspended at an await with
  their requests, `rev` the committed Revisions of the Parents, `thread` the
  episodes the provider runs, `mail` its events on their way. `proven` is
  history. States the guards do not tell apart are one
  value: `running` is starting, calibrating, running, paused and stopping,
  `stopped` is completed too, and a report of "interrupted" stands for
  needs_attention. What ECC says of the operations of a stopped episode is a
  nondeterministic answer; Stop's reconciliation is one step.
* **`OutcomeLog`** is the abstract promise of a ledger: names are started and
  settled once, and nothing written is taken back.
* **`OptimizationController`** is the turn loop, the ledger and the runner of
  the Python controller. `ledger`, `tail` (a torn last line) and `snap` are the
  files; `ctl` is the controller's memory, `pc` the point the thread has
  reached, `entry` the record it is writing; `stop`, `paused`, `held` and
  `drain` are the flags of the session; `ops` are the ECC operations of the
  candidates. Numbers the planner and the incumbent are judged by are abstracted
  away; a proposal either passes or is refused. It is modelled against its
  executor interface. It implements `OutcomeLog` (`LedgerIsLog`).
* **`FrontendRuntime`** is the pool of frontend runtimes for one directory:
  `acquire`, the queue of commands, sessions, start, restart, stop, exit and
  recovery of sidecars, and the requests that wait for their answers. `pool` and
  `bound` are the two Maps of the service, `rt` the runtime objects with their
  sidecar objects; a `task` is a command or a recovery at the await it has
  reached; `owner` names the runtime of each living sidecar process. Parts that
  follow one another through promises that are settled already take precedence
  over the next event (`Urgent`). `run` stands for every command on a session.
* **`MC*`** give the constants small values. **`EccRuntimeProofs`**,
  **`ShutdownProofs`**, **`ResourceInstallProofs`**, **`ResourceFilesProofs`**,
  **`WorkspaceCreationProofs`**, **`OptimizationEpisodesProofs`**,
  **`OptimizationProofs`** and **`FrontendRuntimeProofs`** hold the theorems.

The operators introduced by "Mistaken variant" are plausible bugs. The
properties are tested with them: replacing the correct definition by its variant
makes TLC report the property.

## 3. Runs

| Run | Instance | Shows |
|---|---|---|
| `EccAdopt` | 2 runs, 2 trackers, 2 concurrent adoptions | adopted operations are terminal only after the run has stopped, plain starts exclude each other, no run is resurrected |
| `EccRefresh` | 1 run, 2 overlapping refreshes, 3 versions of the flow | monotonic projection, refinement of `OperationLifecycle`, `GoneRunSettles` |
| `Shutdown` | 2 windows, 2 attempts, no Force Quit | `SafeApproval`, `CancelledDrainReleased` |
| `ShutdownForce` | 1 window, 1 command, 2 attempts, Force Quit | `SafeApproval` with accepted work, `ForceQuitEnds` |
| `ResourceInstall` | 3 resources: chain, shared dependency, self cycle | `AbortedIffUnwanted`, `HonestCancellation`, `InstallEnds` |
| `ResourceFiles` | 2 versions of a tool, any 3 of: fault, crash, cancellation, uninstall, import | what is registered is in place, verified, or can be put back; nothing left behind keeps later installs from succeeding |
| `WorkspaceCreation` | 1 creation, 2 faults, 2 edits | durability, monotonicity, ownership, cleanup, recovery |
| `Optimization` | 2 slots, 2 candidates, 3 plans, 1 relaunch | memory and ledger agree, limits hold across a recovery, a recovery refuses only a start whose operation was never recorded, the ledger is an `OutcomeLog`, Stop settles, every launch ends |
| `OptimizationEpisodes` | 2 episodes, 1 Parent, 2 overlapping answers | a launched episode is on disk, its Parent is guarded while a thread may run, admissions exclude each other |
| `FrontendRuntime` | 3 commands, 2 runtimes, 3 processes, 1 fault | ids are used with the process that gave them, a quiet exit is a stop, every task settles |

Runs that find a disagreement with the documentation:

| Run | Property | What happens |
|---|---|---|
| `ResourceDependencies` | `DependenciesInstalled` | a dependency is skipped as installed while its registration is about to be rolled back |
| `OptimizationParents` | `OneActiveEpisodePerParent` | an episode fails, another one is admitted, the application restarts: the file says `failed`, a state its reader does not know, the first episode comes back as active and the Parent has two |

**Bounds.** Two runs and two trackers are what a race between two starts, or
between an adoption and its run, takes; two overlapping reads of one tracker are
one stale and one current. `MaxWrites` = 3 lets a flow be initial, ongoing and
finished. The shutdown races need a second attempt and a second window; what
blocks is an episode in the two-window instance and a command in the other. The
resource instance is the smallest with a chain, a shared dependency and a cycle.
For the journal, two faults allow a crash during the recovery from a crash. Two
slots and two candidates let a candidate end while another runs, and three plans
let a plan be refused and the limit be met; a second launch (`MaxLaunches` = 1)
recovers what the first left, and idle turns are cut at one. The episodes need
two answers in flight and an edit that began before them; crashes, restarts and
failed writes are not bounded there, messages are (`MaxMail` = 1).
`ResourceFiles` starts with any archives left by older releases; three events
(`MaxEvents`) let a damaged download or a damaged directory meet a second fault
and a cancellation. In `FrontendRuntime` three commands are an open, a run and a
close, or a start that races a recovery; one fault is an error, a time limit, a
crash, a deferred stop or a restart; commands are numbered in the order they are
given. `EccAdopt` excludes cancellation and rerun by a constraint because
`EccRefresh` covers them; `Shutdown` excludes Force Quit, which `ShutdownForce`
covers, and `ShutdownForce` bounds the calls in flight to two. Deadlock is
checked for `OptimizationEpisodes` only: the other programs may be at rest.

**Fairness.** `EccRuntime`: file reads, announcements and the exit event are
weakly fair; the 5 s poller is strongly fair because its timer fires again and
again. `ReadsKeepUp` states the timing the code relies on: eventually both files
are readable and the reads of one refresh end before the next trigger. Without
it the sequence number would starve every refresh, and nothing would settle.
`ShutdownCoordinator`: only the journal's answer and the 3 s timer of Force
Quit; no renderer, user or command is assumed to answer. `ResourceInstall`:
registry requests, downloads and writes end, well or badly. `WorkspaceCreation`:
the application is started again and finishes what it starts, and the user keeps
choosing Continue (strong fairness, as it is offered only between actions); the
number of crashes and failures is bounded. `OptimizationController`: weak
fairness of the thread's next step, as each of its waits has a deadline and its
calls return or raise. `FrontendRuntime`: weak fairness of the steps of each
task, of the queue and of a stop; a living sidecar answers (no time limit is
needed, and `flow.run` has none), and a process that is being stopped exits
(SIGTERM, then SIGKILL). `ResourceFiles`: file operations and requests end, and
the user asks for each version again and again (strong fairness, as only one
install runs at a time). No fault is assumed to happen, and apart from what is
said here nothing of the user. `TasksSettle` is stated as "again and again
nobody waits", which with finitely many commands and faults says that every task
ends.

## 4. Proofs

All theorems hold for every value of the constants that satisfies the named
`ASSUME` of the module. Each file states the inductive invariant, proves one
step per action and, under it, one per conjunct the action can disturb.

`EccRuntimeProofs`:

* `TypeCorrect`: `Spec => []TypeOK`.
* `ProjectionMonotonic`: `Spec => ProjectionNeverGoesBack`. The property is not
  inductive: a finishing read must be known to be no older than what is shown.
  The invariant adds `ReadsOrdered` (at most one refresh is current, and what it
  read is between the version shown and the version on disk) and `AbsentIsQuiet`
  (no refresh is in flight for a tracker that does not exist).
* `AdoptedStops`: `Spec => []AdoptedTerminalMeansStopped`. The invariant relates
  three parties: `Registration` (a live registered process is the one the
  manifest names, and the manifest names none that never registered) and
  `AdoptionKnown` (an adopted run was registered, and a refresh that reads
  another entry knows that it has unregistered or exited).
* `LifecycleRefined`: `Spec => LifecycleSpec`. Initial states map to initial
  states, and every action to `Create`, `Settle`, `Announce` or a stutter.
* `RunsStayDead`: `Spec => NoResurrection`. A resumed adoption is dangerous
  because its check lies before the await. `StartInv` says what still holds when
  it resumes: a run that is being adopted has been launched, and whoever tracked
  it either adopted it too or has seen it exit (`AdoptedWasUntracked`, which rests
  on `ForgottenIsGone` and `ExitSeenIsGone`: an entry leaves the Map only after
  the run has exited). With `AdoptionKnown`, a run that is still alive then has
  no operation that has ended.
* `PlainStartsAreExclusive`: `Spec => []PlainStartsExclude`. The Map never names
  an absent tracker (`MapNamesTrackers`), so only the three creating actions can
  make an operation active. All other actions are `Quiet`, proved action by
  action and used by both theorems.
* `OperationsStayObserved`: an operation called running is with its start call,
  or its start was reported failed and no process of it is left, or it is
  observed and, as long as it waits for the registration, an 'exit' event will
  end the wait; except for the 'exit' event that came before the listener
  (section 5). This is what `GoneRunSettles` needs besides fairness. The
  invariant adds what holds of one tracker (`Followed`), of it and its process
  (`LeftBehind`), and that before there is a process there is one tracker at
  most (`OnlyTracker`).

`ShutdownProofs`: `TypeCorrect`, `DrainsAreReleased` (`CancelledDrainReleased`)
and `ApprovalsAreSafe` (`SafeApproval`). Attempts are approved by calls that
come back from an await, so the invariant says what such a call still knows:
while its attempt is current and was not widened, it acts for the scope of the
attempt, and a call that asks for approval after the cleanup finds every window
finished (`CallsKnow`). In cleanup every open window in scope has finished or is
waited for (`CleaningIsTracked`). Episodes that are held are being restored or
belong to the current attempt, and closing the window of that attempt takes all
of them away (`HeldIsOwned`). A step either lets the current attempt stay, ends
it or begins one, and each of the three keeps the invariant, whoever takes it.
`AttemptsStayAttended` says that no flag outlives the call it stands for: an
idle attempt is being decided, its prompt is open while `initialPromptOpen` says
so, an attempt that is forcing has its deadline ahead, and `forcePromptOpen`
means that a dialog is open or the Force Quit it led to is under way. It rests
on the calls that are replaced by a step: what they did for the attempt is done
by another, or nothing waits for it any more.

`WorkspaceCreationProofs`: `TypeCorrect`, `JournalDurable`, `JournalMonotonic`,
`OlderKeeps` and `AbandonedIsClean` from one invariant. It says for each
creation (`JobsOK`) that one action is under way, where it stands, that the
record matches the file between writes, that a stage is marked only after its
evidence, and what an abandoning action has already seen and dropped; for the
entries (`EntriesOK`) that what was not there when the creation began came after
it, and that a stage comes with its evidence; and `Durable`, that memory is what
the file says once it is loaded. Two theorems say that no creation is forgotten.
`UnfinishedStaysOffered`: while a journal is on file and nothing runs for it,
the service accepts the next action of its user, of the creating window or
Continue and Abandon. `JournalsCloseOnEvidence`: a journal is removed once and
for all, and only by an Abandon, with both registrations on record, or by a
start that saw the directory and both registrations. The strengthening: what has
ended has no journal, record or action left (`Over`), and a completion removes
only a finished record (`Completing`).

`ResourceInstallProofs`: `TypeCorrect` and `WorkIsOwned` (`AbortedIffUnwanted`),
for any registry, cyclic or not. The invariant says who subscribes to an
operation waits for it (`SubsOK`), that a root visits itself, and that a running
operation is aborted exactly when nobody wants it (`OwnedOK`). The lemma it
rests on is about `Cascade`: it is the least set closed under "all its
subscribers are cancelled", and of what was not asked to be cancelled it holds
only what nobody alive wants. `CancellationIsHonest` (`HonestCancellation`) adds
what a root knows when it is answered (`Honest`), and that only an operation
that is committing registers (`Registers`): the abort, the write of the manifest
and its restoration may come in any order. `WaitersStayServed`: who has joined a
running operation is one of its subscribers and it is not aborted while he
lives, and who waits for an aborted operation to stop finds it still stopping.

`ResourceFilesProofs`: `TypeCorrect` and `RegisteredStaysInPlace`
(`RegisteredIsInPlace`). The invariant says that who uninstalls a version holds
the lock while it is registered (`UninstallsEntry`), that what an install has
put in place stays until it removes it (`PlacedIsGood`), that a registered
version that is installed again has its previous directory as backup unless an
uninstall took it (`BackupIsKept`), and that the entry a failed write would
restore is in place too (`FormerIsGood`). `OnlyVerifiedIsPlaced`: nothing is
extracted, placed or registered that was not downloaded in full and found to
match its lock. `RetriesAreFresh`: an attempt that fails the verification leaves
nothing to be resumed, and a wrong archive that can be resumed was left by a
download of that version that broke off. Each step ends the install, is before
or at the download, takes what was downloaded, goes on with what was verified,
or is of something else.

`OptimizationEpisodesProofs`: `TypeCorrect`, `LaunchedStaysDurable`,
`GuardStaysKept` and `AdmissionStaysExclusive`. The invariant adds that memory
and file name the same episodes (`SameEpisodes`), that calls, events and threads
are of known episodes (`KnownOnly`), and that an episode whose end was never
proven is active, also in the older state on file (`UnprovenActive`).
`EpisodesKeepParents`: an episode never disappears or changes its Parent or
revision, also when a restart reads an older file; that an episode acts on its
own Parent whatever was awaited in between rests on it. `SecondOwnersAreKnown`
says what holds of `OneActiveEpisodePerParent`, which the run
`OptimizationParents` finds violated: a Parent gets a second owner only when an
ended episode is revived, by a restart from a file that does not know that it
stopped, by a dispatch that fails, or by a reconciliation that fails. No
admission and no event of the provider does it.

`OptimizationProofs`: `TypeCorrect`, `MemoryIsLedger`, `BudgetIsKept`,
`RecoveryRefusesOnlyGaps` and `LedgerRefined` (`Spec => LedgerIsLog`). The
invariant says that the ledger is well kept (`WellKept`: an outcome follows the
one start of its candidate and is its only one, starts are numbered, and no more
are unanswered than there are slots), that the snapshot is what a prefix of the
ledger says (`SnapOK`), that the record being written and a torn last line fit
(`EntryOK`, `TailOK`), that memory says what the ledger says
(`MemoryMatchesLedger`), which start is not confirmed (`UnconfirmedOK`), that
there is a slot wherever a candidate may be started next (`RoomOK`), and that
ECC knows no operation beyond the next candidate (`OpsOK`). The repair of a torn
tail maps to a stutter because `RepairRecords` leaves the complete records as
they are. `LedgerNeverRefuses` says that every append of the controller is one
the ledger accepts, so that the refinement is not met by refusing.
`LedgerTellsOfECC` relates the file to the other process: an outcome other than
`indeterminate` is one ECC has reached, the incumbent has succeeded, and an
operation that still runs is waited for, given up as indeterminate, or the next
one, whose start was not recorded. Its invariant says the same of the entry
being written, a torn line and the reply that was received. `OnlyApprovedStart`:
a candidate is started only from an approved proposal, made against the
incumbent that is current then, within the budget, and the start uses the
proposal up. `ProposalsStayKept`: a state that waits for a candidate has its
proposal, also when it is recovered, except while a start that ECC has not
accepted is being completed; one that is cancelled is in flight. Without the
exception TLC refutes it, with a start that ECC refuses.

`FrontendRuntimeProofs`: `TypeCorrect`, `IdsStayLive` and `QuietExits`. The
invariant says that what a runtime refers to is a living process of its own and
that it stops only a sidecar that is there (`Sound`), that a command waits once
(`QueueOK`), and that what a task refers to is its own or gone (`Fits`).
`TurnsAreKept`: two commands of a runtime are never between its queue and their
answers together. `TasksStayServed`: a task that has begun and not ended goes on
by itself, waits for a place in the queue that is free or held by a command in
flight on the same runtime, for the exit of a sidecar that is there and is being
stopped, or for the answer of a process of its runtime that lives. Both rest on
who holds the place (`Turn`) and where each task is (`Placed`).

TLC finds each of these invariants true on the instances of the runs.

Only model-checked: liveness (`GoneRunSettles`, `ForceQuitEnds`, `InstallEnds`,
`ContinueRecovers`, `StopSettles`, `EpisodeEnds`, `TasksSettle`,
`RetryInstalls`), since fairness and ENABLED are outside the prover's reach.
What is proved of it is the safety half: that nobody waits for what nobody will
do. `OperationsStayObserved`, `AttemptsStayAttended`, `WaitersStayServed`,
`UnfinishedStaysOffered`, `TasksStayServed` and `RetriesAreFresh` are these
halves, for any number of actors and faults. Of `StopSettles` and `EpisodeEnds`
it is only that an append is never refused and that what a dispatch or a
cancellation needs is there.

## 5. Known defects and observations

The models contain the following behaviours of the code. Those with a run above
are findings; the others are described here because no property of a passing run
can state them.

*ECC runtime.* A failed spawn leaves a running operation in the Map, and the
Workspace stays busy (`runtimeService.ts:1159-1161`). An exit before the listener
is attached is lost (1165). A run that registers, ends and unregisters between
two polls of the handshake is reported as failed (1181).
A refresh that read the manifest before a run registered, and is still the
newest when the handshake clears `registrationPending`, declares the running
operation terminal (1351), so "wait for the terminal state"
(`src/ecos/docs/user-guide.md:779-780`) holds for adopted operations only, which
is what `AdoptedTerminalMeansStopped` states.

*Safe Shutdown.* Blockers that end during a prompt or the drain request are not
noticed (`shutdownCoordinator.ts:186`, 336). A quit that joins a draining window
close does not drain the episodes of the other windows
(`agentRuntimeManager.ts:427`), and one that joins a window in cleanup is
approved without the cleanup of the other renderers
(`shutdownCoordinator.ts:260-262`; `src/CONTEXT.md:353-354` promise otherwise).

*Resources.* An uninstall is not refused while an install of the same tool runs
(`resourceManagerService.ts:1081-1111` asks only for active ECC runs): it may
remove the directory the install has just put in place, and the install then
registers a directory that is not there. A crash between the two renames of
`replaceDirectoryWithRollback` (5955-5959) leaves a registered version without its
directory and the backup where nobody looks for it; the health check shows the
tool as missing, and installing it again repairs it. `removeManagedMpc`
(2649-2661) reads the manifest before it takes the lock and may write back an old
one, losing a registration committed meanwhile.

*Optimization.* Three candidates may run at once: a slot is freed for an
indeterminate candidate that ECC still runs (`controller_execution.py:763-766`
against `src/CONTEXT.md:405`). A Stop that interrupts the planner raises and ends
the thread with candidates in flight (`controller_planning.py:122-126` against
`src/CONTEXT.md:326`). Pause is sampled once per turn
(`provider_optimization_episode.py:57`, `src/CONTEXT.md:330`). A candidate that
fails without evidence ends the episode (`runtime.py:436-440`,
`src/CONTEXT.md:337`). The death of the provider process tells the manager
nothing of episodes without an open request (`agentProviderProcessRuntime.ts:724`,
`src/CONTEXT.md:349`). A command that was authorized before an admission commits
its edit of the Parent after it (`registerIpc.ts:2948`). A Resume that is with the
provider while a Stop reconciles the episode restarts the thread of an episode
shown as stopped (`agentRuntimeManager.ts:632`). An interrupt while the Parent is
resolved does not stop the admission. At 64 remembered episodes
`slice(-0)` keeps all of them (`agentRuntimeManager.ts:945`).

*Frontend RPC.* Two starts that overlap (a recovery and a queued command, or two
restarts) both spawn, and one sidecar is leaked (`sidecarProcess.ts:187`; the test
`runtimeService.test.ts:587` expects one per directory). An open that meets the
last close fails with "runtime not found" and leaks its sidecar, or binds its
handle to another runtime. A cancellation while the sidecar starts, or a deferred
stop, is answered `cancelled: true` while the run goes on
(`workspaceRuntime.ts:269-284`, `sidecarProcess.ts:302-308`). A Workspace whose
recovery always fails is recovered again after every crash. A destroyed window
never closes its handles (`registerIpc.ts:1637-1642`).

## 6. Not modelled, and why

* ECC runtime: sessions and their handles, shutdown of the service, read-only
  queries.
* Resources: the installs of PDKs and MPCs beyond their place in the install task
  (their replacement and rollback is the same code), removal of an MPC, archives
  of another lock of the same version (never used, only removed), the registry
  cache and update checks.
* Agent manager: Parent Adoption, cleanup of candidate Workspaces, operation
  associations, other providers, session contexts; drains and pauses appear in
  `ShutdownCoordinator` and `OptimizationController`. The provider process
  runtime appears only by its death and the rejection of its requests.
* Controller: the calibration before the first turn and the cleanup after the
  last, full audits, `not_started` receipts (no executor returns them).
* Frontend RPC: the operation tracker and the final snapshot (`main/index.ts`
  feeds neither for frontend Workspaces), the control runtime, Force Quit,
  revisions and caches, lazy opening, which the application does not use.
* CLI installer, Workspace rerun, the other mutations of the Project manifest.
* The renderer apart from its cleanup handler is presentation. The chip viewer is
  geometry, the knowledge base is text, and the shared contracts are types.

## 7. Plan

1. `EccSessions`: opening, closing and releasing Workspaces around `EccRuntime`,
   and the shutdown of the service with watchers that attach late.
2. The CLI installer and the Workspace rerun, on disk.
3. The agent provider process runtime: correlation of replies with requests and
   the confirmation of executions, below `OptimizationEpisodes`.
