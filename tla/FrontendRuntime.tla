---------------------------- MODULE FrontendRuntime ----------------------------
(***************************************************************************)
(* The sidecar processes of one frontend Workspace directory               *)
(* (services/frontendRpc): the pool that routes handles to a runtime       *)
(* (runtimeService.ts), the runtime with its queue of commands, its        *)
(* sessions and its crash recovery (workspaceRuntime.ts,                   *)
(* workspaceRuntimeCommands.ts, workspaceSessions.ts), and the start, stop *)
(* and exit of a sidecar (sidecarProcess.ts, jsonRpcClient.ts).            *)
(*                                                                         *)
(* A task is a chain of awaits: a queued command, the recovery after an    *)
(* open, or the recovery after a crash. What JavaScript runs before it     *)
(* reads the next event ("Urgent") comes before everything else.           *)
(***************************************************************************)
EXTENDS Naturals, SequencesExt

CONSTANTS
  MaxCommands, \* bound: commands of the user
  Runtimes,    \* bound: EccWorkspaceRuntime objects in use at a time
  Procs,       \* bound: sidecar processes that run or are still referred to
  MaxFaults,   \* bound: errors, time limits, crashes, deferred stops and restarts
  None

ASSUME BoundsAssumption == MaxCommands \in Nat /\ MaxFaults \in Nat

(* In the order they are given; a command that opens names its handle.      *)
Commands == 1..MaxCommands

ASSUME NoneAssumption == None \notin Commands \union Runtimes \union Procs

VARIABLES
  pool,        \* runtimes: {} or the runtime of the directory
  bound,       \* handleToDirectory: the handles that lead to the directory
  rt,          \* the runtime objects with their sidecar objects
  owner,       \* the runtime of a sidecar process, or None: it does not run
  task,
  faults       \* how many faults there have been

vars == <<pool, bound, rt, owner, task, faults>>

Tasks == Commands \X {"command", "recovery"}
Command(c) == <<c, "command">>
RecoverySlots == Commands \X {"recovery"}  \* bound: recoveries after a crash at a time

(* sessions: in the order of the Map, whose last one is the active one; id  *)
(* is the Workspace id, named by the process that gave it. attempted are    *)
(* the handles in crashRecoveryAttempts; after tells of a shutdown that     *)
(* awaits the exit of the sidecar ("waits") or goes on after it ("due").    *)
NewRuntime == [queue |-> <<>>, running |-> None, sessions |-> <<>>, client |-> None,
               ready |-> FALSE, child |-> None, stop |-> "none",
               shuttingDown |-> FALSE, after |-> "none", attempted |-> {}]
NoTask == [pc |-> "none", kind |-> "none", handle |-> None, on |-> None,
           client |-> None, to |-> None]
NewTask(kind, h, r, pc) ==
  [NoTask EXCEPT !.pc = pc, !.kind = kind, !.handle = h, !.on = r]

Init ==
  /\ pool = {} /\ bound = {} /\ faults = 0
  /\ rt = [r \in Runtimes |-> NewRuntime]
  /\ owner = [p \in Procs |-> None]
  /\ task = [t \in Tasks |-> NoTask]

At(t, pc) == task[t].pc = pc
Rt(t) == rt[task[t].on]
Goes(t, pc) == task' = [task EXCEPT ![t].pc = pc]
Becomes(r, x) == rt' = [rt EXCEPT ![r] = x]

Session(r, h) == {n \in DOMAIN rt[r].sessions : rt[r].sessions[n].handle = h}
IdOf(t) == LET n == CHOOSE n \in Session(task[t].on, task[t].handle) : TRUE
           IN Rt(t).sessions[n].id

(* Mutant: the ids of a lost client are kept.                               *)
KeepsIds(x) == [x EXCEPT !.client = None, !.ready = FALSE]

(* clearEccWorkspaceIds and what every loss of a client resets with it.     *)
WithoutIds(sessions) == [n \in DOMAIN sessions |-> [sessions[n] EXCEPT !.id = None]]
Detached(x) == [x EXCEPT !.client = None, !.ready = FALSE, !.sessions = WithoutIds(@)]

-----------------------------------------------------------------------------
(* What runs before the next event is read *)

MayDequeue(r) == rt[r].running = None /\ rt[r].queue # <<>>
MayStart(t) == At(t, "start") /\ Rt(t).stop = "none"
Continues(t) == \/ task[t].pc \in {"resolve", "answered", "rejected", "released", "respawn"}
                \/ MayStart(t)
Urgent == \/ \E r \in Runtimes : MayDequeue(r) \/ rt[r].after = "due"
          \/ \E t \in Tasks : Continues(t)
Calm == ~Urgent

Fault == faults < MaxFaults /\ faults' = faults + 1

-----------------------------------------------------------------------------
(* The pool and the queue *)

Enqueue(c, kind, h, r, x) ==
  /\ task[Command(c)] = NoTask
  /\ \A d \in Commands : d < c => task[Command(d)] # NoTask
  /\ Calm
  /\ task' = [task EXCEPT ![Command(c)] = NewTask(kind, h, r, "queued")]
  /\ Becomes(r, [x EXCEPT !.queue = Append(@, c)])

Unused(r) == /\ r \notin pool
             /\ \A t \in Tasks : task[t].on # r
             /\ \A p \in Procs : owner[p] # r

(* getOrCreateRuntime; stands for the creation of a Workspace as well.      *)
Open(c) ==
  /\ IF pool # {} THEN \E r \in pool : Enqueue(c, "open", c, r, rt[r])
     ELSE /\ \E r \in Runtimes : Unused(r)
          /\ Enqueue(c, "open", c, CHOOSE r \in Runtimes : Unused(r), NewRuntime)
  /\ pool' = {task'[Command(c)].on}
  /\ UNCHANGED <<bound, owner, faults>>

(* runtimeForHandle goes by the directory. "run" stands for every command   *)
(* on a session; a flow run lifts the suppression of crash recoveries.      *)
Run(c, h) ==
  /\ h \in bound
  /\ \E r \in pool : \E lifted \in SUBSET {h} :
       Enqueue(c, "run", h, r, [rt[r] EXCEPT !.attempted = @ \ lifted])
  /\ UNCHANGED <<pool, bound, owner, faults>>

Close(c, h) ==
  /\ h \in bound /\ \E r \in pool : Enqueue(c, "close", h, r, rt[r])
  /\ UNCHANGED <<pool, bound, owner, faults>>

(* The sidecar is told of a close when it knows the Workspace and no other  *)
(* session refers to it.                                                    *)
Tells(r, h) == \E n \in Session(r, h) :
                 /\ rt[r].sessions[n].id # None
                 /\ \A m \in DOMAIN rt[r].sessions :
                      rt[r].sessions[m].id = rt[r].sessions[n].id => m = n

Dequeue(r) ==
  /\ MayDequeue(r)
  /\ LET c == Head(rt[r].queue)
         untold == task[Command(c)].kind = "close" /\ ~Tells(r, task[Command(c)].handle)
     IN /\ rt' = [rt EXCEPT ![r].running = c, ![r].queue = Tail(@)]
        /\ Goes(Command(c), IF untold THEN "answered" ELSE "start")
  /\ UNCHANGED <<pool, bound, owner, faults>>

-----------------------------------------------------------------------------
(* EccRpcSidecarProcess.start and ensureStarted *)

BeginStart(t) ==
  /\ MayStart(t) /\ Goes(t, "env")
  /\ UNCHANGED <<pool, bound, rt, owner, faults>>

(* What a client that was replaced had is dropped.                          *)
Attached(x, p) == IF x.client = p THEN x ELSE [Detached(x) EXCEPT !.client = p]

(* start returned the client of p to ensureStarted.                         *)
Started(t, x, p) ==
  /\ Becomes(task[t].on, Attached(x, p))
  /\ task' = [task EXCEPT ![t].client = IF @ = None THEN p ELSE @,
                ![t].pc = IF Attached(x, p).ready THEN "resolve" ELSE "hello",
                ![t].to = IF Attached(x, p).ready THEN None ELSE p]

Reuse(t) ==
  /\ At(t, "env") /\ Rt(t).child # None /\ Calm
  /\ Started(t, Rt(t), Rt(t).child)
  /\ UNCHANGED <<pool, bound, owner, faults>>

FreshProc(p) == /\ owner[p] = None
                /\ \A t \in Tasks : p \notin {task[t].client, task[t].to}
                /\ \A r \in Runtimes : rt[r].client # p
Launches(t) == At(t, "respawn") \/ (At(t, "env") /\ Rt(t).child = None /\ Calm)
Spawn(t) ==
  /\ Launches(t) /\ \E p \in Procs : FreshProc(p)
  /\ LET p == CHOOSE p \in Procs : FreshProc(p)
     IN /\ owner' = [owner EXCEPT ![p] = task[t].on]
        /\ Started(t, [Rt(t) EXCEPT !.child = p, !.shuttingDown = FALSE], p)
  /\ UNCHANGED <<pool, bound, faults>>

(* The launch cannot be resolved, or the log or the process not be made.    *)
StartFails(t) ==
  /\ Launches(t) \/ (At(t, "env") /\ Calm)
  /\ Goes(t, "rejected") /\ Fault
  /\ UNCHANGED <<pool, bound, rt, owner>>

(* stopAndTrack: at most one stop is under way.                             *)
Stopping(x) == [x EXCEPT !.stop = IF @ = "none" THEN "asking" ELSE @, !.shuttingDown = TRUE]

(* The environment or the executable has changed.                           *)
Restart(t) ==
  /\ At(t, "env") /\ Rt(t).child # None /\ Calm
  /\ Becomes(task[t].on, Stopping(Rt(t))) /\ Goes(t, "restart") /\ Fault
  /\ UNCHANGED <<pool, bound, owner>>

-----------------------------------------------------------------------------
(* Requests *)

(* A write to a process that is gone is refused at once.                    *)
Sends(t, pc, p) ==
  task' = [task EXCEPT ![t].pc = IF owner[p] = None THEN "rejected" ELSE pc,
                       ![t].to = IF owner[p] = None THEN None ELSE p]
Answers(t, pc) == At(t, pc) /\ owner[task[t].to] # None /\ Calm

Hello(t) ==
  /\ Answers(t, "hello")
  /\ rt' = [rt EXCEPT ![task[t].on].ready = TRUE]
  /\ task' = [task EXCEPT ![t].pc = "resolve", ![t].to = None]
  /\ UNCHANGED <<pool, bound, owner, faults>>

(* resolveEccWorkspaceId, then the request itself.                          *)
Resolve(t) ==
  /\ At(t, "resolve")
  /\ LET r == task[t].on
         known == Session(r, task[t].handle) # {}
     IN CASE task[t].kind = "open" -> Sends(t, "opening", task[t].client)
          [] task[t].kind = "close" ->
               IF Tells(r, task[t].handle) THEN Sends(t, "calling", task[t].client)
               ELSE Goes(t, "answered")
          [] task[t].kind \in {"run", "recover"} /\ ~known -> Goes(t, "rejected")
          [] task[t].kind \in {"run", "recover"} /\ known ->
               CASE IdOf(t) # None -> Sends(t, "calling", task[t].client)
                 [] IdOf(t) = None /\ rt[r].client # None -> Sends(t, "opening", rt[r].client)
                 [] OTHER -> Goes(t, "start")
  /\ UNCHANGED <<pool, bound, rt, owner, faults>>

Opened(t) ==
  /\ Answers(t, "opening")
  /\ LET r == task[t].on
         h == task[t].handle
     IN CASE task[t].kind = "open" ->
               /\ rt' = [rt EXCEPT ![r].sessions = Append(@, [handle |-> h, id |-> task[t].to])]
               /\ task' = [task EXCEPT ![t].pc = "answered", ![t].to = None]
          [] task[t].kind # "open" /\ Session(r, h) = {} ->
               /\ task' = [task EXCEPT ![t].pc = "rejected", ![t].to = None]
               /\ UNCHANGED rt
          [] OTHER ->
               /\ rt' = [rt EXCEPT ![r].sessions = [n \in DOMAIN @ |->
                           IF n \in Session(r, h) THEN [@[n] EXCEPT !.id = task[t].to]
                                                  ELSE @[n]]]
               /\ Sends(t, "calling", task[t].client)
  /\ UNCHANGED <<pool, bound, owner, faults>>

Called(t) ==
  /\ Answers(t, "calling")
  /\ task' = [task EXCEPT ![t].pc = "answered", ![t].to = None]
  /\ UNCHANGED <<pool, bound, rt, owner, faults>>

(* An error is answered, or the time limit of the request passes.           *)
Requesting(t) == task[t].pc \in {"hello", "opening", "calling"}
RequestFails(t) ==
  /\ Requesting(t) /\ Fault /\ Calm
  /\ task' = [task EXCEPT ![t].pc = "rejected", ![t].to = None]
  /\ UNCHANGED <<pool, bound, rt, owner>>

-----------------------------------------------------------------------------
(* The end of a task *)

Settled(t) == task[t].pc \in {"answered", "rejected"}
Released(x) == [x EXCEPT !.running = None]
DoneTask == [NoTask EXCEPT !.pc = "done"]
Ends(t) == task' = [task EXCEPT ![t] = IF t[2] = "command" THEN DoneTask ELSE NoTask]
EndsAs(t, kind) == t[2] = "command" /\ Settled(t) /\ task[t].kind = kind

(* openWorkspace binds the handle to the runtime the directory has now and, *)
(* unless the sidecar knew the Workspace already, recovers what was         *)
(* interrupted, outside the queue.                                          *)
FinishOpen(t) ==
  /\ EndsAs(t, "open")
  /\ Becomes(task[t].on, Released(Rt(t)))
  /\ IF At(t, "answered") /\ pool # {}
     THEN /\ bound' = bound \union {task[t].handle}
          /\ \/ Ends(t)
             \/ task' = [task EXCEPT ![t] =
                           NewTask("recover", task[t].handle, task[t].on, "start")]
     ELSE /\ Ends(t) /\ UNCHANGED bound
  /\ UNCHANGED <<pool, owner, faults>>

FinishRun(t) ==
  /\ EndsAs(t, "run") /\ Ends(t)
  /\ Becomes(task[t].on, Released(Rt(t)))
  /\ UNCHANGED <<pool, bound, owner, faults>>

Without(r, h) == IF Session(r, h) = {} THEN rt[r].sessions
                 ELSE RemoveAt(rt[r].sessions, CHOOSE n \in Session(r, h) : TRUE)

(* The session goes whatever the sidecar said; the next command of the      *)
(* queue starts before the service goes on.                                 *)
FinishClose(t) ==
  /\ EndsAs(t, "close") /\ Goes(t, "released")
  /\ Becomes(task[t].on, [Released(Rt(t)) EXCEPT
       !.sessions = Without(task[t].on, task[t].handle)])
  /\ UNCHANGED <<pool, bound, owner, faults>>

(* EccWorkspaceRuntime.shutdown, up to its await and after it. A start that *)
(* awaited the same exit may have attached a client by then.                *)
ShutDown(x) == IF x.child = None THEN Detached(x) ELSE [Stopping(x) EXCEPT !.after = "waits"]
ClearAgain(r) ==
  /\ rt[r].after = "due" /\ Becomes(r, [Detached(rt[r]) EXCEPT !.after = "none"])
  /\ UNCHANGED <<pool, bound, owner, task, faults>>

(* The starts that an exit lets go on follow each other at once.            *)

Release(t) ==
  /\ At(t, "released") /\ Ends(t)
  /\ LET r == task[t].on
     IN /\ ~MayDequeue(r)
        /\ \A u \in Tasks : task[u].on = r =>
             ~MayStart(u) /\ ~(At(u, "respawn") /\ rt[r].child # None)
        /\ bound' = bound \ {task[t].handle}
        /\ IF Rt(t).sessions = <<>>
           THEN pool' = pool \ {r} /\ Becomes(r, ShutDown(Rt(t)))
           ELSE UNCHANGED <<pool, rt>>
  /\ UNCHANGED <<owner, faults>>

(* After an open a failed recovery is only logged; after a crash it may be  *)
(* tried again.                                                             *)
FinishRecovery(t) ==
  /\ Settled(t) /\ task[t].kind = "recover" /\ Ends(t)
  /\ Becomes(task[t].on,
       IF t[2] = "recovery" /\ At(t, "rejected")
       THEN [Rt(t) EXCEPT !.attempted = @ \ {task[t].handle}] ELSE Rt(t))
  /\ UNCHANGED <<pool, bound, owner, faults>>

-----------------------------------------------------------------------------
(* Stop and exit of a sidecar *)

(* cancelOperationLegacy: the sidecar is stopped, if there is one yet.      *)
Cancel(c) ==
  /\ \E r \in pool : rt[r].running = c /\ Calm /\ Becomes(r, ShutDown(rt[r]))
  /\ UNCHANGED <<pool, bound, owner, task, faults>>

(* rpc.shutdown is acknowledged, fails or times out; the signals that       *)
(* follow end the process.                                                  *)
StopAnswered(r) ==
  /\ rt[r].stop = "asking" /\ Calm
  /\ Becomes(r, [rt[r] EXCEPT !.stop = "exiting"])
  /\ UNCHANGED <<pool, bound, owner, task, faults>>

(* Mutant: the sidecar stays marked as one that is stopped.                 *)
DeferredStaysQuiet(x) == [x EXCEPT !.stop = "none", !.after = "none"]

(* A deferred stop leaves the sidecar running.                              *)
Deferred(x) == [x EXCEPT !.stop = "none", !.shuttingDown = FALSE, !.after = "none"]
StopDeferred(r) ==
  /\ rt[r].stop = "asking" /\ Fault /\ Calm
  /\ Becomes(r, Deferred(rt[r]))
  /\ task' = [t \in Tasks |-> IF task[t].on = r /\ At(t, "restart")
                              THEN [task[t] EXCEPT !.pc = "rejected"] ELSE task[t]]
  /\ UNCHANGED <<pool, bound, owner>>

(* Mutant: there need not be a session.                                     *)
RecoversNone(r) ==
  IF rt[r].shuttingDown \/ rt[r].running # None THEN {}
  ELSE {IF rt[r].sessions = <<>> THEN None
        ELSE rt[r].sessions[Len(rt[r].sessions)].handle} \ rt[r].attempted

(* startCrashRecovery: an unexpected exit while no command runs.            *)
Recovers(r) ==
  IF rt[r].shuttingDown \/ rt[r].running # None \/ rt[r].sessions = <<>> THEN {}
  ELSE {rt[r].sessions[Len(rt[r].sessions)].handle} \ rt[r].attempted

(* Mutant: the requests that wait for an answer are not rejected.           *)
KeepsPending(t, p) ==
  IF task[t].on = owner[p] /\ At(t, "restart") /\ rt[task[t].on].child = p
  THEN [task[t] EXCEPT !.pc = "respawn"] ELSE task[t]

AfterExit(t, p) ==
  LET x == task[t]
  IN CASE x.to = p -> [x EXCEPT !.pc = "rejected", !.to = None]
       [] x.to # p /\ x.on = owner[p] /\ x.pc = "restart" /\ rt[x.on].child = p ->
            [x EXCEPT !.pc = "respawn"]
       [] OTHER -> x

FreeSlots == LET free == {t \in RecoverySlots : task[t] = NoTask}
             IN IF free = {} THEN {} ELSE {CHOOSE t \in free : TRUE}

(* The runtime without its sidecar.                                         *)
Bereft(x) == [x EXCEPT !.child = None, !.stop = "none",
                       !.after = IF @ = "waits" THEN "due" ELSE @]

(* The process exits, whether it crashed or was stopped ('close').          *)
Exit(p) ==
  /\ owner[p] # None /\ Calm
  /\ IF rt[owner[p]].stop = "exiting" /\ rt[owner[p]].child = p
     THEN UNCHANGED faults ELSE Fault
  /\ LET r == owner[p]
         x == Detached(rt[r])
         y == IF rt[r].child = p THEN Bereft(x) ELSE x
         left == [t \in Tasks |-> AfterExit(t, p)]
     IN /\ Becomes(r, [y EXCEPT !.attempted = @ \union Recovers(r)])
        /\ IF Recovers(r) = {} THEN task' = left
           ELSE \E t \in FreeSlots, h \in Recovers(r) :
                  task' = [left EXCEPT ![t] = NewTask("recover", h, r, "start")]
  /\ owner' = [owner EXCEPT ![p] = None]
  /\ UNCHANGED <<pool, bound>>

-----------------------------------------------------------------------------
CommandStep(c) ==
  Open(c) \/ Cancel(c) \/ (\E h \in Commands : Run(c, h) \/ Close(c, h))
StartStep(t) == BeginStart(t) \/ Reuse(t) \/ Spawn(t) \/ StartFails(t)
ReplyStep(t) == Hello(t) \/ Resolve(t) \/ Opened(t) \/ Called(t)
EndStep(t) ==
  FinishOpen(t) \/ FinishRun(t) \/ FinishClose(t) \/ Release(t) \/ FinishRecovery(t)
TaskStep(t) == StartStep(t) \/ ReplyStep(t) \/ EndStep(t)
StopStep(r) == StopAnswered(r) \/ StopDeferred(r) \/ ClearAgain(r)

Next ==
  \/ \E c \in Commands : CommandStep(c)
  \/ \E t \in Tasks : TaskStep(t) \/ RequestFails(t) \/ Restart(t)
  \/ \E r \in Runtimes : Dequeue(r) \/ StopStep(r)
  \/ \E p \in Procs : Exit(p)

Spec == Init /\ [][Next]_vars

(* A process that lives answers, and one that is told to stop exits: the    *)
(* time limits and SIGKILL see to the second. No time limit is needed.      *)
LiveSpec ==
  /\ Spec
  /\ \A t \in Tasks : WF_vars(TaskStep(t))
  /\ \A r \in Runtimes : WF_vars(Dequeue(r)) /\ WF_vars(StopStep(r))
  /\ \A r \in Runtimes : WF_vars(rt[r].stop = "exiting" /\ Exit(rt[r].child))

-----------------------------------------------------------------------------
(* Properties *)

Pcs == {"none", "queued", "start", "env", "restart", "respawn", "hello", "resolve",
        "opening", "calling", "answered", "rejected", "released", "done"}
TaskType ==
  [pc : Pcs, kind : {"none", "open", "run", "close", "recover"},
   handle : Commands \union {None}, on : Runtimes \union {None},
   client : Procs \union {None}, to : Procs \union {None}]
SessionType == [handle : Commands, id : Procs \union {None}]
RuntimeType ==
  [queue : Seq(Commands), running : Commands \union {None}, sessions : Seq(SessionType),
   client : Procs \union {None}, ready : BOOLEAN, child : Procs \union {None},
   stop : {"none", "asking", "exiting"}, shuttingDown : BOOLEAN,
   after : {"none", "waits", "due"}, attempted : SUBSET Commands]
TypeOK ==
  /\ pool \in {{}} \union {{r} : r \in Runtimes}
  /\ bound \subseteq Commands
  /\ rt \in [Runtimes -> RuntimeType]
  /\ owner \in [Procs -> Runtimes \union {None}] /\ faults \in 0..MaxFaults
  /\ task \in [Tasks -> TaskType]

(* A session never offers the Workspace id of a process that has exited: it *)
(* is opened anew with the sidecar that took its place.                     *)
IdsAreLive ==
  \A r \in Runtimes : \A n \in DOMAIN rt[r].sessions :
    rt[r].sessions[n].id # None => owner[rt[r].sessions[n].id] = r

(* The exit of a sidecar counts as intended only while a stop of it is      *)
(* under way; after a stop that was deferred a crash is a crash again.      *)
QuietExitsAreStops ==
  \A r \in Runtimes : rt[r].child # None =>
    (rt[r].shuttingDown <=> rt[r].stop # "none")

(* Whatever sidecars do, every command is answered or refused, and every    *)
(* recovery ends: no wait is left behind by an exit, a stop or a close. (As *)
(* commands and faults are bounded, one moment without any task is enough.) *)
TasksSettle == []<>(\A t \in Tasks : task[t].kind = "none")
=============================================================================
