------------------------- MODULE FrontendRuntimeProofs -------------------------
(***************************************************************************)
(* Proofs about FrontendRuntime, for any number of commands, runtimes,     *)
(* processes and faults: what a runtime and its sidecar object refer to    *)
(* lives, an exit counts as intended only while a stop is under way, the   *)
(* commands of a runtime take turns, and whoever waits is served.          *)
(***************************************************************************)
EXTENDS FrontendRuntime, TLAPS

Active == Pcs \ {"none", "done"}
PoolType == {{}} \union {{r} : r \in Runtimes}

(* What runtime r in state x refers to is a living process of its own, and  *)
(* a stop is under way only for a sidecar that is there.                    *)
Sound(r, x) ==
  /\ x.child # None => owner[x.child] = r
  /\ x.client # None => owner[x.client] = r
  /\ \A n \in DOMAIN x.sessions : x.sessions[n].id # None => owner[x.sessions[n].id] = r
  /\ x.child # None => (x.shuttingDown <=> x.stop # "none")
  /\ x.stop # "none" => x.child # None

(* A command waits once, in the queue of the runtime it was given to.       *)
Waits(r, c) == task[Command(c)].pc = "queued" /\ task[Command(c)].on = r
QueueOK(r) ==
  \A n \in DOMAIN rt[r].queue :
    /\ Waits(r, rt[r].queue[n])
    /\ \A m \in DOMAIN rt[r].queue : rt[r].queue[m] = rt[r].queue[n] => m = n

(* What a task refers to is its own, or gone.                               *)
Fits(x) ==
  /\ x.pc \in Active => x.on \in Runtimes /\ x.kind # "none" /\ x.handle \in Commands
  /\ x.pc \notin Active => x.on = None
  /\ x.client # None => owner[x.client] \in {x.on, None}
  /\ x.to # None => owner[x.to] = x.on
  /\ x.pc \in {"hello", "opening", "calling"} => x.to # None
  /\ x.pc \in {"hello", "resolve", "opening", "calling"} => x.client # None
  /\ x.pc = "respawn" => rt[x.on].stop = "none"
  /\ x.pc = "queued" => x.to = None

IInv == /\ TypeOK
        /\ \A r \in Runtimes : Sound(r, rt[r]) /\ QueueOK(r)
        /\ \A t \in Tasks : Fits(task[t])

-----------------------------------------------------------------------------
LEMMA Nones == None \notin Commands /\ None \notin Runtimes /\ None \notin Procs
  BY NoneAssumption

LEMMA NewRuntimeType == NewRuntime \in RuntimeType
  BY DEF NewRuntime, RuntimeType

LEMMA NoTaskType == NoTask \in TaskType /\ DoneTask \in TaskType
  BY DEF NoTask, DoneTask, TaskType, Pcs

LEMMA InitIInv == Init => IInv
  <1> SUFFICES ASSUME Init PROVE IInv  OBVIOUS
  <1>1. TypeOK
    BY BoundsAssumption, NewRuntimeType, NoTaskType DEF Init, TypeOK
  <1>2. ASSUME NEW r \in Runtimes PROVE Sound(r, rt[r]) /\ QueueOK(r)
    BY DEF Init, Sound, QueueOK, NewRuntime
  <1>3. ASSUME NEW t \in Tasks PROVE Fits(task[t])
    BY DEF Init, Fits, NoTask, Active
  <1> QED  BY <1>1, <1>2, <1>3 DEF IInv

LEMMA StutterIInv == IInv /\ UNCHANGED vars => IInv'
  BY DEF IInv, TypeOK, vars, Sound, QueueOK, Waits, Fits

(* What the invariant says of a task and of its runtime.                    *)
LEMMA TaskFacts ==
  ASSUME IInv, NEW t \in Tasks, task[t].pc \in Active
  PROVE  /\ task[t] \in TaskType /\ task[t].on \in Runtimes /\ Fits(task[t])
         /\ Rt(t) \in RuntimeType /\ Sound(task[t].on, Rt(t))
  BY DEF IInv, TypeOK, Fits, Rt

-----------------------------------------------------------------------------
(* A step that changes one runtime, its processes and its tasks *)

(* The Workspace id of a session is a process.                              *)
LEMMA SessionFacts ==
  ASSUME NEW x \in RuntimeType, NEW n \in DOMAIN x.sessions
  PROVE  x.sessions[n] \in SessionType
  BY DEF RuntimeType

LEMMA RuntimeStep ==
  ASSUME IInv, TypeOK', NEW r \in Runtimes, NEW y \in RuntimeType,
         rt' = [rt EXCEPT ![r] = y], y.queue = rt[r].queue, Sound(r, y)',
         \A q \in Procs : owner[q] \in Runtimes \ {r} => owner'[q] = owner[q],
         \A u \in Tasks : task[u].pc = "queued" => task'[u] = task[u],
         \A u \in Tasks : Fits(task[u])'
  PROVE  IInv'
  <1>1. ASSUME NEW s \in Runtimes PROVE Sound(s, rt[s])'
    <2>1. CASE s = r
      <3>1. rt'[s] = y
        BY <2>1 DEF IInv, TypeOK
      <3> QED  BY <2>1, <3>1 DEF Sound
    <2>2. CASE s # r
      <3>1. rt'[s] = rt[s] /\ rt[s] \in RuntimeType /\ Sound(s, rt[s])
        BY <2>2 DEF IInv, TypeOK
      <3>2. \A q \in Procs : owner[q] = s => owner'[q] = s
        BY <2>2
      <3>3. \A n \in DOMAIN rt[s].sessions : rt[s].sessions[n].id \in Procs \union {None}
        BY <3>1, SessionFacts DEF SessionType
      <3>4. rt[s].child \in Procs \union {None} /\ rt[s].client \in Procs \union {None}
        BY <3>1 DEF RuntimeType
      <3>5. PICK x : x = rt[s]
        OBVIOUS
      <3>6. Sound(s, x)'
        BY <3>1, <3>2, <3>3, <3>4, <3>5 DEF Sound
      <3> QED  BY <3>1, <3>5, <3>6 DEF Sound
    <2> QED  BY <2>1, <2>2
  <1>2. ASSUME NEW s \in Runtimes PROVE QueueOK(s)'
    <2>1. rt'[s].queue = rt[s].queue
      BY DEF IInv, TypeOK
    <2>2. ASSUME NEW c \in Commands, Waits(s, c) PROVE Waits(s, c)'
      <3>1. Command(c) \in Tasks
        BY DEF Command, Tasks
      <3> QED  BY <2>2, <3>1 DEF Waits
    <2>3. \A n \in DOMAIN rt[s].queue : rt[s].queue[n] \in Commands
      BY DEF IInv, TypeOK, RuntimeType
    <2> QED  BY <2>1, <2>2, <2>3 DEF IInv, QueueOK
  <1> QED  BY <1>1, <1>2 DEF IInv

(* A step of one task that changes at most its own runtime.                 *)
LEMMA StepKeeps ==
  ASSUME IInv, NEW t \in Tasks, NEW x \in TaskType, NEW r \in Runtimes, NEW y \in RuntimeType,
         task' = [task EXCEPT ![t] = x], rt' = [rt EXCEPT ![r] = y], owner' = owner,
         pool' \in PoolType, bound' \in SUBSET Commands, faults' \in 0..MaxFaults,
         task[t].pc # "queued", y.queue = rt[r].queue, Sound(r, y), Fits(x)',
         \/ y.stop = rt[r].stop
         \/ \A u \in Tasks \ {t} : task[u].on = r => task[u].pc # "respawn"
  PROVE  IInv'
  <1>1. TypeOK'
    BY DEF IInv, TypeOK, PoolType
  <1>2. Sound(r, y)'
    BY DEF Sound
  <1>3. \A u \in Tasks \ {t} : task'[u] = task[u]
    BY DEF IInv, TypeOK
  <1>4. ASSUME NEW u \in Tasks PROVE Fits(task[u])'
    <2>1. CASE u = t
      <3>1. task'[u] = x
        BY <2>1 DEF IInv, TypeOK
      <3> QED  BY <3>1 DEF Fits
    <2>2. CASE u # t
      <3>1. task'[u] = task[u] /\ Fits(task[u])
        BY <2>2, <1>3 DEF IInv
      <3>2. task[u].pc = "respawn" => rt'[task[u].on].stop = "none"
        BY <2>2, <3>1 DEF Fits, Active, Pcs, IInv, TypeOK
      <3> QED  BY <3>1, <3>2 DEF Fits
    <2> QED  BY <2>1, <2>2
  <1> QED  BY <1>1, <1>2, <1>3, <1>4, RuntimeStep

(* The runtime stays as it is.                                              *)
LEMMA TaskKeeps ==
  ASSUME IInv, NEW t \in Tasks, NEW x \in TaskType, task' = [task EXCEPT ![t] = x],
         UNCHANGED <<rt, owner>>, pool' \in PoolType, bound' \in SUBSET Commands,
         faults' \in 0..MaxFaults, task[t].pc \in Active, task[t].pc # "queued", Fits(x)
  PROVE  IInv'
  <1>1. PICK r \in Runtimes : r = task[t].on
    BY TaskFacts
  <1>2. PICK y \in RuntimeType : y = rt[r] /\ Sound(r, y)
    BY <1>1, TaskFacts DEF Rt
  <1>3. rt' = [rt EXCEPT ![r] = y]
    BY <1>1, <1>2 DEF IInv, TypeOK
  <1>4. Fits(x)'
    BY DEF Fits
  <1> QED  BY <1>1, <1>2, <1>3, <1>4, StepKeeps

LEMMA PcSet == Pcs = Active \union {"none", "done"}
  BY DEF Pcs, Active

To(x, pc, p) == [x EXCEPT !.pc = pc, !.to = p]
LEMMA PcTo ==
  ASSUME NEW x \in TaskType, NEW pc \in Pcs, NEW p \in Procs \union {None}
  PROVE  /\ To(x, pc, p) \in TaskType
         /\ To(x, pc, p).pc = pc /\ To(x, pc, p).to = p /\ To(x, pc, p).kind = x.kind
         /\ To(x, pc, p).on = x.on /\ To(x, pc, p).client = x.client
         /\ To(x, pc, p).handle = x.handle
  BY DEF TaskType, To

LEMMA PcOnly ==
  ASSUME NEW x \in TaskType, NEW pc \in Pcs
  PROVE  \E z \in TaskType : /\ z = [x EXCEPT !.pc = pc]
                             /\ z.pc = pc /\ z.to = x.to /\ z.kind = x.kind
                             /\ z.on = x.on /\ z.client = x.client /\ z.handle = x.handle
  <1>1. [x EXCEPT !.pc = pc] \in TaskType
    BY DEF TaskType
  <1> QED  BY <1>1 DEF TaskType

(* Where a task must have what it waits for.                                *)
Waiting == {"hello", "resolve", "opening", "calling", "respawn", "queued"}

LEMMA GoesKeeps ==
  ASSUME IInv, NEW t \in Tasks, NEW pc \in Active \ Waiting, Goes(t, pc),
         task[t].pc \in Active, task[t].pc # "queued",
         UNCHANGED <<rt, owner>>, pool' \in PoolType, bound' \in SUBSET Commands,
         faults' \in 0..MaxFaults
  PROVE  IInv'
  <1>1. task[t] \in TaskType /\ Fits(task[t])
    BY TaskFacts
  <1>2. PICK x \in TaskType : /\ x = [task[t] EXCEPT !.pc = pc]
                              /\ x.pc = pc /\ x.to = task[t].to /\ x.kind = task[t].kind
                              /\ x.on = task[t].on /\ x.client = task[t].client
                              /\ x.handle = task[t].handle
    BY <1>1, PcOnly DEF Active
  <1>3. task' = [task EXCEPT ![t] = x]
    BY <1>2 DEF Goes
  <1>4. Fits(x)
    BY <1>1, <1>2 DEF Fits, Waiting
  <1> QED  BY <1>3, <1>4, TaskKeeps

LEMMA Unchanged ==
  ASSUME IInv
  PROVE  /\ UNCHANGED pool => pool' \in PoolType
         /\ UNCHANGED bound => bound' \in SUBSET Commands
         /\ UNCHANGED faults \/ Fault => faults' \in 0..MaxFaults
  BY BoundsAssumption DEF IInv, TypeOK, PoolType, Fault

LEMMA BeginStartStep ==
  ASSUME IInv, NEW t \in Tasks, BeginStart(t)
  PROVE  IInv'
  BY GoesKeeps, Unchanged DEF BeginStart, MayStart, At, Active, Pcs, Waiting

LEMMA StartFailsStep ==
  ASSUME IInv, NEW t \in Tasks, StartFails(t)
  PROVE  IInv'
  BY GoesKeeps, Unchanged DEF StartFails, Launches, At, Active, Pcs, Waiting

(* A task that sends to one that lives waits for it; else it is refused.    *)
LEMMA SendsTask ==
  ASSUME IInv, NEW t \in Tasks, NEW pc \in {"opening", "calling"}, NEW p \in Procs,
         Sends(t, pc, p), owner[p] \in {task[t].on, None}, task[t].client # None,
         task[t].pc \in Active
  PROVE  \E z \in TaskType : /\ task' = [task EXCEPT ![t] = z] /\ Fits(z)
                             /\ z.pc \in {"opening", "calling", "rejected"}
  <1>1. task[t] \in TaskType /\ Fits(task[t])
    BY TaskFacts
  <1>2. CASE owner[p] = None
    <2>1. PICK x \in TaskType : /\ x = To(task[t], "rejected", None)
                                /\ x.pc = "rejected" /\ x.to = None /\ x.kind = task[t].kind
                                /\ x.on = task[t].on /\ x.client = task[t].client
                                /\ x.handle = task[t].handle
      <3>1. "rejected" \in Pcs /\ None \in Procs \union {None}
        BY DEF Pcs
      <3> QED  BY <1>1, <3>1, PcTo
    <2>2. task' = [task EXCEPT ![t] = x]
      BY <1>2, <2>1 DEF Sends, To, IInv, TypeOK
    <2>3. Fits(x)
      BY <1>1, <2>1 DEF Fits, Active, Pcs
    <2> QED  BY <2>1, <2>2, <2>3
  <1>3. CASE owner[p] # None
    <2>1. PICK x \in TaskType : /\ x = To(task[t], pc, p)
                                /\ x.pc = pc /\ x.to = p /\ x.kind = task[t].kind
                                /\ x.on = task[t].on /\ x.client = task[t].client
                                /\ x.handle = task[t].handle
      <3>1. pc \in Pcs /\ p \in Procs \union {None}
        BY DEF Pcs
      <3> QED  BY <1>1, <3>1, PcTo
    <2>2. task' = [task EXCEPT ![t] = x]
      BY <1>3, <2>1 DEF Sends, To, IInv, TypeOK
    <2>3. Fits(x)
      BY <1>1, <1>3, <2>1, Nones DEF Fits, Active, Pcs
    <2> QED  BY <2>1, <2>2, <2>3
  <1> QED  BY <1>2, <1>3

LEMMA SendsKeeps ==
  ASSUME IInv, NEW t \in Tasks, NEW pc \in {"opening", "calling"}, NEW p \in Procs,
         Sends(t, pc, p), owner[p] \in {task[t].on, None}, task[t].client # None,
         task[t].pc \in Active, task[t].pc # "queued",
         UNCHANGED <<rt, owner>>, UNCHANGED <<pool, bound, faults>>
  PROVE  IInv'
  <1>1. PICK z \in TaskType : task' = [task EXCEPT ![t] = z] /\ Fits(z)
    BY SendsTask
  <1> QED  BY <1>1, TaskKeeps, Unchanged

(* A task that has its answer.                                              *)
LEMMA SettlesKeeps ==
  ASSUME IInv, NEW t \in Tasks, NEW pc \in {"answered", "rejected"},
         task' = [task EXCEPT ![t].pc = pc, ![t].to = None],
         task[t].pc \in Active, task[t].pc # "queued",
         UNCHANGED <<pool, bound, rt, owner>>, faults' \in 0..MaxFaults
  PROVE  IInv'
  <1>1. task[t] \in TaskType /\ Fits(task[t])
    BY TaskFacts
  <1>2. PICK x \in TaskType : /\ x = To(task[t], pc, None)
                              /\ x.pc = pc /\ x.to = None /\ x.kind = task[t].kind
                              /\ x.on = task[t].on /\ x.client = task[t].client
                              /\ x.handle = task[t].handle
    <2>1. pc \in Pcs /\ None \in Procs \union {None}
      BY DEF Pcs
    <2> QED  BY <1>1, <2>1, PcTo
  <1>3. task' = [task EXCEPT ![t] = x]
    BY <1>2 DEF To, IInv, TypeOK
  <1>4. Fits(x)
    BY <1>1, <1>2 DEF Fits, Active, Pcs
  <1> QED  BY <1>3, <1>4, TaskKeeps, Unchanged

LEMMA CalledStep ==
  ASSUME IInv, NEW t \in Tasks, Called(t)
  PROVE  IInv'
  BY SettlesKeeps, Unchanged DEF Called, Answers, At, Active, Pcs

LEMMA RequestFailsStep ==
  ASSUME IInv, NEW t \in Tasks, RequestFails(t)
  PROVE  IInv'
  BY SettlesKeeps, Unchanged DEF RequestFails, Requesting, Active, Pcs

LEMMA ResolveStep ==
  ASSUME IInv, NEW t \in Tasks, Resolve(t)
  PROVE  IInv'
  <1>1. /\ task[t].pc = "resolve" /\ task[t].pc \in Active
        /\ UNCHANGED <<pool, bound, rt, owner, faults>>
    BY DEF Resolve, At, Active, Pcs
  <1>2. /\ task[t] \in TaskType /\ Fits(task[t]) /\ task[t].client \in Procs
        /\ owner[task[t].client] \in {task[t].on, None}
    BY <1>1, TaskFacts DEF Fits, TaskType
  <1>3. \/ Sends(t, "opening", task[t].client)
        \/ Sends(t, "calling", task[t].client)
        \/ Goes(t, "answered") \/ Goes(t, "rejected") \/ Goes(t, "start")
        \/ Rt(t).client # None /\ Sends(t, "opening", Rt(t).client)
    <2>1. task[t].kind \in {"open", "run", "close", "recover"}
      BY <1>1, <1>2 DEF Fits, TaskType
    <2>2. CASE task[t].kind = "open"
      BY <2>2 DEF Resolve
    <2>3. CASE task[t].kind = "close"
      BY <2>3 DEF Resolve
    <2>4. CASE task[t].kind \in {"run", "recover"} /\ Session(task[t].on, task[t].handle) = {}
      BY <2>4 DEF Resolve
    <2>5. CASE task[t].kind \in {"run", "recover"} /\ Session(task[t].on, task[t].handle) # {}
      <3>1. CASE IdOf(t) # None \/ Rt(t).client # None
        BY <2>5, <3>1 DEF Resolve, Rt
      <3>2. CASE IdOf(t) = None /\ Rt(t).client = None
        BY <2>5, <3>2 DEF Resolve, Rt
      <3> QED  BY <3>1, <3>2
    <2> QED  BY <2>1, <2>2, <2>3, <2>4, <2>5
  <1>4. CASE Sends(t, "opening", task[t].client) \/ Sends(t, "calling", task[t].client)
    BY <1>1, <1>2, <1>4, SendsKeeps, Nones
  <1>5. CASE Goes(t, "answered") \/ Goes(t, "rejected") \/ Goes(t, "start")
    BY <1>1, <1>5, GoesKeeps, Unchanged DEF Active, Pcs, Waiting
  <1>6. CASE Rt(t).client # None /\ Sends(t, "opening", Rt(t).client)
    <2>1. Rt(t).client \in Procs /\ owner[Rt(t).client] = task[t].on
      BY <1>1, <1>6, TaskFacts DEF Sound, RuntimeType
    <2> QED  BY <1>1, <1>2, <1>6, <2>1, SendsKeeps, Nones
  <1> QED  BY <1>3, <1>4, <1>5, <1>6

-----------------------------------------------------------------------------
(* The start of a sidecar *)

LEMMA SessionsType ==
  ASSUME NEW x \in RuntimeType
  PROVE  /\ WithoutIds(x.sessions) \in Seq(SessionType)
         /\ DOMAIN WithoutIds(x.sessions) = DOMAIN x.sessions
         /\ \A n \in DOMAIN x.sessions : WithoutIds(x.sessions)[n].id = None
  <1>1. PICK m \in Nat : x.sessions \in [1..m -> SessionType]
    BY DEF RuntimeType
  <1>2. WithoutIds(x.sessions) \in [1..m -> SessionType]
    BY <1>1 DEF WithoutIds, SessionType
  <1>3. \A n \in DOMAIN x.sessions : WithoutIds(x.sessions)[n].id = None
    BY <1>1 DEF WithoutIds, SessionType
  <1> QED  BY <1>1, <1>2, <1>3 DEF WithoutIds

LEMMA DetachedFacts ==
  ASSUME NEW x \in RuntimeType
  PROVE  /\ Detached(x) \in RuntimeType /\ Detached(x).queue = x.queue
         /\ Detached(x).child = x.child /\ Detached(x).stop = x.stop
         /\ Detached(x).shuttingDown = x.shuttingDown /\ Detached(x).client = None
         /\ Detached(x).sessions = WithoutIds(x.sessions)
  BY SessionsType DEF RuntimeType, Detached

LEMMA AttachedFacts ==
  ASSUME NEW x \in RuntimeType, NEW p \in Procs
  PROVE  /\ Attached(x, p) \in RuntimeType /\ Attached(x, p).queue = x.queue
         /\ Attached(x, p).child = x.child /\ Attached(x, p).stop = x.stop
         /\ Attached(x, p).shuttingDown = x.shuttingDown /\ Attached(x, p).client = p
         /\ \/ x.client = p /\ Attached(x, p).sessions = x.sessions
            \/ Attached(x, p).sessions = WithoutIds(x.sessions)
  <1>1. CASE x.client = p
    BY <1>1 DEF Attached
  <1>2. CASE x.client # p
    <2>1. [Detached(x) EXCEPT !.client = p] \in RuntimeType
      BY DetachedFacts DEF RuntimeType
    <2> QED  BY <1>2, <2>1, DetachedFacts DEF Attached, RuntimeType
  <1> QED  BY <1>1, <1>2

StartedTask(x, p, ready) ==
  [x EXCEPT !.client = IF @ = None THEN p ELSE @,
            !.pc = IF ready THEN "resolve" ELSE "hello", !.to = IF ready THEN None ELSE p]

LEMMA StartedFacts ==
  ASSUME NEW x \in TaskType, NEW p \in Procs, NEW ready \in BOOLEAN
  PROVE  /\ StartedTask(x, p, ready) \in TaskType
         /\ StartedTask(x, p, ready).on = x.on
         /\ StartedTask(x, p, ready).kind = x.kind
         /\ StartedTask(x, p, ready).handle = x.handle
         /\ StartedTask(x, p, ready).client = IF x.client = None THEN p ELSE x.client
         /\ \/ StartedTask(x, p, ready).pc = "resolve" /\ StartedTask(x, p, ready).to = None
            \/ StartedTask(x, p, ready).pc = "hello" /\ StartedTask(x, p, ready).to = p
  BY DEF StartedTask, TaskType, Pcs

LEMMA StartedIs ==
  ASSUME IInv, NEW t \in Tasks, task[t].pc \in Active, NEW x \in RuntimeType, NEW p \in Procs,
         Started(t, x, p)
  PROVE  /\ rt' = [rt EXCEPT ![task[t].on] = Attached(x, p)]
         /\ \E ready \in BOOLEAN : task' = [task EXCEPT ![t] = StartedTask(task[t], p, ready)]
  <1>1. Attached(x, p).ready \in BOOLEAN
    BY AttachedFacts DEF RuntimeType
  <1>2. task' = [task EXCEPT ![t] = StartedTask(task[t], p, Attached(x, p).ready)]
    BY DEF Started, StartedTask, IInv, TypeOK
  <1> QED  BY <1>1, <1>2 DEF Started, Becomes

LEMMA ReuseStep ==
  ASSUME IInv, NEW t \in Tasks, Reuse(t)
  PROVE  IInv'
  <1>1. task[t].pc = "env" /\ task[t].pc \in Active /\ UNCHANGED <<pool, bound, owner, faults>>
    BY DEF Reuse, At, Active, Pcs
  <1>2. PICK r \in Runtimes : r = task[t].on
    BY <1>1, TaskFacts
  <1>3. PICK x \in RuntimeType : x = rt[r] /\ x = Rt(t) /\ Sound(r, x)
    BY <1>1, <1>2, TaskFacts DEF Rt
  <1>4. PICK p \in Procs : p = x.child /\ owner[p] = r
    BY <1>3 DEF Reuse, Sound, RuntimeType
  <1>5. PICK y \in RuntimeType : y = Attached(x, p)
    BY AttachedFacts
  <1>6. y.queue = rt[r].queue /\ y.stop = rt[r].stop /\ Sound(r, y)
    BY <1>3, <1>4, <1>5, AttachedFacts, SessionsType DEF Sound
  <1>7. Started(t, x, p)
    BY <1>3, <1>4 DEF Reuse
  <1>8. PICK ready \in BOOLEAN : task' = [task EXCEPT ![t] = StartedTask(task[t], p, ready)]
    BY <1>1, <1>7, StartedIs
  <1>9. rt' = [rt EXCEPT ![r] = y]
    BY <1>1, <1>2, <1>5, <1>7, StartedIs
  <1>10. task[t] \in TaskType /\ Fits(task[t])
    BY <1>1, TaskFacts
  <1>11. PICK z \in TaskType : z = StartedTask(task[t], p, ready)
    BY <1>10, StartedFacts
  <1>12. Fits(z)
    BY <1>1, <1>2, <1>4, <1>10, <1>11, StartedFacts, Nones DEF Fits, Active, Pcs
  <1>13. Fits(z)'
    BY <1>1, <1>12, <1>11, <1>10, StartedFacts DEF Fits
  <1> QED  BY <1>1, <1>6, <1>8, <1>9, <1>11, <1>13, StepKeeps, Unchanged

LEMMA FreshFacts ==
  ASSUME IInv, NEW p \in Procs, FreshProc(p)
  PROVE  /\ owner[p] = None
         /\ \A t \in Tasks : task[t].client # p /\ task[t].to # p
  BY DEF FreshProc

(* The process that is launched is referred to by nothing yet.              *)
LEMMA SpawnStep ==
  ASSUME IInv, NEW t \in Tasks, Spawn(t)
  PROVE  IInv'
  <1>1. /\ task[t].pc \in {"env", "respawn"} /\ task[t].pc \in Active
        /\ UNCHANGED <<pool, bound, faults>>
    BY DEF Spawn, Launches, At, Active, Pcs
  <1>2. PICK r \in Runtimes : r = task[t].on
    BY <1>1, TaskFacts
  <1>3. PICK x \in RuntimeType : x = rt[r] /\ x = Rt(t) /\ Sound(r, x)
    BY <1>1, <1>2, TaskFacts DEF Rt
  <1>4. x.stop = "none"
    BY <1>1, <1>2, <1>3, TaskFacts DEF Spawn, Launches, At, Sound, Fits
  <1>5. PICK p \in Procs : /\ FreshProc(p) /\ owner' = [owner EXCEPT ![p] = r]
                           /\ Started(t, [x EXCEPT !.child = p, !.shuttingDown = FALSE], p)
    BY <1>2, <1>3 DEF Spawn
  <1>6. PICK w \in RuntimeType : w = [x EXCEPT !.child = p, !.shuttingDown = FALSE]
    BY DEF RuntimeType
  <1>7. PICK y \in RuntimeType : y = Attached(w, p)
    BY AttachedFacts
  <1>8. rt' = [rt EXCEPT ![r] = y]
    BY <1>1, <1>2, <1>5, <1>6, <1>7, StartedIs
  <1>9. PICK ready \in BOOLEAN : task' = [task EXCEPT ![t] = StartedTask(task[t], p, ready)]
    BY <1>1, <1>5, <1>6, StartedIs
  <1>10. task[t] \in TaskType /\ Fits(task[t])
    BY <1>1, TaskFacts
  <1>11. PICK z \in TaskType : z = StartedTask(task[t], p, ready)
    BY <1>10, StartedFacts
  <1>12. owner' \in [Procs -> Runtimes \union {None}]
    BY <1>5 DEF IInv, TypeOK
  <1>13. TypeOK'
    BY <1>1, <1>8, <1>9, <1>11, <1>12 DEF IInv, TypeOK
  <1>14. w.queue = rt[r].queue /\ w.child = p /\ w.stop = "none" /\ w.shuttingDown = FALSE
    BY <1>3, <1>4, <1>6 DEF RuntimeType
  <1>15. w.client = x.client /\ w.client # p
    BY <1>3, <1>5, <1>6 DEF RuntimeType, FreshProc
  <1>16. /\ y.queue = rt[r].queue /\ y.child = p /\ y.stop = "none" /\ y.shuttingDown = FALSE
         /\ y.client = p /\ y.sessions = WithoutIds(w.sessions)
    BY <1>7, <1>14, <1>15, AttachedFacts
  <1>17. owner'[p] = r
    BY <1>5 DEF IInv, TypeOK
  <1>18. Sound(r, y)'
    BY <1>6, <1>16, <1>17, SessionsType DEF Sound
  <1>19. \A q \in Procs \ {p} : owner'[q] = owner[q]
    BY <1>5, <1>12 DEF IInv, TypeOK
  <1>20. \A q \in Procs : owner[q] \in Runtimes \ {r} => owner'[q] = owner[q]
    BY <1>5, <1>19, FreshFacts, Nones
  <1>21. \A u \in Tasks \ {t} : task'[u] = task[u]
    BY <1>9 DEF IInv, TypeOK
  <1>22. ASSUME NEW u \in Tasks PROVE Fits(task[u])'
    <2>1. CASE u = t
      <3>1. task'[u] = z
        BY <2>1, <1>9, <1>11 DEF IInv, TypeOK
      <3>2. /\ z.on = r /\ z.kind # "none" /\ z.handle \in Commands
            /\ z.client = IF task[t].client = None THEN p ELSE task[t].client
            /\ \/ z.pc = "resolve" /\ z.to = None
               \/ z.pc = "hello" /\ z.to = p
        <4>1. /\ z.on = task[t].on /\ z.kind = task[t].kind /\ z.handle = task[t].handle
              /\ z.client = IF task[t].client = None THEN p ELSE task[t].client
              /\ \/ z.pc = "resolve" /\ z.to = None
                 \/ z.pc = "hello" /\ z.to = p
          BY <1>10, <1>11, StartedFacts
        <4>2. task[t].kind # "none" /\ task[t].handle \in Commands
          BY <1>1, <1>10 DEF Fits
        <4> QED  BY <4>1, <4>2, <1>2
      <3>3. task[t].client # None =>
              task[t].client \in Procs \ {p} /\ owner[task[t].client] \in {r, None}
        BY <1>2, <1>5, <1>10, FreshFacts DEF Fits, TaskType
      <3>4. z.client # None /\ owner'[z.client] \in {r, None}
        BY <3>2, <3>3, <1>17, <1>19, Nones
      <3> QED  BY <3>1, <3>2, <3>4, <1>17, Nones DEF Fits, Active, Pcs
    <2>2. CASE u # t
      <3>1. task'[u] = task[u] /\ Fits(task[u]) /\ task[u] \in TaskType
        BY <2>2, <1>21 DEF IInv, TypeOK
      <3>2. /\ task[u].client # None => owner'[task[u].client] = owner[task[u].client]
            /\ task[u].to # None => owner'[task[u].to] = owner[task[u].to]
        BY <3>1, <1>5, <1>19, FreshFacts DEF TaskType
      <3>3. task[u].pc = "respawn" => rt'[task[u].on].stop = "none"
        BY <3>1, <1>8, <1>16 DEF Fits, Active, Pcs, IInv, TypeOK
      <3> QED  BY <3>1, <3>2, <3>3 DEF Fits
    <2> QED  BY <2>1, <2>2
  <1>23. \A u \in Tasks : task[u].pc = "queued" => task'[u] = task[u]
    BY <1>1, <1>21
  <1> QED  BY <1>8, <1>13, <1>16, <1>18, <1>20, <1>22, <1>23, RuntimeStep

LEMMA StoppingFacts ==
  ASSUME NEW x \in RuntimeType
  PROVE  /\ Stopping(x) \in RuntimeType /\ Stopping(x).queue = x.queue
         /\ Stopping(x).child = x.child /\ Stopping(x).client = x.client
         /\ Stopping(x).sessions = x.sessions /\ Stopping(x).shuttingDown
         /\ Stopping(x).stop # "none"
  BY DEF RuntimeType, Stopping

LEMMA RestartStep ==
  ASSUME IInv, NEW t \in Tasks, Restart(t)
  PROVE  IInv'
  <1>1. /\ task[t].pc = "env" /\ task[t].pc \in Active
        /\ UNCHANGED <<pool, bound, owner>> /\ Fault
    BY DEF Restart, At, Active, Pcs
  <1>2. PICK r \in Runtimes : r = task[t].on
    BY <1>1, TaskFacts
  <1>3. PICK x \in RuntimeType : x = rt[r] /\ x = Rt(t) /\ Sound(r, x)
    BY <1>1, <1>2, TaskFacts DEF Rt
  <1>4. PICK y \in RuntimeType : y = Stopping(x)
    BY StoppingFacts
  <1>5. rt' = [rt EXCEPT ![r] = y] /\ y.queue = rt[r].queue /\ Sound(r, y)
    BY <1>2, <1>3, <1>4, StoppingFacts DEF Restart, Becomes, Sound
  <1>6. task[t] \in TaskType /\ Fits(task[t])
    BY <1>1, TaskFacts
  <1>7. PICK z \in TaskType : /\ z = [task[t] EXCEPT !.pc = "restart"]
                              /\ z.pc = "restart" /\ z.to = task[t].to /\ z.kind = task[t].kind
                              /\ z.on = task[t].on /\ z.client = task[t].client
                              /\ z.handle = task[t].handle
    <2>1. "restart" \in Pcs
      BY DEF Pcs
    <2> QED  BY <1>6, <2>1, PcOnly
  <1>8. task' = [task EXCEPT ![t] = z]
    BY <1>7 DEF Restart, Goes
  <1>9. Fits(z)
    BY <1>1, <1>6, <1>7 DEF Fits, Active, Pcs
  <1>10. Fits(z)'
    BY <1>1, <1>7, <1>9 DEF Fits
  <1>11. \A u \in Tasks : task[u].pc # "respawn"
    BY DEF Restart, Calm, Urgent, Continues
  <1> QED  BY <1>1, <1>5, <1>8, <1>10, <1>11, StepKeeps, Unchanged

LEMMA HelloStep ==
  ASSUME IInv, NEW t \in Tasks, Hello(t)
  PROVE  IInv'
  <1>1. /\ task[t].pc = "hello" /\ task[t].pc \in Active
        /\ UNCHANGED <<pool, bound, owner, faults>>
    BY DEF Hello, Answers, At, Active, Pcs
  <1>2. PICK r \in Runtimes : r = task[t].on
    BY <1>1, TaskFacts
  <1>3. PICK x \in RuntimeType : x = rt[r] /\ Sound(r, x)
    BY <1>1, <1>2, TaskFacts DEF Rt
  <1>4. PICK y \in RuntimeType : y = [x EXCEPT !.ready = TRUE]
    BY DEF RuntimeType
  <1>5. y.queue = x.queue /\ y.stop = x.stop /\ Sound(r, y)
    BY <1>3, <1>4 DEF Sound, RuntimeType
  <1>6. rt' = [rt EXCEPT ![r] = y]
    BY <1>2, <1>3, <1>4 DEF Hello, IInv, TypeOK
  <1>7. task[t] \in TaskType /\ Fits(task[t])
    BY <1>1, TaskFacts
  <1>8. PICK z \in TaskType : /\ z = To(task[t], "resolve", None)
                              /\ z.pc = "resolve" /\ z.to = None /\ z.kind = task[t].kind
                              /\ z.on = task[t].on /\ z.client = task[t].client
                              /\ z.handle = task[t].handle
    <2>1. "resolve" \in Pcs
      BY DEF Pcs
    <2> QED  BY <1>7, <2>1, PcTo
  <1>9. task' = [task EXCEPT ![t] = z]
    BY <1>8 DEF Hello, To, IInv, TypeOK
  <1>10. Fits(z)
    BY <1>1, <1>7, <1>8 DEF Fits, Active, Pcs
  <1>11. Fits(z)'
    BY <1>1, <1>8, <1>10 DEF Fits
  <1> QED  BY <1>1, <1>3, <1>5, <1>6, <1>9, <1>11, StepKeeps, Unchanged

-----------------------------------------------------------------------------
(* The sessions *)

Entry(h, p) == [handle |-> h, id |-> p]
Renamed(x, ns, p) ==
  [x EXCEPT !.sessions = [n \in DOMAIN @ |-> IF n \in ns THEN [@[n] EXCEPT !.id = p] ELSE @[n]]]

LEMMA RenamedFacts ==
  ASSUME NEW x \in RuntimeType, NEW ns, NEW p \in Procs
  PROVE  /\ Renamed(x, ns, p) \in RuntimeType
         /\ Renamed(x, ns, p).queue = x.queue /\ Renamed(x, ns, p).stop = x.stop
         /\ Renamed(x, ns, p).child = x.child /\ Renamed(x, ns, p).client = x.client
         /\ Renamed(x, ns, p).shuttingDown = x.shuttingDown
         /\ DOMAIN Renamed(x, ns, p).sessions = DOMAIN x.sessions
         /\ \A n \in DOMAIN x.sessions :
              Renamed(x, ns, p).sessions[n].id \in {p, x.sessions[n].id}
  <1> DEFINE s == [n \in DOMAIN x.sessions |->
                     IF n \in ns THEN [x.sessions[n] EXCEPT !.id = p] ELSE x.sessions[n]]
  <1>1. PICK m \in Nat : x.sessions \in [1..m -> SessionType]
    BY DEF RuntimeType
  <1>2. \A n \in 1..m : s[n] \in SessionType /\ s[n].id \in {p, x.sessions[n].id}
    BY <1>1 DEF SessionType
  <1>3. s \in Seq(SessionType) /\ DOMAIN s = DOMAIN x.sessions
    <2>1. s \in [1..m -> SessionType] /\ DOMAIN s = DOMAIN x.sessions
      BY <1>1, <1>2
    <2> HIDE DEF s
    <2> QED  BY <2>1
  <1>4. Renamed(x, ns, p) = [x EXCEPT !.sessions = s]
    BY DEF Renamed, RuntimeType
  <1> HIDE DEF s
  <1> QED  BY <1>1, <1>2, <1>3, <1>4 DEF RuntimeType

LEMMA AppendFacts ==
  ASSUME NEW q \in Seq(SessionType), NEW e \in SessionType
  PROVE  /\ Append(q, e) \in Seq(SessionType)
         /\ \A n \in DOMAIN Append(q, e) :
              Append(q, e)[n] = e \/ (n \in DOMAIN q /\ Append(q, e)[n] = q[n])
  <1>1. PICK m \in Nat : q \in [1..m -> SessionType] /\ Len(q) = m
    OBVIOUS
  <1>2. Append(q, e) \in Seq(SessionType) /\ DOMAIN Append(q, e) = 1..m + 1
    BY <1>1
  <1>3. ASSUME NEW n \in 1..m + 1
        PROVE  Append(q, e)[n] = IF n = m + 1 THEN e ELSE q[n]
    BY <1>1, <1>3
  <1>4. ASSUME NEW n \in 1..m + 1
        PROVE  Append(q, e)[n] = e \/ (n \in 1..m /\ Append(q, e)[n] = q[n])
    <2>1. CASE n = m + 1
      BY <1>3, <1>4, <2>1
    <2>2. CASE n # m + 1
      <3>1. n \in 1..m
        BY <1>1, <1>4, <2>2
      <3> QED  BY <1>3, <1>4, <2>2, <3>1
    <2> QED  BY <2>1, <2>2
  <1> QED  BY <1>1, <1>2, <1>4

LEMMA OpenedStep ==
  ASSUME IInv, NEW t \in Tasks, Opened(t)
  PROVE  IInv'
  <1>1. /\ task[t].pc = "opening" /\ task[t].pc \in Active
        /\ UNCHANGED <<pool, bound, owner, faults>>
    BY DEF Opened, Answers, At, Active, Pcs
  <1>2. PICK r \in Runtimes : r = task[t].on
    BY <1>1, TaskFacts
  <1>3. PICK x \in RuntimeType : x = rt[r] /\ Sound(r, x)
    BY <1>1, <1>2, TaskFacts DEF Rt
  <1>4. task[t] \in TaskType /\ Fits(task[t])
    BY <1>1, TaskFacts
  <1>5. PICK p \in Procs : p = task[t].to /\ owner[p] = r
    BY <1>1, <1>2, <1>4 DEF Fits, TaskType
  <1>6. PICK h \in Commands : h = task[t].handle
    BY <1>1, <1>4 DEF Fits
  <1>7. CASE task[t].kind = "open"
    <2>1. PICK e \in SessionType : e = Entry(h, p) /\ e.id = p
      <3>1. Entry(h, p) \in SessionType /\ Entry(h, p).id = p
        BY DEF Entry, SessionType
      <3> QED  BY <3>1
    <2>2. x.sessions \in Seq(SessionType)
      BY DEF RuntimeType
    <2>3. PICK y \in RuntimeType : y = [x EXCEPT !.sessions = Append(@, e)]
      BY <2>2, AppendFacts DEF RuntimeType
    <2>4. /\ y.queue = x.queue /\ y.stop = x.stop /\ y.sessions = Append(x.sessions, e)
          /\ y.child = x.child /\ y.client = x.client /\ y.shuttingDown = x.shuttingDown
      BY <2>3 DEF RuntimeType
    <2>5. Sound(r, y)
      BY <1>3, <1>5, <2>1, <2>2, <2>4, AppendFacts DEF Sound
    <2>6. rt' = [rt EXCEPT ![r] = y] /\ task' = [task EXCEPT ![t].pc = "answered", ![t].to = None]
      BY <1>2, <1>3, <1>5, <1>6, <1>7, <2>1, <2>3 DEF Opened, Entry, IInv, TypeOK
    <2>7. PICK z \in TaskType : /\ z = To(task[t], "answered", None)
                                /\ z.pc = "answered" /\ z.to = None /\ z.kind = task[t].kind
                                /\ z.on = task[t].on /\ z.client = task[t].client
                                /\ z.handle = task[t].handle
      <3>1. "answered" \in Pcs
        BY DEF Pcs
      <3> QED  BY <1>4, <3>1, PcTo
    <2>8. task' = [task EXCEPT ![t] = z]
      BY <2>6, <2>7 DEF To, IInv, TypeOK
    <2>9. Fits(z)
      BY <1>1, <1>4, <2>7 DEF Fits, Active, Pcs
    <2>10. Fits(z)'
      BY <1>1, <2>7, <2>9 DEF Fits
    <2> QED  BY <1>1, <1>3, <2>4, <2>5, <2>6, <2>8, <2>10, StepKeeps, Unchanged
  <1>8. CASE task[t].kind # "open" /\ Session(r, h) = {}
    <2>1. task' = [task EXCEPT ![t].pc = "rejected", ![t].to = None] /\ UNCHANGED rt
      BY <1>2, <1>6, <1>8 DEF Opened
    <2> QED  BY <1>1, <2>1, SettlesKeeps, Unchanged
  <1>9. CASE task[t].kind # "open" /\ Session(r, h) # {}
    <2>1. rt' = [rt EXCEPT ![r] = Renamed(x, Session(r, h), p)]
      BY <1>2, <1>3, <1>5, <1>6, <1>9 DEF Opened, Renamed, IInv, TypeOK
    <2>2. PICK y \in RuntimeType : y = Renamed(x, Session(r, h), p)
      BY RenamedFacts
    <2>3. y.queue = x.queue /\ y.stop = x.stop /\ Sound(r, y)
      BY <1>3, <1>5, <2>2, RenamedFacts DEF Sound
    <2>4. Sends(t, "calling", task[t].client)
      BY <1>2, <1>6, <1>9 DEF Opened
    <2>5. task[t].client \in Procs /\ owner[task[t].client] \in {task[t].on, None}
      BY <1>1, <1>4 DEF Fits, TaskType
    <2>6. PICK z \in TaskType : /\ task' = [task EXCEPT ![t] = z] /\ Fits(z)
                                /\ z.pc \in {"opening", "calling", "rejected"}
      BY <1>1, <2>4, <2>5, SendsTask, Nones
    <2>7. Fits(z)'
      BY <1>1, <2>6 DEF Fits
    <2> QED  BY <1>1, <1>3, <2>1, <2>2, <2>3, <2>6, <2>7, StepKeeps, Unchanged
  <1> QED  BY <1>7, <1>8, <1>9

-----------------------------------------------------------------------------
(* The end of a task *)

LEMMA EndsTask ==
  ASSUME NEW t \in Tasks, Ends(t)
  PROVE  \E z \in TaskType : task' = [task EXCEPT ![t] = z] /\ Fits(z) /\ Fits(z)'
  <1>1. \A z \in {DoneTask, NoTask} : z \in TaskType /\ Fits(z) /\ Fits(z)'
    BY NoTaskType DEF DoneTask, NoTask, Fits, Active
  <1> QED  BY <1>1 DEF Ends

LEMMA ReleasedFacts ==
  ASSUME NEW x \in RuntimeType
  PROVE  /\ Released(x) \in RuntimeType /\ Released(x).queue = x.queue
         /\ Released(x).child = x.child /\ Released(x).stop = x.stop
         /\ Released(x).shuttingDown = x.shuttingDown /\ Released(x).client = x.client
         /\ Released(x).sessions = x.sessions
  BY DEF RuntimeType, Released

(* A task that ends, or goes on as another one, leaves its runtime sound.   *)
LEMMA EndKeeps ==
  ASSUME IInv, NEW t \in Tasks, NEW r \in Runtimes, r = task[t].on, NEW y \in RuntimeType,
         \E z \in TaskType : task' = [task EXCEPT ![t] = z] /\ Fits(z)',
         rt' = [rt EXCEPT ![r] = y], y.queue = rt[r].queue, y.stop = rt[r].stop, Sound(r, y),
         task[t].pc # "queued", UNCHANGED <<owner, faults>>,
         pool' \in PoolType, bound' \in SUBSET Commands
  PROVE  IInv'
  BY StepKeeps, Unchanged

LEMMA NewTaskFacts ==
  ASSUME NEW kind \in {"open", "run", "close", "recover"}, NEW h \in Commands,
         NEW r \in Runtimes, NEW pc \in {"queued", "start"}
  PROVE  /\ NewTask(kind, h, r, pc) \in TaskType
         /\ NewTask(kind, h, r, pc).pc = pc /\ NewTask(kind, h, r, pc).on = r
         /\ Fits(NewTask(kind, h, r, pc)) /\ Fits(NewTask(kind, h, r, pc))'
  <1> DEFINE z == NewTask(kind, h, r, pc)
  <1>1. /\ z \in TaskType /\ z.pc = pc /\ z.kind = kind /\ z.handle = h /\ z.on = r
        /\ z.client = None /\ z.to = None
    BY DEF NewTask, NoTask, TaskType, Pcs
  <1> HIDE DEF z
  <1>2. Fits(z) /\ Fits(z)'
    BY <1>1 DEF Fits, Active, Pcs
  <1> QED  BY <1>1, <1>2 DEF z

LEMMA FinishOpenStep ==
  ASSUME IInv, NEW t \in Tasks, FinishOpen(t)
  PROVE  IInv'
  <1>1. task[t].pc \in Active /\ task[t].pc # "queued" /\ UNCHANGED <<pool, owner, faults>>
    BY DEF FinishOpen, EndsAs, Settled, Active, Pcs
  <1>2. PICK r \in Runtimes : r = task[t].on
    BY <1>1, TaskFacts
  <1>3. PICK x \in RuntimeType : x = rt[r] /\ x = Rt(t) /\ Sound(r, x)
    BY <1>1, <1>2, TaskFacts DEF Rt
  <1>4. PICK y \in RuntimeType : y = Released(x)
    BY ReleasedFacts
  <1>5. y.queue = rt[r].queue /\ y.stop = rt[r].stop /\ Sound(r, y)
    BY <1>3, <1>4, ReleasedFacts DEF Sound
  <1>6. rt' = [rt EXCEPT ![r] = y]
    BY <1>2, <1>3, <1>4 DEF FinishOpen, Becomes
  <1>7. PICK h \in Commands : h = task[t].handle
    BY <1>1, TaskFacts DEF Fits
  <1>8. bound' \in SUBSET Commands
    BY <1>7 DEF FinishOpen, IInv, TypeOK
  <1>9. \E z \in TaskType : task' = [task EXCEPT ![t] = z] /\ Fits(z)'
    <2>1. Ends(t) \/ task' = [task EXCEPT ![t] = NewTask("recover", h, r, "start")]
      BY <1>2, <1>7 DEF FinishOpen
    <2>2. CASE Ends(t)
      BY <2>2, EndsTask
    <2>3. CASE task' = [task EXCEPT ![t] = NewTask("recover", h, r, "start")]
      BY <2>3, NewTaskFacts
    <2> QED  BY <2>1, <2>2, <2>3
  <1> QED  BY <1>1, <1>2, <1>5, <1>6, <1>8, <1>9, EndKeeps, Unchanged

LEMMA FinishRunStep ==
  ASSUME IInv, NEW t \in Tasks, FinishRun(t)
  PROVE  IInv'
  <1>1. /\ task[t].pc \in Active /\ task[t].pc # "queued"
        /\ UNCHANGED <<pool, bound, owner, faults>>
    BY DEF FinishRun, EndsAs, Settled, Active, Pcs
  <1>2. PICK r \in Runtimes : r = task[t].on
    BY <1>1, TaskFacts
  <1>3. PICK x \in RuntimeType : x = rt[r] /\ x = Rt(t) /\ Sound(r, x)
    BY <1>1, <1>2, TaskFacts DEF Rt
  <1>4. PICK y \in RuntimeType : y = Released(x)
    BY ReleasedFacts
  <1>5. y.queue = rt[r].queue /\ y.stop = rt[r].stop /\ Sound(r, y)
    BY <1>3, <1>4, ReleasedFacts DEF Sound
  <1>6. rt' = [rt EXCEPT ![r] = y] /\ Ends(t)
    BY <1>2, <1>3, <1>4 DEF FinishRun, Becomes
  <1> QED  BY <1>1, <1>2, <1>5, <1>6, EndsTask, EndKeeps, Unchanged

LEMMA FinishRecoveryStep ==
  ASSUME IInv, NEW t \in Tasks, FinishRecovery(t)
  PROVE  IInv'
  <1>1. /\ task[t].pc \in Active /\ task[t].pc # "queued"
        /\ UNCHANGED <<pool, bound, owner, faults>>
    BY DEF FinishRecovery, Settled, Active, Pcs
  <1>2. PICK r \in Runtimes : r = task[t].on
    BY <1>1, TaskFacts
  <1>3. PICK x \in RuntimeType : x = rt[r] /\ x = Rt(t) /\ Sound(r, x)
    BY <1>1, <1>2, TaskFacts DEF Rt
  <1>4. PICK h : h = task[t].handle
    OBVIOUS
  <1>5. PICK y \in RuntimeType : y = [x EXCEPT !.attempted = @ \ {h}]
    BY DEF RuntimeType
  <1>6. y.queue = rt[r].queue /\ y.stop = rt[r].stop /\ Sound(r, y)
    BY <1>3, <1>5 DEF Sound, RuntimeType
  <1>7. rt' = [rt EXCEPT ![r] = y] \/ rt' = [rt EXCEPT ![r] = x]
    BY <1>2, <1>3, <1>4, <1>5 DEF FinishRecovery, Becomes
  <1>8. \E z \in TaskType : task' = [task EXCEPT ![t] = z] /\ Fits(z)'
    BY EndsTask DEF FinishRecovery
  <1> QED  BY <1>1, <1>2, <1>3, <1>6, <1>7, <1>8, EndKeeps, Unchanged

(* The sessions that are left are as they were.                             *)
LEMMA WithoutFacts ==
  ASSUME NEW r \in Runtimes, rt[r] \in RuntimeType, NEW h
  PROVE  /\ Without(r, h) \in Seq(SessionType)
         /\ \A n \in DOMAIN Without(r, h) : \E k \in DOMAIN rt[r].sessions :
              Without(r, h)[n] = rt[r].sessions[k]
  <1>1. PICK q \in Seq(SessionType) : q = rt[r].sessions
    BY DEF RuntimeType
  <1>2. CASE Session(r, h) = {}
    BY <1>1, <1>2 DEF Without
  <1>3. CASE Session(r, h) # {}
    <2>1. PICK n \in DOMAIN q : Without(r, h) = RemoveAt(q, n)
      BY <1>1, <1>3 DEF Without, Session
    <2>2. PICK m \in Nat : q \in [1..m -> SessionType] /\ Len(q) = m /\ n \in 1..m
      BY <1>1
    <2>3. RemoveAt(q, n) = [j \in 1..(m - 1) |-> IF j < n THEN q[j] ELSE q[j + 1]]
      BY <2>2 DEF RemoveAt
    <2>4. \A j \in 1..(m - 1) : (IF j < n THEN j ELSE j + 1) \in 1..m
      BY <2>2
    <2>5. m - 1 \in Nat
      BY <2>2
    <2>6. RemoveAt(q, n) \in [1..(m - 1) -> SessionType]
      BY <2>2, <2>3, <2>4
    <2>7. \A j \in 1..(m - 1) : RemoveAt(q, n)[j] = q[IF j < n THEN j ELSE j + 1]
      BY <2>3
    <2>8. RemoveAt(q, n) \in Seq(SessionType) /\ DOMAIN RemoveAt(q, n) = 1..(m - 1)
      BY <2>5, <2>6
    <2>9. \A j \in 1..(m - 1) : \E k \in 1..m : RemoveAt(q, n)[j] = q[k]
      BY <2>4, <2>7
    <2> QED  BY <1>1, <2>1, <2>2, <2>8, <2>9
  <1> QED  BY <1>2, <1>3

LEMMA FinishCloseStep ==
  ASSUME IInv, NEW t \in Tasks, FinishClose(t)
  PROVE  IInv'
  <1>1. /\ task[t].pc \in Active /\ task[t].pc # "queued"
        /\ UNCHANGED <<pool, bound, owner, faults>>
    BY DEF FinishClose, EndsAs, Settled, Active, Pcs
  <1>2. PICK r \in Runtimes : r = task[t].on
    BY <1>1, TaskFacts
  <1>3. PICK x \in RuntimeType : x = rt[r] /\ x = Rt(t) /\ Sound(r, x)
    BY <1>1, <1>2, TaskFacts DEF Rt
  <1>4. PICK q \in Seq(SessionType) : /\ q = Without(r, task[t].handle)
                                      /\ \A n \in DOMAIN q : \E k \in DOMAIN x.sessions :
                                           q[n] = x.sessions[k]
    <2>1. PICK h : h = task[t].handle
      OBVIOUS
    <2>2. rt[r] \in RuntimeType
      BY <1>3
    <2>3. /\ Without(r, h) \in Seq(SessionType)
          /\ \A n \in DOMAIN Without(r, h) : \E k \in DOMAIN rt[r].sessions :
               Without(r, h)[n] = rt[r].sessions[k]
      BY <2>2, WithoutFacts
    <2> QED  BY <1>3, <2>1, <2>3
  <1>5. PICK y \in RuntimeType : y = [Released(x) EXCEPT !.sessions = q]
    BY ReleasedFacts DEF RuntimeType
  <1>6. /\ y.queue = x.queue /\ y.stop = x.stop /\ y.child = x.child /\ y.sessions = q
        /\ y.shuttingDown = x.shuttingDown /\ y.client = x.client
    BY <1>5, ReleasedFacts DEF RuntimeType
  <1>7. Sound(r, y)
    BY <1>3, <1>4, <1>6 DEF Sound
  <1>8. rt' = [rt EXCEPT ![r] = y]
    BY <1>2, <1>3, <1>4, <1>5 DEF FinishClose, Becomes
  <1>9. task[t] \in TaskType /\ Fits(task[t])
    BY <1>1, TaskFacts
  <1>10. PICK z \in TaskType : /\ z = [task[t] EXCEPT !.pc = "released"]
                              /\ z.pc = "released" /\ z.to = task[t].to /\ z.kind = task[t].kind
                              /\ z.on = task[t].on /\ z.client = task[t].client
                              /\ z.handle = task[t].handle
    <2>1. "released" \in Pcs
      BY DEF Pcs
    <2> QED  BY <1>9, <2>1, PcOnly
  <1>11. task' = [task EXCEPT ![t] = z]
    BY <1>10 DEF FinishClose, Goes
  <1>12. Fits(z)
    BY <1>1, <1>9, <1>10 DEF Fits, Active, Pcs
  <1>13. Fits(z)'
    BY <1>1, <1>10, <1>12 DEF Fits
  <1> QED  BY <1>1, <1>2, <1>3, <1>6, <1>7, <1>8, <1>11, <1>13, EndKeeps, Unchanged

-----------------------------------------------------------------------------
(* Stop and exit of a sidecar *)

(* When a stop begins, the runtime keeps what it refers to, or drops it.    *)
LEMMA ShutDownFacts ==
  ASSUME NEW r \in Runtimes, NEW x \in RuntimeType, Sound(r, x)
  PROVE  /\ ShutDown(x) \in RuntimeType /\ ShutDown(x).queue = x.queue /\ Sound(r, ShutDown(x))
         /\ x.child = None => ShutDown(x).stop = x.stop
  <1>1. CASE x.child = None
    BY <1>1, DetachedFacts, SessionsType DEF ShutDown, Sound
  <1>2. CASE x.child # None
    <2>1. PICK z \in RuntimeType : z = Stopping(x)
      BY StoppingFacts
    <2>2. PICK y \in RuntimeType : y = [z EXCEPT !.after = "waits"]
      BY DEF RuntimeType
    <2>3. /\ y.queue = z.queue /\ y.child = z.child /\ y.client = z.client
          /\ y.sessions = z.sessions /\ y.shuttingDown = z.shuttingDown /\ y.stop = z.stop
      BY <2>2 DEF RuntimeType
    <2>4. ShutDown(x) = y
      BY <1>2, <2>1, <2>2 DEF ShutDown
    <2> QED  BY <1>2, <2>1, <2>3, <2>4, StoppingFacts DEF Sound
  <1> QED  BY <1>1, <1>2

(* Dropping what the client had a second time disturbs nobody else.         *)
LEMMA ClearedFacts ==
  ASSUME NEW r \in Runtimes, NEW x \in RuntimeType, Sound(r, x)
  PROVE  \E y \in RuntimeType :
           /\ y = [Detached(x) EXCEPT !.after = "none"] /\ Sound(r, y)
           /\ y.queue = x.queue /\ y.running = x.running /\ y.stop = x.stop
  <1>1. PICK d \in RuntimeType : d = Detached(x) /\ Sound(r, d) /\ d.queue = x.queue
                                 /\ d.stop = x.stop
    BY DetachedFacts, SessionsType DEF Sound
  <1>2. d.running = x.running
    BY <1>1 DEF Detached, RuntimeType
  <1>3. PICK y \in RuntimeType : y = [d EXCEPT !.after = "none"]
    BY DEF RuntimeType
  <1>4. /\ y.queue = d.queue /\ y.child = d.child /\ y.client = d.client /\ y.stop = d.stop
        /\ y.sessions = d.sessions /\ y.shuttingDown = d.shuttingDown
        /\ y.running = d.running
    BY <1>3 DEF RuntimeType
  <1>5. Sound(r, y)
    BY <1>1, <1>4 DEF Sound
  <1> QED  BY <1>1, <1>2, <1>3, <1>4, <1>5

LEMMA ClearAgainStep ==
  ASSUME IInv, NEW r \in Runtimes, ClearAgain(r)
  PROVE  IInv'
  <1>1. PICK x \in RuntimeType : x = rt[r] /\ Sound(r, x)
    BY DEF IInv, TypeOK
  <1>2. PICK y \in RuntimeType :
          /\ y = [Detached(x) EXCEPT !.after = "none"] /\ Sound(r, y)
          /\ y.queue = x.queue /\ y.running = x.running /\ y.stop = x.stop
    BY <1>1, ClearedFacts
  <1>3. rt' = [rt EXCEPT ![r] = y] /\ UNCHANGED <<pool, bound, owner, task, faults>>
    BY <1>1, <1>2 DEF ClearAgain, Becomes
  <1>4. TypeOK'
    BY <1>3 DEF IInv, TypeOK
  <1>5. Sound(r, y)'
    BY <1>2, <1>3 DEF Sound
  <1>6. \A s \in Runtimes : rt'[s].stop = rt[s].stop
    BY <1>1, <1>2, <1>3 DEF IInv, TypeOK
  <1>7. ASSUME NEW u \in Tasks PROVE Fits(task[u])'
    <2>1. task'[u] = task[u] /\ Fits(task[u])
      BY <1>3 DEF IInv
    <2>2. task[u].pc = "respawn" => rt'[task[u].on].stop = "none"
      BY <1>6, <2>1 DEF Fits, Active, Pcs
    <2> QED  BY <1>3, <2>1, <2>2 DEF Fits
  <1> QED  BY <1>1, <1>2, <1>3, <1>4, <1>5, <1>7, RuntimeStep

LEMMA ReleaseStep ==
  ASSUME IInv, NEW t \in Tasks, Release(t)
  PROVE  IInv'
  <1>1. /\ task[t].pc \in Active /\ task[t].pc = "released" /\ UNCHANGED <<owner, faults>>
    BY DEF Release, At, Active, Pcs
  <1>2. PICK r \in Runtimes : r = task[t].on
    BY <1>1, TaskFacts
  <1>3. PICK x \in RuntimeType : x = rt[r] /\ x = Rt(t) /\ Sound(r, x)
    BY <1>1, <1>2, TaskFacts DEF Rt
  <1>4. bound' \in SUBSET Commands
    BY DEF Release, IInv, TypeOK
  <1>5. PICK z \in TaskType : task' = [task EXCEPT ![t] = z] /\ Fits(z)'
    BY EndsTask DEF Release
  <1>6. CASE x.sessions = <<>>
    <2>1. PICK y \in RuntimeType : y = ShutDown(x)
      BY <1>3, ShutDownFacts
    <2>2. y.queue = rt[r].queue /\ Sound(r, y) /\ rt' = [rt EXCEPT ![r] = y]
      BY <1>2, <1>3, <1>6, <2>1, ShutDownFacts DEF Release, Becomes
    <2>3. \/ y.stop = rt[r].stop
          \/ \A u \in Tasks \ {t} : task[u].on = r => task[u].pc # "respawn"
      BY <1>2, <1>3, <2>1, ShutDownFacts DEF Release, At
    <2>4. pool' \in PoolType
      BY <1>2, <1>3, <1>6 DEF Release, IInv, TypeOK, PoolType
    <2> QED  BY <1>1, <1>4, <1>5, <2>2, <2>3, <2>4, StepKeeps, Unchanged
  <1>7. CASE x.sessions # <<>>
    <2>1. rt' = [rt EXCEPT ![r] = x] /\ UNCHANGED pool
      BY <1>2, <1>3, <1>7 DEF Release, IInv, TypeOK
    <2> QED  BY <1>1, <1>3, <1>4, <1>5, <2>1, StepKeeps, Unchanged
  <1> QED  BY <1>6, <1>7

(* A step of the sidecar object; tasks that wait for its exit may be refused. *)
LEMMA SidecarStep ==
  ASSUME IInv, Calm, NEW r \in Runtimes, NEW y \in RuntimeType, rt' = [rt EXCEPT ![r] = y],
         y.queue = rt[r].queue, Sound(r, y), UNCHANGED <<pool, bound, owner>>,
         faults' \in 0..MaxFaults, task' \in [Tasks -> TaskType],
         \A u \in Tasks :
           \/ task'[u] = task[u]
           \/ task[u].pc = "restart" /\ task'[u] = [task[u] EXCEPT !.pc = "rejected"]
  PROVE  IInv'
  <1>1. TypeOK'
    BY DEF IInv, TypeOK
  <1>2. Sound(r, y)'
    BY DEF Sound
  <1>3. ASSUME NEW u \in Tasks PROVE Fits(task[u])'
    <2>1. task[u] \in TaskType /\ Fits(task[u]) /\ task[u].pc # "respawn"
      BY DEF IInv, TypeOK, Calm, Urgent, Continues
    <2>2. CASE task'[u] = task[u]
      BY <2>1, <2>2 DEF Fits
    <2>3. CASE task[u].pc = "restart" /\ task'[u] = [task[u] EXCEPT !.pc = "rejected"]
      <3>1. PICK z \in TaskType : /\ z = [task[u] EXCEPT !.pc = "rejected"]
                                  /\ z.pc = "rejected" /\ z.to = task[u].to /\ z.kind = task[u].kind
                                  /\ z.on = task[u].on /\ z.client = task[u].client
                                  /\ z.handle = task[u].handle
        <4>1. "rejected" \in Pcs
          BY DEF Pcs
        <4> QED  BY <2>1, <4>1, PcOnly
      <3>2. Fits(z)
        BY <2>1, <2>3, <3>1 DEF Fits, Active, Pcs
      <3> QED  BY <2>3, <3>1, <3>2 DEF Fits
    <2> QED  BY <2>2, <2>3
  <1>4. \A q \in Procs : owner'[q] = owner[q]
    OBVIOUS
  <1> QED  BY <1>1, <1>2, <1>3, <1>4, RuntimeStep

LEMMA CancelStep ==
  ASSUME IInv, NEW c \in Commands, Cancel(c)
  PROVE  IInv'
  <1>1. PICK r \in pool : Becomes(r, ShutDown(rt[r]))
    BY DEF Cancel
  <1>2. r \in Runtimes
    BY DEF IInv, TypeOK
  <1>3. PICK x \in RuntimeType : x = rt[r] /\ Sound(r, x)
    BY <1>2 DEF IInv, TypeOK
  <1>4. PICK y \in RuntimeType : y = ShutDown(x)
    BY <1>2, <1>3, ShutDownFacts
  <1>5. y.queue = rt[r].queue /\ Sound(r, y) /\ rt' = [rt EXCEPT ![r] = y]
    BY <1>1, <1>2, <1>3, <1>4, ShutDownFacts DEF Becomes
  <1>6. Calm /\ UNCHANGED <<pool, bound, owner, task, faults>>
    BY DEF Cancel
  <1>7. task' \in [Tasks -> TaskType]
    BY <1>6 DEF IInv, TypeOK
  <1> QED  BY <1>2, <1>5, <1>6, <1>7, SidecarStep, Unchanged

LEMMA StopAnsweredStep ==
  ASSUME IInv, NEW r \in Runtimes, StopAnswered(r)
  PROVE  IInv'
  <1>1. PICK x \in RuntimeType : x = rt[r] /\ Sound(r, x) /\ x.stop = "asking"
    BY DEF StopAnswered, IInv, TypeOK
  <1>2. PICK y \in RuntimeType : y = [x EXCEPT !.stop = "exiting"]
    BY DEF RuntimeType
  <1>3. y.queue = rt[r].queue /\ Sound(r, y) /\ rt' = [rt EXCEPT ![r] = y]
    BY <1>1, <1>2 DEF StopAnswered, Becomes, Sound, RuntimeType
  <1>4. Calm /\ UNCHANGED <<pool, bound, owner, task, faults>>
    BY DEF StopAnswered
  <1>5. task' \in [Tasks -> TaskType]
    BY <1>4 DEF IInv, TypeOK
  <1> QED  BY <1>3, <1>4, <1>5, SidecarStep, Unchanged

LEMMA StopDeferredStep ==
  ASSUME IInv, NEW r \in Runtimes, StopDeferred(r)
  PROVE  IInv'
  <1>1. PICK x \in RuntimeType : x = rt[r] /\ Sound(r, x)
    BY DEF IInv, TypeOK
  <1>2. PICK y \in RuntimeType : y = Deferred(x)
    BY DEF RuntimeType, Deferred
  <1>3. y.queue = rt[r].queue /\ Sound(r, y) /\ rt' = [rt EXCEPT ![r] = y]
    BY <1>1, <1>2 DEF StopDeferred, Becomes, Sound, RuntimeType, Deferred
  <1>4. Calm /\ Fault /\ UNCHANGED <<pool, bound, owner>>
    BY DEF StopDeferred
  <1>5. \A u \in Tasks :
          \/ task'[u] = task[u]
          \/ task[u].pc = "restart" /\ task'[u] = [task[u] EXCEPT !.pc = "rejected"]
    BY DEF StopDeferred, At
  <1>6. ASSUME NEW u \in Tasks PROVE task'[u] \in TaskType
    <2>1. task[u] \in TaskType /\ "rejected" \in Pcs
      BY DEF IInv, TypeOK, Pcs
    <2> QED  BY <1>5, <2>1, PcOnly
  <1>7. task' \in [Tasks -> TaskType]
    BY <1>6 DEF StopDeferred
  <1> QED  BY <1>3, <1>4, <1>5, <1>7, SidecarStep, Unchanged

(* What an exit leaves of the sidecar object of its runtime.                *)
LeftBy(r, p) ==
  LET x == Detached(rt[r])
      y == IF rt[r].child = p THEN Bereft(x) ELSE x
  IN  [y EXCEPT !.attempted = @ \union Recovers(r)]

Attempts(x, c) == [x EXCEPT !.attempted = @ \union c]
LEMMA AttemptsFacts ==
  ASSUME NEW x \in RuntimeType, NEW c \in SUBSET Commands
  PROVE  /\ Attempts(x, c) \in RuntimeType /\ Attempts(x, c).queue = x.queue
         /\ Attempts(x, c).child = x.child /\ Attempts(x, c).stop = x.stop
         /\ Attempts(x, c).shuttingDown = x.shuttingDown
         /\ Attempts(x, c).client = x.client /\ Attempts(x, c).sessions = x.sessions
  BY DEF RuntimeType, Attempts

LEMMA BereftFacts ==
  ASSUME NEW x \in RuntimeType
  PROVE  /\ Bereft(x) \in RuntimeType /\ Bereft(x).queue = x.queue
         /\ Bereft(x).child = None /\ Bereft(x).stop = "none"
         /\ Bereft(x).client = x.client /\ Bereft(x).sessions = x.sessions
         /\ Bereft(x).running = x.running
  BY DEF RuntimeType, Bereft

LEMMA LeftByFacts ==
  ASSUME IInv, NEW r \in Runtimes, NEW p \in Procs
  PROVE  /\ LeftBy(r, p) \in RuntimeType /\ LeftBy(r, p).queue = rt[r].queue
         /\ LeftBy(r, p).client = None
         /\ LeftBy(r, p).sessions = WithoutIds(rt[r].sessions)
         /\ rt[r].child = p => LeftBy(r, p).child = None /\ LeftBy(r, p).stop = "none"
         /\ rt[r].child # p => /\ LeftBy(r, p).child = rt[r].child
                               /\ LeftBy(r, p).stop = rt[r].stop
                               /\ LeftBy(r, p).shuttingDown = rt[r].shuttingDown
         /\ Recovers(r) \subseteq Commands
  <1>1. PICK x \in RuntimeType : x = rt[r]
    BY DEF IInv, TypeOK
  <1>2. PICK c \in SUBSET Commands : c = Recovers(r)
    <2>1. rt[r].sessions # <<>> =>
            rt[r].sessions[Len(rt[r].sessions)] \in SessionType
      <3>1. PICK m \in Nat : x.sessions \in [1..m -> SessionType] /\ Len(x.sessions) = m
        BY DEF RuntimeType
      <3>2. x.sessions # <<>> => m \in 1..m
        BY <3>1
      <3> QED  BY <1>1, <3>1, <3>2
    <2>2. Recovers(r) \subseteq Commands
      BY <2>1 DEF Recovers, SessionType
    <2> QED  BY <2>2
  <1>3. PICK d \in RuntimeType :
          /\ d = Detached(x) /\ d.queue = x.queue /\ d.child = x.child /\ d.stop = x.stop
          /\ d.shuttingDown = x.shuttingDown /\ d.client = None
          /\ d.sessions = WithoutIds(x.sessions)
    BY DetachedFacts
  <1>4. CASE x.child = p
    <2>1. PICK e \in RuntimeType :
            /\ e = Bereft(d)
            /\ e.queue = d.queue /\ e.child = None /\ e.stop = "none"
            /\ e.client = None /\ e.sessions = d.sessions
      BY <1>3, BereftFacts
    <2>2. LeftBy(r, p) = Attempts(e, c)
      BY <1>1, <1>2, <1>3, <1>4, <2>1 DEF LeftBy, Attempts
    <2>3. /\ LeftBy(r, p) \in RuntimeType /\ LeftBy(r, p).queue = e.queue
          /\ LeftBy(r, p).child = e.child /\ LeftBy(r, p).stop = e.stop
          /\ LeftBy(r, p).client = e.client /\ LeftBy(r, p).sessions = e.sessions
      BY <2>2, AttemptsFacts
    <2> QED  BY <1>1, <1>2, <1>3, <1>4, <2>1, <2>3
  <1>5. CASE x.child # p
    <2>1. LeftBy(r, p) = Attempts(d, c)
      BY <1>1, <1>2, <1>3, <1>5 DEF LeftBy, Attempts
    <2> QED  BY <1>1, <1>2, <1>3, <1>5, <2>1, AttemptsFacts
  <1> QED  BY <1>4, <1>5

(* What an exit makes of a task: nothing waits for p any more.              *)
LEMMA AfterExitFacts ==
  ASSUME IInv, NEW u \in Tasks, NEW p \in Procs, NEW r \in Runtimes, owner[p] = r,
         task[u].pc # "respawn"
  PROVE  \E z \in TaskType :
           /\ z = AfterExit(u, p) /\ z.kind = task[u].kind /\ z.on = task[u].on
           /\ z.handle = task[u].handle /\ z.client = task[u].client
           /\ \/ task[u].to = p /\ z.pc = "rejected" /\ z.to = None
              \/ task[u].to # p /\ z.to = task[u].to /\ z.pc = task[u].pc
              \/ /\ task[u].to # p /\ z.to = task[u].to /\ z.pc = "respawn"
                 /\ task[u].pc = "restart" /\ task[u].on = r /\ rt[r].child = p
  <1>1. task[u] \in TaskType
    BY DEF IInv, TypeOK
  <1>2. CASE task[u].to = p
    <2>1. PICK z \in TaskType : /\ z = To(task[u], "rejected", None)
                                /\ z.pc = "rejected" /\ z.to = None /\ z.kind = task[u].kind
                                /\ z.on = task[u].on /\ z.client = task[u].client
                                /\ z.handle = task[u].handle
      <3>1. "rejected" \in Pcs /\ None \in Procs \union {None}
        BY DEF Pcs
      <3> QED  BY <1>1, <3>1, PcTo
    <2>2. AfterExit(u, p) = To(task[u], "rejected", None)
      BY <1>2 DEF AfterExit, To
    <2> QED  BY <1>2, <2>1, <2>2
  <1>3. CASE /\ task[u].to # p /\ task[u].on = r /\ task[u].pc = "restart"
             /\ rt[r].child = p
    <2>1. PICK z \in TaskType : /\ z = [task[u] EXCEPT !.pc = "respawn"]
                                /\ z.pc = "respawn" /\ z.to = task[u].to /\ z.kind = task[u].kind
                                /\ z.on = task[u].on /\ z.client = task[u].client
                                /\ z.handle = task[u].handle
      <3>1. "respawn" \in Pcs
        BY DEF Pcs
      <3> QED  BY <1>1, <3>1, PcOnly
    <2>2. AfterExit(u, p) = [task[u] EXCEPT !.pc = "respawn"]
      BY <1>3 DEF AfterExit
    <2> QED  BY <1>3, <2>1, <2>2
  <1>4. CASE /\ task[u].to # p
             /\ ~(task[u].on = r /\ task[u].pc = "restart" /\ rt[r].child = p)
    <2>1. AfterExit(u, p) = task[u]
      BY <1>4 DEF AfterExit
    <2> QED  BY <1>1, <1>4, <2>1
  <1> QED  BY <1>2, <1>3, <1>4

LEMMA ExitStep ==
  ASSUME IInv, NEW p \in Procs, Exit(p)
  PROVE  IInv'
  <1>1. PICK r \in Runtimes : r = owner[p]
    BY DEF Exit, IInv, TypeOK
  <1>2. /\ Calm /\ UNCHANGED <<pool, bound>> /\ owner' = [owner EXCEPT ![p] = None]
        /\ faults' \in 0..MaxFaults
    BY Unchanged DEF Exit
  <1>3. \A u \in Tasks : task[u].pc # "respawn"
    BY <1>2 DEF Calm, Urgent, Continues
  <1>4. PICK y \in RuntimeType : y = LeftBy(r, p)
    BY LeftByFacts
  <1>5. rt' = [rt EXCEPT ![r] = y]
    BY <1>1, <1>4 DEF Exit, Becomes, LeftBy
  <1>6. PICK x \in RuntimeType : x = rt[r] /\ Sound(r, x)
    BY DEF IInv, TypeOK
  <1>7. /\ y.queue = x.queue /\ y.client = None /\ y.sessions = WithoutIds(x.sessions)
        /\ x.child = p => y.child = None /\ y.stop = "none"
        /\ x.child # p => y.child = x.child /\ y.stop = x.stop /\ y.shuttingDown = x.shuttingDown
    BY <1>4, <1>6, LeftByFacts
  <1>8. owner' \in [Procs -> Runtimes \union {None}] /\ owner'[p] = None
    BY <1>2 DEF IInv, TypeOK
  <1>9. \A q \in Procs \ {p} : owner'[q] = owner[q]
    BY <1>2 DEF IInv, TypeOK
  <1>10. Sound(r, y)'
    BY <1>6, <1>7, <1>9, SessionsType DEF Sound, RuntimeType
  <1>11. \A q \in Procs : owner[q] \in Runtimes \ {r} => owner'[q] = owner[q]
    BY <1>1, <1>9
  <1>12. ASSUME NEW u \in Tasks
         PROVE  \E z \in TaskType : z = AfterExit(u, p) /\ Fits(z)'
    <2>1. PICK z \in TaskType :
           /\ z = AfterExit(u, p) /\ z.kind = task[u].kind /\ z.on = task[u].on
           /\ z.handle = task[u].handle /\ z.client = task[u].client
           /\ \/ task[u].to = p /\ z.pc = "rejected" /\ z.to = None
              \/ task[u].to # p /\ z.to = task[u].to /\ z.pc = task[u].pc
              \/ /\ task[u].to # p /\ z.to = task[u].to /\ z.pc = "respawn"
                 /\ task[u].pc = "restart" /\ task[u].on = r /\ rt[r].child = p
      BY <1>1, <1>3, AfterExitFacts
    <2>2. task[u] \in TaskType /\ Fits(task[u]) /\ task[u].pc # "respawn"
      BY <1>3 DEF IInv, TypeOK
    <2>3. z.client # None => owner'[z.client] \in {z.on, None}
      BY <1>8, <1>9, <2>1, <2>2 DEF Fits, TaskType
    <2>4. z.pc = "respawn" => rt'[z.on].stop = "none"
      <3>1. z.pc = "respawn" => z.on = r /\ x.child = p
        BY <1>6, <2>1, <2>2
      <3>2. rt'[r] = y
        BY <1>5 DEF IInv, TypeOK
      <3> QED  BY <1>7, <3>1, <3>2
    <2>5. CASE task[u].to = p
      <3>1. z.pc = "rejected" /\ z.to = None
        BY <2>1, <2>5
      <3>2. task[u].pc \in Active
        BY <1>1, <2>2, <2>5, Nones DEF Fits
      <3> QED  BY <2>1, <2>2, <2>3, <3>1, <3>2 DEF Fits, Active, Pcs
    <2>6. CASE task[u].to # p
      <3>1. z.to = task[u].to /\ z.pc \in {task[u].pc, "respawn"}
        BY <2>1, <2>6
      <3>2. z.to # None => owner'[z.to] = z.on
        BY <1>9, <2>1, <2>2, <2>6, <3>1 DEF Fits, TaskType
      <3>3. z.pc = "respawn" => task[u].pc = "restart"
        BY <2>1, <2>2, <2>6
      <3> QED  BY <2>1, <2>2, <2>3, <2>4, <3>1, <3>2, <3>3 DEF Fits, Active, Pcs
    <2> QED  BY <2>1, <2>5, <2>6
  <1>13. PICK left \in [Tasks -> TaskType] : left = [u \in Tasks |-> AfterExit(u, p)]
    <2>1. \A u \in Tasks : AfterExit(u, p) \in TaskType
      BY <1>12
    <2> QED  BY <2>1
  <1>14. ASSUME NEW u \in Tasks
         PROVE  Fits(left[u])' /\ (task[u].pc = "queued" => left[u] = task[u])
    <2>1. PICK z \in TaskType : z = AfterExit(u, p) /\ Fits(z)'
      BY <1>12
    <2>2. left[u] = z
      BY <1>13, <2>1
    <2>3. ASSUME task[u].pc = "queued" PROVE z = task[u]
      <3>1. task[u] \in TaskType /\ Fits(task[u])
        BY DEF IInv, TypeOK
      <3>2. task[u].to # p
        BY <2>3, <3>1, Nones DEF Fits
      <3> QED  BY <2>1, <2>3, <3>2 DEF AfterExit
    <2> QED  BY <2>1, <2>2, <2>3
  <1>15. task' \in [Tasks -> TaskType] /\ (\A u \in Tasks : Fits(task[u])')
         /\ (\A u \in Tasks : task[u].pc = "queued" => task'[u] = task[u])
    <2>1. CASE Recovers(r) = {}
      <3>1. task' = left
        BY <1>1, <1>13, <2>1 DEF Exit
      <3>2. ASSUME NEW u \in Tasks PROVE Fits(task[u])'
        <4>1. task'[u] = left[u] /\ Fits(left[u])'
          BY <1>14, <3>1
        <4> QED  BY <4>1 DEF Fits
      <3> QED  BY <1>13, <1>14, <3>1, <3>2
    <2>2. CASE Recovers(r) # {}
      <3>1. PICK t \in FreeSlots, h \in Recovers(r) :
              task' = [left EXCEPT ![t] = NewTask("recover", h, r, "start")]
        BY <1>1, <1>13, <2>2 DEF Exit
      <3>2. t \in Tasks /\ task[t] = NoTask
        BY <3>1 DEF FreeSlots, RecoverySlots, Tasks
      <3>3. PICK z \in TaskType : z = NewTask("recover", h, r, "start") /\ Fits(z)'
        <4>1. h \in Commands
          BY <3>1, LeftByFacts
        <4> QED  BY <4>1, NewTaskFacts
      <3>4. \A u \in Tasks : task'[u] = IF u = t THEN z ELSE left[u]
        BY <1>13, <3>1, <3>2, <3>3
      <3>5. task' \in [Tasks -> TaskType]
        BY <1>13, <3>1, <3>2, <3>3
      <3>6. ASSUME NEW u \in Tasks PROVE Fits(task[u])'
        <4>1. CASE u = t
          BY <3>3, <3>4, <4>1 DEF Fits
        <4>2. CASE u # t
          <5>1. task'[u] = left[u] /\ Fits(left[u])'
            BY <1>14, <3>4, <4>2
          <5> QED  BY <5>1 DEF Fits
        <4> QED  BY <4>1, <4>2
      <3>7. \A u \in Tasks : task[u].pc = "queued" => task'[u] = task[u]
        BY <1>14, <3>2, <3>4 DEF NoTask
      <3> QED  BY <3>5, <3>6, <3>7
    <2> QED  BY <2>1, <2>2
  <1>16. TypeOK'
    BY <1>2, <1>5, <1>8, <1>15 DEF IInv, TypeOK
  <1> QED  BY <1>5, <1>6, <1>7, <1>10, <1>11, <1>15, <1>16, RuntimeStep

-----------------------------------------------------------------------------
(* The queue *)

LEMMA AppendCommand ==
  ASSUME NEW q \in Seq(Commands), NEW c \in Commands
  PROVE  /\ Append(q, c) \in Seq(Commands)
         /\ DOMAIN Append(q, c) = 1..(Len(q) + 1)
         /\ \A n \in 1..Len(q) : Append(q, c)[n] = q[n]
         /\ Append(q, c)[Len(q) + 1] = c
         /\ DOMAIN q = 1..Len(q) /\ Len(q) \in Nat
  OBVIOUS

(* A command that is given comes last in a queue it was not in yet.         *)
LEMMA EnqueueKeeps ==
  ASSUME IInv, NEW c \in Commands, NEW kind \in {"open", "run", "close"}, NEW h \in Commands,
         NEW r \in Runtimes, NEW x \in RuntimeType, Enqueue(c, kind, h, r, x),
         x.queue = rt[r].queue, Sound(r, x),
         x.stop = rt[r].stop \/ \A u \in Tasks : task[u].on # r,
         pool' \in PoolType, UNCHANGED <<bound, owner, faults>>
  PROVE  IInv'
  <1> DEFINE t == Command(c)
  <1>1. t \in Tasks /\ task[t] = NoTask
    BY DEF Command, Tasks, Enqueue
  <1>2. PICK z \in TaskType : /\ z = NewTask(kind, h, r, "queued") /\ z.pc = "queued"
                              /\ z.on = r /\ Fits(z)'
    BY NewTaskFacts
  <1>3. task' = [task EXCEPT ![t] = z]
    BY <1>2 DEF Enqueue
  <1>4. PICK q \in Seq(Commands) : q = x.queue
    BY DEF RuntimeType
  <1>5. PICK y \in RuntimeType : y = [x EXCEPT !.queue = Append(q, c)]
    BY <1>4, AppendCommand DEF RuntimeType
  <1>6. rt' = [rt EXCEPT ![r] = y]
    BY <1>4, <1>5 DEF Enqueue, Becomes, RuntimeType
  <1>7. /\ y.queue = Append(q, c) /\ y.child = x.child /\ y.client = x.client /\ y.stop = x.stop
        /\ y.sessions = x.sessions /\ y.shuttingDown = x.shuttingDown
    BY <1>5 DEF RuntimeType
  <1> HIDE DEF t
  <1>8. TypeOK'
    BY <1>1, <1>3, <1>6 DEF IInv, TypeOK, PoolType
  <1>9. \A u \in Tasks : task'[u] = IF u = t THEN z ELSE task[u]
    BY <1>1, <1>3 DEF IInv, TypeOK
  <1>10. \A s \in Runtimes : rt'[s] = IF s = r THEN y ELSE rt[s]
    BY <1>6 DEF IInv, TypeOK
  <1>11. ASSUME NEW s \in Runtimes PROVE Sound(s, rt[s])'
    <2>1. CASE s = r
      BY <1>7, <1>10, <2>1 DEF Sound
    <2>2. CASE s # r
      BY <1>10, <2>2 DEF Sound, IInv
    <2> QED  BY <2>1, <2>2
  <1>12. ASSUME NEW s \in Runtimes, NEW d \in Commands, Waits(s, d) PROVE d # c /\ Waits(s, d)'
    <2>1. task[Command(d)].pc = "queued" /\ Command(d) \in Tasks
      BY <1>12 DEF Waits, Command, Tasks
    <2>2. d # c
      BY <1>1, <2>1 DEF NoTask, t
    <2>3. Command(d) # t
      BY <2>2 DEF Command, t
    <2> QED  BY <1>9, <1>12, <2>1, <2>2, <2>3 DEF Waits
  <1>13. ASSUME NEW s \in Runtimes PROVE QueueOK(s)'
    <2>1. PICK w \in Seq(Commands) : w = rt[s].queue
      BY DEF IInv, TypeOK, RuntimeType
    <2>2. \A n \in DOMAIN w : /\ w[n] \in Commands /\ Waits(s, w[n])
                             /\ \A k \in DOMAIN w : w[k] = w[n] => k = n
      BY <2>1 DEF IInv, QueueOK
    <2>3. \A n \in DOMAIN w : w[n] # c /\ Waits(s, w[n])'
      BY <1>12, <2>2
    <2>4. CASE s # r
      <3>1. rt'[s].queue = w
        BY <1>10, <2>1, <2>4
      <3> QED  BY <2>2, <2>3, <3>1 DEF QueueOK
    <2>5. CASE s = r
      <3>1. rt'[s].queue = Append(w, c)
        BY <1>4, <1>7, <1>10, <2>1, <2>5
      <3>2. Waits(s, c)'
        BY <1>1, <1>2, <1>9, <2>5 DEF Waits, t
      <3> QED  BY <2>2, <2>3, <3>1, <3>2, AppendCommand DEF QueueOK
    <2> QED  BY <2>4, <2>5
  <1>14. ASSUME NEW u \in Tasks PROVE Fits(task[u])'
    <2>1. CASE u = t
      <3>1. task'[u] = z
        BY <1>9, <2>1
      <3> QED  BY <1>2, <3>1 DEF Fits
    <2>2. CASE u # t
      <3>1. task'[u] = task[u] /\ Fits(task[u])
        BY <1>9, <2>2 DEF IInv
      <3>2. task[u].pc = "respawn" => rt'[task[u].on].stop = "none"
        BY <1>7, <1>10, <3>1 DEF Fits, Active, Pcs
      <3> QED  BY <3>1, <3>2 DEF Fits
    <2> QED  BY <2>1, <2>2
  <1> QED  BY <1>8, <1>11, <1>13, <1>14 DEF IInv

LEMMA OpenStep ==
  ASSUME IInv, NEW c \in Commands, Open(c)
  PROVE  IInv'
  <1>1. UNCHANGED <<bound, owner, faults>> /\ pool' = {task'[Command(c)].on}
    BY DEF Open
  <1>2. ASSUME NEW r \in Runtimes, NEW x, Enqueue(c, "open", c, r, x) PROVE pool' \in PoolType
    <2>1. Command(c) \in Tasks
      BY DEF Command, Tasks
    <2>2. task'[Command(c)].on = r
      BY <1>2, <2>1, NewTaskFacts DEF Enqueue, IInv, TypeOK
    <2> QED  BY <1>1, <2>2 DEF PoolType
  <1>3. CASE pool # {}
    <2>1. PICK r \in pool : Enqueue(c, "open", c, r, rt[r])
      BY <1>3 DEF Open
    <2>2. r \in Runtimes
      BY DEF IInv, TypeOK
    <2>3. PICK x \in RuntimeType : x = rt[r] /\ Sound(r, x)
      BY <2>2 DEF IInv, TypeOK
    <2>4. Enqueue(c, "open", c, r, x)
      BY <2>1, <2>3
    <2> QED  BY <1>1, <1>2, <2>2, <2>3, <2>4, EnqueueKeeps
  <1>4. CASE pool = {}
    <2>1. PICK r \in Runtimes : Unused(r) /\ Enqueue(c, "open", c, r, NewRuntime)
      BY <1>4 DEF Open
    <2>2. PICK x \in RuntimeType : x = NewRuntime /\ x.queue = <<>>
      BY NewRuntimeType DEF NewRuntime
    <2>3. Sound(r, x)
      BY <2>2 DEF Sound, NewRuntime
    <2>4. rt[r].queue = <<>>
      <3>1. PICK q \in Seq(Commands) : q = rt[r].queue
        BY DEF IInv, TypeOK, RuntimeType
      <3>2. ASSUME NEW n \in DOMAIN q PROVE FALSE
        <4>1. q[n] \in Commands /\ Waits(r, q[n])
          BY <3>1 DEF IInv, QueueOK
        <4> QED  BY <2>1, <4>1 DEF Waits, Unused, Command, Tasks
      <3>3. Len(q) = 0
        <4>1. Len(q) \in Nat /\ DOMAIN q = 1..Len(q)
          OBVIOUS
        <4>2. 1 \notin DOMAIN q
          BY <3>2
        <4> QED  BY <4>1, <4>2
      <3> QED  BY <3>1, <3>3
    <2>5. \A u \in Tasks : task[u].on # r
      BY <2>1 DEF Unused
    <2>6. Enqueue(c, "open", c, r, x)
      BY <2>1, <2>2
    <2> QED  BY <1>1, <1>2, <2>2, <2>3, <2>4, <2>5, <2>6, EnqueueKeeps
  <1> QED  BY <1>3, <1>4

LEMMA RunStep ==
  ASSUME IInv, NEW c \in Commands, NEW h \in Commands, Run(c, h)
  PROVE  IInv'
  <1>1. PICK r \in pool, lifted \in SUBSET {h} :
          Enqueue(c, "run", h, r, [rt[r] EXCEPT !.attempted = @ \ lifted])
    BY DEF Run
  <1>2. r \in Runtimes /\ UNCHANGED <<pool, bound, owner, faults>>
    BY DEF IInv, TypeOK, Run
  <1>3. PICK x \in RuntimeType : x = rt[r] /\ Sound(r, x)
    BY <1>2 DEF IInv, TypeOK
  <1>4. PICK y \in RuntimeType : y = [x EXCEPT !.attempted = @ \ lifted]
    BY DEF RuntimeType
  <1>5. y.queue = rt[r].queue /\ y.stop = rt[r].stop /\ Sound(r, y)
    BY <1>3, <1>4 DEF Sound, RuntimeType
  <1>6. Enqueue(c, "run", h, r, y)
    BY <1>1, <1>3, <1>4
  <1> QED  BY <1>2, <1>5, <1>6, EnqueueKeeps, Unchanged

LEMMA CloseStep ==
  ASSUME IInv, NEW c \in Commands, NEW h \in Commands, Close(c, h)
  PROVE  IInv'
  <1>1. PICK r \in pool : Enqueue(c, "close", h, r, rt[r])
    BY DEF Close
  <1>2. r \in Runtimes /\ UNCHANGED <<pool, bound, owner, faults>>
    BY DEF IInv, TypeOK, Close
  <1>3. PICK x \in RuntimeType : x = rt[r] /\ Sound(r, x)
    BY <1>2 DEF IInv, TypeOK
  <1>4. Enqueue(c, "close", h, r, x)
    BY <1>1, <1>3
  <1> QED  BY <1>2, <1>3, <1>4, EnqueueKeeps, Unchanged

LEMMA TailCommand ==
  ASSUME NEW q \in Seq(Commands), q # <<>>
  PROVE  /\ Tail(q) \in Seq(Commands) /\ Head(q) \in Commands /\ Head(q) = q[1]
         /\ 1 \in DOMAIN q
         /\ \A n \in DOMAIN Tail(q) : /\ n + 1 \in DOMAIN q /\ Tail(q)[n] = q[n + 1]
                                     /\ n + 1 # 1
         /\ DOMAIN Tail(q) \subseteq Nat
  OBVIOUS

(* The command that is taken waits no longer; the others wait once still.   *)
LEMMA DequeueStep ==
  ASSUME IInv, NEW r \in Runtimes, Dequeue(r)
  PROVE  IInv'
  <1>1. PICK x \in RuntimeType : x = rt[r] /\ Sound(r, x)
    BY DEF IInv, TypeOK
  <1>2. PICK q \in Seq(Commands) : q = x.queue /\ q # <<>>
    BY <1>1 DEF Dequeue, MayDequeue, RuntimeType
  <1>3. PICK c \in Commands : c = Head(q)
    BY <1>2, TailCommand
  <1> DEFINE t == Command(c)
  <1>4. t \in Tasks /\ Waits(r, c)
    BY <1>1, <1>2, <1>3, TailCommand DEF IInv, QueueOK, Command, Tasks
  <1>5. PICK pc \in {"start", "answered"} : Goes(t, pc)
    BY <1>1, <1>2, <1>3 DEF Dequeue
  <1>6. PICK y \in RuntimeType : y = [x EXCEPT !.running = c, !.queue = Tail(@)]
    BY <1>2, TailCommand DEF RuntimeType
  <1>7. /\ y.queue = Tail(q) /\ y.child = x.child /\ y.client = x.client /\ y.stop = x.stop
        /\ y.sessions = x.sessions /\ y.shuttingDown = x.shuttingDown
    BY <1>2, <1>6 DEF RuntimeType
  <1>8. rt' = [rt EXCEPT ![r] = y] /\ UNCHANGED <<pool, bound, owner, faults>>
    BY <1>1, <1>2, <1>3, <1>6 DEF Dequeue, IInv, TypeOK
  <1>9. task[t] \in TaskType /\ Fits(task[t]) /\ task[t].pc = "queued"
    BY <1>4 DEF IInv, TypeOK, Waits
  <1>10. PICK z \in TaskType : /\ z = [task[t] EXCEPT !.pc = pc]
                              /\ z.pc = pc /\ z.to = task[t].to /\ z.kind = task[t].kind
                              /\ z.on = task[t].on /\ z.client = task[t].client
                              /\ z.handle = task[t].handle
    <2>1. pc \in Pcs
      BY DEF Pcs
    <2> QED  BY <1>9, <2>1, PcOnly
  <1>11. task' = [task EXCEPT ![t] = z]
    BY <1>5, <1>10 DEF Goes
  <1>12. Fits(z)
    BY <1>9, <1>10 DEF Fits, Active, Pcs
  <1>13. Fits(z)'
    BY <1>8, <1>10, <1>12 DEF Fits
  <1> HIDE DEF t
  <1>14. TypeOK'
    BY <1>4, <1>8, <1>11 DEF IInv, TypeOK
  <1>15. \A u \in Tasks : task'[u] = IF u = t THEN z ELSE task[u]
    BY <1>4, <1>11 DEF IInv, TypeOK
  <1>16. \A s \in Runtimes : rt'[s] = IF s = r THEN y ELSE rt[s]
    BY <1>8 DEF IInv, TypeOK
  <1>17. ASSUME NEW s \in Runtimes PROVE Sound(s, rt[s])'
    <2>1. CASE s = r
      BY <1>1, <1>7, <1>8, <1>16, <2>1 DEF Sound
    <2>2. CASE s # r
      BY <1>8, <1>16, <2>2 DEF Sound, IInv
    <2> QED  BY <2>1, <2>2
  <1>18. ASSUME NEW s \in Runtimes, NEW d \in Commands, Waits(s, d), d # c PROVE Waits(s, d)'
    <2>1. Command(d) \in Tasks /\ Command(d) # t
      BY <1>18 DEF Command, Tasks, t
    <2> QED  BY <1>15, <1>18, <2>1 DEF Waits
  <1>19. ASSUME NEW s \in Runtimes PROVE QueueOK(s)'
    <2>1. PICK w \in Seq(Commands) : w = rt[s].queue
      BY DEF IInv, TypeOK, RuntimeType
    <2>2. \A n \in DOMAIN w : /\ w[n] \in Commands /\ Waits(s, w[n])
                             /\ \A k \in DOMAIN w : w[k] = w[n] => k = n
      BY <2>1 DEF IInv, QueueOK
    <2>3. CASE s # r
      <3>1. rt'[s].queue = w
        BY <1>16, <2>1, <2>3
      <3>2. \A n \in DOMAIN w : w[n] # c
        BY <1>4, <2>2, <2>3 DEF Waits
      <3> QED  BY <1>18, <2>2, <3>1, <3>2 DEF QueueOK
    <2>4. CASE s = r
      <3>1. rt'[s].queue = Tail(w) /\ w = q
        BY <1>1, <1>2, <1>7, <1>16, <2>1, <2>4
      <3>2. \A n \in DOMAIN Tail(w) : /\ n + 1 \in DOMAIN w /\ Tail(w)[n] = w[n + 1]
                                     /\ Tail(w)[n] # c /\ n \in Nat
        BY <1>2, <1>3, <2>2, <3>1, TailCommand
      <3>3. \A n \in DOMAIN Tail(w) : Waits(s, Tail(w)[n])'
        BY <1>18, <2>2, <3>2
      <3>4. \A n, k \in DOMAIN Tail(w) : Tail(w)[k] = Tail(w)[n] => k = n
        BY <2>2, <3>2
      <3> QED  BY <3>1, <3>3, <3>4 DEF QueueOK
    <2> QED  BY <2>3, <2>4
  <1>20. ASSUME NEW u \in Tasks PROVE Fits(task[u])'
    <2>1. CASE u = t
      <3>1. task'[u] = z
        BY <1>15, <2>1
      <3> QED  BY <1>13, <3>1 DEF Fits
    <2>2. CASE u # t
      <3>1. task'[u] = task[u] /\ Fits(task[u])
        BY <1>15, <2>2 DEF IInv
      <3>2. task[u].pc = "respawn" => rt'[task[u].on].stop = "none"
        BY <1>1, <1>7, <1>16, <3>1 DEF Fits, Active, Pcs
      <3> QED  BY <1>8, <3>1, <3>2 DEF Fits
    <2> QED  BY <2>1, <2>2
  <1> QED  BY <1>14, <1>17, <1>19, <1>20 DEF IInv

-----------------------------------------------------------------------------
(* The theorems *)

LEMMA NextIInv == IInv /\ [Next]_vars => IInv'
  <1> SUFFICES ASSUME IInv, [Next]_vars PROVE IInv'  OBVIOUS
  <1>1. ASSUME NEW c \in Commands, CommandStep(c) PROVE IInv'
    BY <1>1, OpenStep, CancelStep, RunStep, CloseStep DEF CommandStep
  <1>2. ASSUME NEW t \in Tasks, StartStep(t) PROVE IInv'
    BY <1>2, BeginStartStep, ReuseStep, SpawnStep, StartFailsStep DEF StartStep
  <1>3. ASSUME NEW t \in Tasks, ReplyStep(t) PROVE IInv'
    BY <1>3, HelloStep, ResolveStep, OpenedStep, CalledStep DEF ReplyStep
  <1>4. ASSUME NEW t \in Tasks, EndStep(t) PROVE IInv'
    BY <1>4, FinishOpenStep, FinishRunStep, FinishCloseStep, ReleaseStep, FinishRecoveryStep
       DEF EndStep
  <1>5. ASSUME NEW t \in Tasks, RequestFails(t) \/ Restart(t) PROVE IInv'
    BY <1>5, RequestFailsStep, RestartStep
  <1>6. ASSUME NEW r \in Runtimes, Dequeue(r) \/ StopStep(r) PROVE IInv'
    BY <1>6, DequeueStep, ClearAgainStep, StopAnsweredStep, StopDeferredStep DEF StopStep
  <1>7. ASSUME NEW p \in Procs, Exit(p) PROVE IInv'
    BY <1>7, ExitStep
  <1>8. CASE UNCHANGED vars
    BY <1>8, StutterIInv
  <1> QED  BY <1>1, <1>2, <1>3, <1>4, <1>5, <1>6, <1>7, <1>8 DEF Next, TaskStep

LEMMA IInvHolds == Spec => []IInv
  BY InitIInv, NextIInv, PTL DEF Spec

(* Every value is of its kind, and the directory has one runtime at most.   *)
THEOREM TypeCorrect == Spec => []TypeOK
  <1>1. IInv => TypeOK
    BY DEF IInv
  <1> QED  BY <1>1, IInvHolds, PTL

(* No session offers the Workspace id of a process that is gone, however    *)
(* exits, stops, restarts and closes interleave with what awaits them.      *)
THEOREM IdsStayLive == Spec => []IdsAreLive
  <1>1. IInv => IdsAreLive
    BY DEF IInv, Sound, IdsAreLive
  <1> QED  BY <1>1, IInvHolds, PTL

(* An exit is passed over as intended only while a stop is under way, also  *)
(* after a stop that was deferred.                                          *)
THEOREM QuietExits == Spec => []QuietExitsAreStops
  <1>1. IInv => QuietExitsAreStops
    BY DEF IInv, Sound, QuietExitsAreStops
  <1> QED  BY <1>1, IInvHolds, PTL

-----------------------------------------------------------------------------
(* Whoever waits is served *)

(* A command from the moment it is taken from the queue to the moment it    *)
(* leaves the queue's place.                                                *)
InFlight(x) == x.kind \in {"open", "run", "close"} /\ x.pc \notin {"queued", "released"}

(* The place of the queue of runtime r is held by the command in flight.    *)
Turn(r) == \A c \in Commands :
  rt[r].running = c <=> InFlight(task[Command(c)]) /\ task[Command(c)].on = r

(* What a task waits for is there.                                          *)
Placed(t) ==
  /\ At(t, "queued") => /\ t[2] = "command" /\ task[t].kind # "recover"
                        /\ \E n \in DOMAIN Rt(t).queue : Rt(t).queue[n] = t[1]
  /\ At(t, "restart") => Rt(t).stop # "none"
  /\ task[t].pc \notin Active => task[t].kind = "none"

Turns == (\A r \in Runtimes : Turn(r)) /\ (\A t \in Tasks : Placed(t))
TInv == IInv /\ Turns

(* A runtime has one command at a time between its queue and its answer:    *)
(* two of them never use the sessions and the sidecar together.             *)
CommandsTakeTurns ==
  \A c, d \in Commands :
    InFlight(task[Command(c)]) /\ InFlight(task[Command(d)])
      /\ task[Command(c)].on = task[Command(d)].on => c = d

(* A task that has begun and not ended goes on by itself, waits in a queue  *)
(* whose place is free or held by a command in flight on the same runtime,  *)
(* waits for the exit of a sidecar that is there and is being stopped, or   *)
(* waits for the answer of a process of its runtime that lives.             *)
TasksAreServed ==
  \A t \in Tasks : LET r == task[t].on IN task[t].kind # "none" =>
    \/ Continues(t) \/ At(t, "env")
    \/ /\ At(t, "queued")
       /\ \/ MayDequeue(r)
          \/ \E c \in Commands : /\ rt[r].running = c /\ task[Command(c)].on = r
                                 /\ InFlight(task[Command(c)])
    \/ /\ task[t].pc \in {"start", "restart"} /\ rt[r].stop # "none"
       /\ rt[r].child # None /\ owner[rt[r].child] = r
    \/ Requesting(t) /\ owner[task[t].to] = r

LEMMA InitTInv == Init => TInv
  <1> SUFFICES ASSUME Init PROVE TInv  OBVIOUS
  <1>1. \A u \in Tasks : task[u] = NoTask
    BY DEF Init
  <1>2. ASSUME NEW r \in Runtimes PROVE Turn(r)
    <2>1. rt[r].running = None
      BY DEF Init, NewRuntime
    <2>2. \A c \in Commands : ~InFlight(task[Command(c)])
      BY <1>1 DEF InFlight, NoTask, Command, Tasks
    <2> QED  BY <2>1, <2>2, Nones DEF Turn
  <1>3. ASSUME NEW t \in Tasks PROVE Placed(t)
    BY <1>1 DEF Placed, At, NoTask
  <1> QED  BY <1>2, <1>3, InitIInv DEF TInv, Turns

(* What keeps the places: the queues and who holds their place stay, and    *)
(* each task stays in flight, queued or neither.                            *)
LEMMA Flights ==
  ASSUME TInv,
         \A s \in Runtimes : rt'[s].running = rt[s].running /\ rt'[s].queue = rt[s].queue,
         \A u \in Tasks :
           /\ task'[u].pc = "queued" <=> task[u].pc = "queued"
           /\ task'[u].pc = "queued" => task'[u].on = task[u].on /\ task'[u].kind = task[u].kind
           /\ InFlight(task'[u]) <=> InFlight(task[u])
           /\ InFlight(task[u]) => task'[u].on = task[u].on
           /\ task'[u].pc \notin Active => task'[u].kind = "none"
           /\ task'[u].pc = "restart" => rt'[task'[u].on].stop # "none"
  PROVE  Turns'
  <1>1. ASSUME NEW r \in Runtimes PROVE Turn(r)'
    <2>1. \A c \in Commands : Command(c) \in Tasks
      BY DEF Command, Tasks
    <2>2. \A c \in Commands : InFlight(task'[Command(c)]) /\ task'[Command(c)].on = r
                          <=> InFlight(task[Command(c)]) /\ task[Command(c)].on = r
      BY <2>1
    <2>3. \A c \in Commands : InFlight(task[Command(c)])' <=> InFlight(task'[Command(c)])
      BY DEF InFlight
    <2> QED  BY <2>2, <2>3 DEF Turn, TInv, Turns
  <1>2. ASSUME NEW u \in Tasks PROVE Placed(u)'
    <2>1. ASSUME task'[u].pc = "queued"
          PROVE  /\ u[2] = "command" /\ task'[u].kind # "recover"
                 /\ \E n \in DOMAIN rt'[task'[u].on].queue : rt'[task'[u].on].queue[n] = u[1]
      <3>1. task[u].pc = "queued" /\ task'[u].on = task[u].on
        BY <2>1
      <3>2. task[u].on \in Runtimes
        BY <3>1, TaskFacts DEF Active, Pcs, TInv
      <3> QED  BY <3>1, <3>2 DEF TInv, Turns, Placed, At, Rt
    <2> QED  BY <2>1 DEF Placed, At, Rt
  <1> QED  BY <1>1, <1>2 DEF Turns

(* A step of one task that leaves the queue of its runtime and its place.   *)
LEMMA Moves ==
  ASSUME TInv, NEW t \in Tasks, NEW z \in TaskType, task' = [task EXCEPT ![t] = z],
         NEW r \in Runtimes, NEW y \in RuntimeType, rt' = [rt EXCEPT ![r] = y],
         y.running = rt[r].running, y.queue = rt[r].queue,
         y.stop = rt[r].stop \/ y.stop # "none",
         task[t].pc # "queued", z.pc # "queued",
         InFlight(z) <=> InFlight(task[t]), InFlight(z) => z.on = task[t].on,
         z.pc \in Active \/ z.kind = "none",
         z.pc = "restart" => z.on = r /\ y.stop # "none"
  PROVE  Turns'
  <1>1. \A s \in Runtimes : rt'[s] = IF s = r THEN y ELSE rt[s]
    BY DEF TInv, IInv, TypeOK
  <1>2. \A u \in Tasks : task'[u] = IF u = t THEN z ELSE task[u]
    BY DEF TInv, IInv, TypeOK
  <1>3. ASSUME NEW u \in Tasks, u # t, task[u].pc = "restart"
        PROVE  rt'[task[u].on].stop # "none"
    <2>1. task[u].on \in Runtimes /\ rt[task[u].on].stop # "none"
      BY <1>3, TaskFacts DEF Active, Pcs, TInv, Turns, Placed, At, Rt
    <2> QED  BY <1>1, <2>1
  <1>4. \A u \in Tasks : task[u].pc \notin Active => task[u].kind = "none"
    BY DEF TInv, Turns, Placed
  <1> QED  BY <1>1, <1>2, <1>3, <1>4, Flights

(* The command in flight gives the place back.                              *)
LEMMA Lands ==
  ASSUME TInv, NEW t \in Tasks, t[2] = "command", NEW z \in TaskType,
         task' = [task EXCEPT ![t] = z], NEW r \in Runtimes, r = task[t].on,
         NEW y \in RuntimeType, rt' = [rt EXCEPT ![r] = y],
         y.running = None, y.queue = rt[r].queue, y.stop = rt[r].stop,
         InFlight(task[t]), ~InFlight(z), z.pc \notin {"queued", "restart"},
         z.pc \in Active \/ z.kind = "none"
  PROVE  Turns'
  <1>1. \A s \in Runtimes : rt'[s] = IF s = r THEN y ELSE rt[s]
    BY DEF TInv, IInv, TypeOK
  <1>2. \A u \in Tasks : task'[u] = IF u = t THEN z ELSE task[u]
    BY DEF TInv, IInv, TypeOK
  <1>3. PICK c \in Commands : t = Command(c)
    BY DEF Tasks, Command
  <1>4. ASSUME NEW d \in Commands
        PROVE  /\ Command(d) \in Tasks /\ Command(d) = t <=> d = c
               /\ d # c => task'[Command(d)] = task[Command(d)]
    BY <1>2, <1>3 DEF Tasks, Command
  <1>5. ASSUME NEW s \in Runtimes PROVE Turn(s)'
    <2>1. CASE s = r
      <3>1. rt[r].running = c
        BY <1>3 DEF TInv, Turns, Turn
      <3>2. ASSUME NEW d \in Commands, InFlight(task'[Command(d)]), task'[Command(d)].on = r
            PROVE  FALSE
        <4>1. d # c
          BY <1>2, <1>3, <3>2
        <4>2. InFlight(task[Command(d)]) /\ task[Command(d)].on = r
          BY <1>4, <3>2, <4>1
        <4> QED  BY <3>1, <4>1, <4>2 DEF TInv, Turns, Turn
      <3>3. rt'[s].running = None
        BY <1>1, <2>1
      <3> QED  BY <2>1, <3>2, <3>3, Nones DEF Turn, InFlight
    <2>2. CASE s # r
      <3>1. ASSUME NEW d \in Commands
            PROVE  InFlight(task'[Command(d)]) /\ task'[Command(d)].on = s
               <=> InFlight(task[Command(d)]) /\ task[Command(d)].on = s
        BY <1>2, <1>3, <1>4, <2>2
      <3>2. rt'[s].running = rt[s].running
        BY <1>1, <2>2
      <3> QED  BY <3>1, <3>2 DEF TInv, Turns, Turn, InFlight
    <2> QED  BY <2>1, <2>2
  <1>6. ASSUME NEW u \in Tasks PROVE Placed(u)'
    <2>1. CASE u = t
      BY <1>2, <2>1 DEF Placed, At
    <2>2. CASE u # t
      <3>1. task'[u] = task[u] /\ Placed(u)
        BY <1>2, <2>2 DEF TInv, Turns
      <3>2. ASSUME task[u].pc \in {"queued", "restart"}
            PROVE  /\ rt'[task[u].on].queue = rt[task[u].on].queue
                   /\ rt'[task[u].on].stop = rt[task[u].on].stop
        <4>1. task[u].on \in Runtimes
          BY <3>2, TaskFacts DEF Active, Pcs, TInv
        <4> QED  BY <1>1, <4>1
      <3> QED  BY <3>1, <3>2 DEF Placed, At, Rt
    <2> QED  BY <2>1, <2>2
  <1> QED  BY <1>5, <1>6 DEF Turns

LEMMA InPlace ==
  ASSUME TInv, NEW r \in Runtimes
  PROVE  rt[r] \in RuntimeType /\ rt = [rt EXCEPT ![r] = rt[r]]
  BY DEF TInv, IInv, TypeOK

(* The runtime stays as it is.                                              *)
LEMMA MovesOn ==
  ASSUME TInv, NEW t \in Tasks, NEW z \in TaskType, task' = [task EXCEPT ![t] = z],
         UNCHANGED rt, task[t].pc \in Active,
         task[t].pc # "queued", z.pc \notin {"queued", "restart"},
         InFlight(z) <=> InFlight(task[t]), InFlight(z) => z.on = task[t].on,
         z.pc \in Active \/ z.kind = "none"
  PROVE  Turns'
  <1>1. PICK r \in Runtimes : r = task[t].on
    BY TaskFacts DEF TInv
  <1>2. PICK y \in RuntimeType : y = rt[r] /\ rt' = [rt EXCEPT ![r] = y]
    BY <1>1, InPlace
  <1> QED  BY <1>1, <1>2, Moves

Flying == Active \ {"queued", "released"}

(* A step that changes the state of a task, and what it waits for.          *)
LEMMA Flies ==
  ASSUME TInv, NEW t \in Tasks, NEW pc \in Flying \ {"restart"}, task[t].pc \in Flying,
         UNCHANGED rt,
         \/ task' = [task EXCEPT ![t].pc = pc]
         \/ \E p \in Procs \union {None} : task' = [task EXCEPT ![t].pc = pc, ![t].to = p]
  PROVE  Turns'
  <1>1. task[t] \in TaskType /\ pc \in Pcs
    BY DEF TInv, IInv, TypeOK, Flying, Active
  <1>2. PICK z \in TaskType : /\ task' = [task EXCEPT ![t] = z]
                              /\ z.pc = pc /\ z.kind = task[t].kind /\ z.on = task[t].on
    <2>1. CASE task' = [task EXCEPT ![t].pc = pc]
      <3>1. PICK z \in TaskType : /\ z = [task[t] EXCEPT !.pc = pc] /\ z.pc = pc
                                  /\ z.kind = task[t].kind /\ z.on = task[t].on
        BY <1>1, PcOnly
      <3> QED  BY <2>1, <3>1
    <2>2. CASE \E p \in Procs \union {None} : task' = [task EXCEPT ![t].pc = pc, ![t].to = p]
      <3>1. PICK p \in Procs \union {None} : task' = [task EXCEPT ![t].pc = pc, ![t].to = p]
        BY <2>2
      <3>2. task' = [task EXCEPT ![t] = To(task[t], pc, p)]
        BY <3>1 DEF To, TInv, IInv, TypeOK
      <3>3. PICK z \in TaskType : z = To(task[t], pc, p)
        BY <1>1, PcTo
      <3>4. z.pc = pc /\ z.kind = task[t].kind /\ z.on = task[t].on
        BY <1>1, <3>3, PcTo
      <3> QED  BY <3>2, <3>3, <3>4
    <2> QED  BY <2>1, <2>2
  <1>3. InFlight(z) <=> InFlight(task[t])
    BY <1>2 DEF InFlight, Flying
  <1> QED  BY <1>2, <1>3, MovesOn DEF Flying

LEMMA BeginStartTurns ==
  ASSUME TInv, NEW t \in Tasks, BeginStart(t)
  PROVE  Turns'
  BY Flies DEF BeginStart, MayStart, At, Goes, Flying, Active, Pcs

LEMMA StartFailsTurns ==
  ASSUME TInv, NEW t \in Tasks, StartFails(t)
  PROVE  Turns'
  BY Flies DEF StartFails, Launches, At, Goes, Flying, Active, Pcs

LEMMA CalledTurns ==
  ASSUME TInv, NEW t \in Tasks, Called(t) \/ RequestFails(t)
  PROVE  Turns'
  BY Flies DEF Called, Answers, RequestFails, Requesting, At, Flying, Active, Pcs

LEMMA SendsTurns ==
  ASSUME TInv, NEW t \in Tasks, NEW pc \in {"opening", "calling"}, NEW p \in Procs \union {None},
         Sends(t, pc, p), task[t].pc \in Flying, UNCHANGED rt
  PROVE  Turns'
  BY Flies DEF Sends, Flying, Active, Pcs

LEMMA ResolveTurns ==
  ASSUME TInv, NEW t \in Tasks, Resolve(t)
  PROVE  Turns'
  <1>1. task[t].pc = "resolve" /\ task[t].pc \in Flying /\ UNCHANGED rt
    BY DEF Resolve, At, Flying, Active, Pcs
  <1>2. /\ task[t] \in TaskType /\ task[t].client \in Procs \union {None}
        /\ task[t].on \in Runtimes /\ rt[task[t].on].client \in Procs \union {None}
        /\ task[t].kind \in {"open", "run", "close", "recover"}
    BY <1>1, TaskFacts DEF TInv, Fits, TaskType, RuntimeType, Rt, Flying
  <1>3. \/ \E pc \in {"opening", "calling"}, p \in Procs \union {None} : Sends(t, pc, p)
        \/ \E pc \in {"answered", "rejected", "start"} : Goes(t, pc)
    <2>1. CASE task[t].kind = "open"
      BY <1>2, <2>1 DEF Resolve
    <2>2. CASE task[t].kind = "close"
      BY <1>2, <2>2 DEF Resolve
    <2>3. CASE task[t].kind \in {"run", "recover"}
      <3>1. CASE Session(task[t].on, task[t].handle) = {}
        BY <2>3, <3>1 DEF Resolve
      <3>2. CASE Session(task[t].on, task[t].handle) # {}
        BY <1>2, <2>3, <3>2 DEF Resolve
      <3> QED  BY <3>1, <3>2
    <2> QED  BY <1>2, <2>1, <2>2, <2>3
  <1>4. ASSUME NEW pc \in {"answered", "rejected", "start"}, Goes(t, pc) PROVE Turns'
    BY <1>1, <1>4, Flies DEF Goes, Flying, Active, Pcs
  <1> QED  BY <1>1, <1>3, <1>4, SendsTurns

(* What is told to a runtime leaves its queue and the queue's place.        *)
LEMMA PlaceKept ==
  ASSUME NEW x \in RuntimeType
  PROVE  /\ Detached(x).running = x.running
         /\ \A p \in Procs : Attached(x, p).running = x.running
         /\ Stopping(x).running = x.running /\ ShutDown(x).running = x.running
  BY DEF RuntimeType, Detached, Attached, Stopping, ShutDown

LEMMA StartedTurns ==
  ASSUME TInv, NEW t \in Tasks, task[t].pc \in Flying, NEW x \in RuntimeType, NEW p \in Procs,
         Started(t, x, p), x.running = Rt(t).running, x.queue = Rt(t).queue, x.stop = Rt(t).stop
  PROVE  Turns'
  <1>1. PICK r \in Runtimes : r = task[t].on
    BY TaskFacts DEF TInv, Flying
  <1>2. PICK y \in RuntimeType : y = Attached(x, p)
    BY AttachedFacts
  <1>3. PICK ready \in BOOLEAN : task' = [task EXCEPT ![t] = StartedTask(task[t], p, ready)]
    BY StartedIs DEF TInv, Flying
  <1>4. PICK z \in TaskType : z = StartedTask(task[t], p, ready)
    BY StartedFacts DEF TInv, IInv, TypeOK
  <1>5. z.kind = task[t].kind /\ z.on = task[t].on /\ z.pc \in {"resolve", "hello"}
    <2>1. PICK w \in TaskType : w = task[t]
      BY DEF TInv, IInv, TypeOK
    <2>2. StartedTask(w, p, ready).pc = IF ready THEN "resolve" ELSE "hello"
      BY DEF StartedTask, TaskType
    <2> QED  BY <1>4, <2>1, <2>2, StartedFacts
  <1>6. y.running = rt[r].running /\ y.queue = rt[r].queue /\ y.stop = rt[r].stop
    BY <1>1, <1>2, PlaceKept, AttachedFacts DEF Rt
  <1>7. InFlight(z) <=> InFlight(task[t])
    BY <1>5 DEF InFlight, Flying
  <1>8. rt' = [rt EXCEPT ![r] = y]
    BY <1>1, <1>2 DEF Started, Becomes
  <1> QED  BY <1>3, <1>4, <1>5, <1>6, <1>7, <1>8, Moves DEF Flying, Active, Pcs

LEMMA ReuseTurns ==
  ASSUME TInv, NEW t \in Tasks, Reuse(t)
  PROVE  Turns'
  <1>1. task[t].pc = "env" /\ task[t].pc \in Flying
    BY DEF Reuse, At, Flying, Active, Pcs
  <1>2. PICK x \in RuntimeType : x = Rt(t)
    BY <1>1, TaskFacts DEF TInv, Flying
  <1>3. PICK p \in Procs : p = x.child
    BY <1>2 DEF Reuse, RuntimeType
  <1>4. Started(t, x, p)
    BY <1>2, <1>3 DEF Reuse
  <1> QED  BY <1>1, <1>2, <1>4, StartedTurns

LEMMA SpawnTurns ==
  ASSUME TInv, NEW t \in Tasks, Spawn(t)
  PROVE  Turns'
  <1>1. task[t].pc \in Flying
    BY DEF Spawn, Launches, At, Flying, Active, Pcs
  <1>2. PICK x \in RuntimeType : x = Rt(t)
    BY <1>1, TaskFacts DEF TInv, Flying
  <1>3. PICK p \in Procs : Started(t, [x EXCEPT !.child = p, !.shuttingDown = FALSE], p)
    BY <1>2 DEF Spawn
  <1>4. PICK w \in RuntimeType : w = [x EXCEPT !.child = p, !.shuttingDown = FALSE]
    BY DEF RuntimeType
  <1>5. w.running = x.running /\ w.queue = x.queue /\ w.stop = x.stop
    BY <1>4 DEF RuntimeType
  <1> QED  BY <1>1, <1>2, <1>3, <1>4, <1>5, StartedTurns

LEMMA RestartTurns ==
  ASSUME TInv, NEW t \in Tasks, Restart(t)
  PROVE  Turns'
  <1>1. task[t].pc = "env" /\ task[t].pc \in Flying
    BY DEF Restart, At, Flying, Active, Pcs
  <1>2. PICK r \in Runtimes : r = task[t].on
    BY <1>1, TaskFacts DEF TInv, Flying
  <1>3. PICK x \in RuntimeType : x = rt[r]
    BY DEF TInv, IInv, TypeOK
  <1>4. PICK y \in RuntimeType : y = Stopping(x)
    BY StoppingFacts
  <1>5. y.running = x.running /\ y.queue = x.queue /\ y.stop # "none"
    BY <1>4, StoppingFacts, PlaceKept
  <1>6. rt' = [rt EXCEPT ![r] = y]
    BY <1>2, <1>3, <1>4 DEF Restart, Becomes, Rt
  <1>7. PICK z \in TaskType : /\ z = [task[t] EXCEPT !.pc = "restart"]
                              /\ z.pc = "restart" /\ z.kind = task[t].kind /\ z.on = task[t].on
    <2>1. task[t] \in TaskType /\ "restart" \in Pcs
      BY DEF TInv, IInv, TypeOK, Pcs
    <2> QED  BY <2>1, PcOnly
  <1>8. task' = [task EXCEPT ![t] = z]
    BY <1>7 DEF Restart, Goes
  <1>9. InFlight(z) <=> InFlight(task[t])
    BY <1>1, <1>7 DEF InFlight
  <1> QED  BY <1>1, <1>2, <1>3, <1>5, <1>6, <1>7, <1>8, <1>9, Moves DEF Flying, Active, Pcs

LEMMA HelloTurns ==
  ASSUME TInv, NEW t \in Tasks, Hello(t)
  PROVE  Turns'
  <1>1. task[t].pc = "hello" /\ task[t].pc \in Flying
    BY DEF Hello, Answers, At, Flying, Active, Pcs
  <1>2. PICK r \in Runtimes : r = task[t].on
    BY <1>1, TaskFacts DEF TInv, Flying
  <1>3. PICK x \in RuntimeType : x = rt[r]
    BY DEF TInv, IInv, TypeOK
  <1>4. PICK y \in RuntimeType : y = [x EXCEPT !.ready = TRUE]
    BY DEF RuntimeType
  <1>5. y.running = x.running /\ y.queue = x.queue /\ y.stop = x.stop
    BY <1>4 DEF RuntimeType
  <1>6. rt' = [rt EXCEPT ![r] = y]
    BY <1>2, <1>3, <1>4 DEF Hello, TInv, IInv, TypeOK
  <1>7. PICK z \in TaskType : /\ z = To(task[t], "resolve", None)
                              /\ z.pc = "resolve" /\ z.kind = task[t].kind /\ z.on = task[t].on
    <2>1. "resolve" \in Pcs /\ task[t] \in TaskType
      BY DEF Pcs, TInv, IInv, TypeOK
    <2> QED  BY <2>1, PcTo
  <1>8. task' = [task EXCEPT ![t] = z]
    BY <1>7 DEF Hello, To, TInv, IInv, TypeOK
  <1>9. InFlight(z) <=> InFlight(task[t])
    BY <1>1, <1>7 DEF InFlight
  <1> QED  BY <1>1, <1>3, <1>5, <1>6, <1>7, <1>8, <1>9, Moves DEF Flying, Active, Pcs

LEMMA OpenedTurns ==
  ASSUME TInv, NEW t \in Tasks, Opened(t)
  PROVE  Turns'
  <1>1. task[t].pc = "opening" /\ task[t].pc \in Flying
    BY DEF Opened, Answers, At, Flying, Active, Pcs
  <1>2. PICK r \in Runtimes : r = task[t].on
    BY <1>1, TaskFacts DEF TInv, Flying
  <1>3. PICK x \in RuntimeType : x = rt[r]
    BY DEF TInv, IInv, TypeOK
  <1>4. task[t] \in TaskType /\ Fits(task[t])
    BY <1>1, TaskFacts DEF TInv, Flying
  <1>5. PICK p \in Procs, h \in Commands, c \in Procs :
          p = task[t].to /\ h = task[t].handle /\ c = task[t].client
    BY <1>1, <1>4 DEF Fits, TaskType, Active, Pcs
  <1>6. CASE UNCHANGED rt
    <2>1. \/ task' = [task EXCEPT ![t].pc = "answered", ![t].to = None]
          \/ task' = [task EXCEPT ![t].pc = "rejected", ![t].to = None]
          \/ Sends(t, "calling", c)
      BY <1>5 DEF Opened
    <2> QED  BY <1>1, <1>6, <2>1, Flies, SendsTurns DEF Flying, Active, Pcs
  <1>7. CASE ~UNCHANGED rt
    <2>1. PICK y \in RuntimeType : /\ rt' = [rt EXCEPT ![r] = y] /\ y.running = x.running
                                   /\ y.queue = x.queue /\ y.stop = x.stop
      <3>1. CASE task[t].kind = "open"
        <4>1. PICK e \in SessionType : e = Entry(h, p)
          BY DEF Entry, SessionType
        <4>2. x.sessions \in Seq(SessionType)
          BY DEF RuntimeType
        <4>3. PICK y \in RuntimeType : y = [x EXCEPT !.sessions = Append(@, e)]
          BY <4>2, AppendFacts DEF RuntimeType
        <4>4. y.running = x.running /\ y.queue = x.queue /\ y.stop = x.stop
          BY <4>3 DEF RuntimeType
        <4>5. rt' = [rt EXCEPT ![r] = y]
          BY <1>2, <1>3, <1>5, <3>1, <4>1, <4>3 DEF Opened, Entry, TInv, IInv, TypeOK
        <4> QED  BY <4>4, <4>5
      <3>2. CASE task[t].kind # "open"
        <4>1. rt' = [rt EXCEPT ![r] = Renamed(x, Session(r, h), p)]
          BY <1>2, <1>3, <1>5, <1>7, <3>2 DEF Opened, Renamed, TInv, IInv, TypeOK
        <4>2. PICK y \in RuntimeType : y = Renamed(x, Session(r, h), p)
          BY RenamedFacts
        <4>3. y.queue = x.queue /\ y.stop = x.stop
          BY <4>2, RenamedFacts
        <4>4. y.running = x.running
          BY <4>2 DEF Renamed, RuntimeType
        <4> QED  BY <4>1, <4>2, <4>3, <4>4
      <3> QED  BY <3>1, <3>2
    <2>2. PICK pc \in {"answered", "rejected", "calling"}, q \in Procs \union {None} :
            task' = [task EXCEPT ![t].pc = pc, ![t].to = q]
      <3>1. \/ task' = [task EXCEPT ![t].pc = "answered", ![t].to = None]
            \/ Sends(t, "calling", c)
        BY <1>5, <1>7 DEF Opened
      <3> QED  BY <3>1 DEF Sends
    <2>3. PICK z \in TaskType : /\ z = To(task[t], pc, q)
                                /\ z.pc = pc /\ z.kind = task[t].kind /\ z.on = task[t].on
      <3>1. pc \in Pcs
        BY DEF Pcs
      <3> QED  BY <1>4, <3>1, PcTo
    <2>4. task' = [task EXCEPT ![t] = z]
      BY <2>2, <2>3 DEF To, TInv, IInv, TypeOK
    <2>5. InFlight(z) <=> InFlight(task[t])
      BY <1>1, <2>3 DEF InFlight
    <2> QED  BY <1>1, <1>3, <2>1, <2>3, <2>4, <2>5, Moves DEF Flying, Active, Pcs
  <1> QED  BY <1>6, <1>7

(* A task at its end is of a command that gives its place back, or was      *)
(* never in the queue.                                                      *)
LEMMA EndTask ==
  ASSUME NEW t \in Tasks, Ends(t)
  PROVE  \E z \in TaskType : /\ task' = [task EXCEPT ![t] = z] /\ z.kind = "none"
                             /\ z.pc \in {"none", "done"} /\ ~InFlight(z)
  BY NoTaskType DEF Ends, NoTask, DoneTask, InFlight

LEMMA LandsReleased ==
  ASSUME TInv, NEW t \in Tasks, t[2] = "command", InFlight(task[t]), task[t].pc \in Active,
         Becomes(task[t].on, Released(Rt(t))), NEW z \in TaskType,
         task' = [task EXCEPT ![t] = z], ~InFlight(z), z.pc \notin {"queued", "restart"},
         z.pc \in Active \/ z.kind = "none"
  PROVE  Turns'
  <1>1. PICK r \in Runtimes : r = task[t].on
    BY TaskFacts DEF TInv
  <1>2. PICK x \in RuntimeType : x = rt[r]
    BY DEF TInv, IInv, TypeOK
  <1>3. PICK y \in RuntimeType : y = Released(x) /\ y.queue = x.queue /\ y.stop = x.stop
    BY ReleasedFacts
  <1>4. y.running = None
    BY <1>3 DEF Released, RuntimeType
  <1>5. rt' = [rt EXCEPT ![r] = y]
    BY <1>1, <1>2, <1>3 DEF Becomes, Rt
  <1> QED  BY <1>1, <1>2, <1>3, <1>4, <1>5, Lands

LEMMA FinishOpenTurns ==
  ASSUME TInv, NEW t \in Tasks, FinishOpen(t)
  PROVE  Turns'
  <1>1. /\ t[2] = "command" /\ task[t].kind = "open" /\ task[t].pc \in Active
        /\ InFlight(task[t]) /\ Becomes(task[t].on, Released(Rt(t)))
    BY DEF FinishOpen, EndsAs, Settled, InFlight, Active, Pcs
  <1>2. PICK r \in Runtimes, h \in Commands : r = task[t].on /\ h = task[t].handle
    BY <1>1, TaskFacts DEF TInv, Fits
  <1>3. CASE Ends(t)
    <2>1. PICK z \in TaskType : /\ task' = [task EXCEPT ![t] = z] /\ z.kind = "none"
                                /\ z.pc \in {"none", "done"} /\ ~InFlight(z)
      BY <1>3, EndTask
    <2> QED  BY <1>1, <2>1, LandsReleased
  <1>4. CASE ~Ends(t)
    <2>1. PICK z \in TaskType : /\ z = NewTask("recover", h, r, "start") /\ z.pc = "start"
                                /\ z.kind = "recover"
      <3>1. NewTask("recover", h, r, "start").kind = "recover"
        BY DEF NewTask, NoTask
      <3> QED  BY <3>1, NewTaskFacts
    <2>2. task' = [task EXCEPT ![t] = z]
      BY <1>2, <1>4, <2>1 DEF FinishOpen
    <2>3. ~InFlight(z) /\ z.pc \in Active
      BY <2>1 DEF InFlight, Active, Pcs
    <2> QED  BY <1>1, <2>1, <2>2, <2>3, LandsReleased
  <1> QED  BY <1>3, <1>4

LEMMA FinishRunTurns ==
  ASSUME TInv, NEW t \in Tasks, FinishRun(t)
  PROVE  Turns'
  <1>1. /\ t[2] = "command" /\ task[t].pc \in Active /\ InFlight(task[t])
        /\ Becomes(task[t].on, Released(Rt(t))) /\ Ends(t)
    BY DEF FinishRun, EndsAs, Settled, InFlight, Active, Pcs
  <1>2. PICK z \in TaskType : /\ task' = [task EXCEPT ![t] = z] /\ z.kind = "none"
                              /\ z.pc \in {"none", "done"} /\ ~InFlight(z)
    BY <1>1, EndTask
  <1> QED  BY <1>1, <1>2, LandsReleased

LEMMA FinishCloseTurns ==
  ASSUME TInv, NEW t \in Tasks, FinishClose(t)
  PROVE  Turns'
  <1>1. /\ t[2] = "command" /\ task[t].kind = "close" /\ task[t].pc \in Active
        /\ InFlight(task[t])
    BY DEF FinishClose, EndsAs, Settled, InFlight, Active, Pcs
  <1>2. PICK r \in Runtimes, h \in Commands : r = task[t].on /\ h = task[t].handle
    BY <1>1, TaskFacts DEF TInv, Fits
  <1>3. PICK x \in RuntimeType : x = rt[r]
    BY DEF TInv, IInv, TypeOK
  <1>4. PICK d \in RuntimeType : /\ d = Released(x) /\ d.queue = x.queue /\ d.stop = x.stop
                                 /\ d.running = None
    <2>1. Released(x).running = None
      BY DEF Released, RuntimeType
    <2> QED  BY <2>1, ReleasedFacts
  <1>5. PICK s \in Seq(SessionType) : s = Without(r, h)
    BY <1>3, WithoutFacts
  <1>6. PICK y \in RuntimeType : /\ y = [d EXCEPT !.sessions = s] /\ y.queue = d.queue
                                 /\ y.stop = d.stop /\ y.running = d.running
    <2>1. [d EXCEPT !.sessions = s] \in RuntimeType
      BY DEF RuntimeType
    <2> QED  BY <2>1 DEF RuntimeType
  <1>7. rt' = [rt EXCEPT ![r] = y]
    BY <1>2, <1>3, <1>4, <1>5, <1>6 DEF FinishClose, Becomes, Rt
  <1>8. PICK z \in TaskType : /\ z = [task[t] EXCEPT !.pc = "released"]
                              /\ z.pc = "released"
    <2>1. task[t] \in TaskType /\ "released" \in Pcs
      BY DEF TInv, IInv, TypeOK, Pcs
    <2> QED  BY <2>1, PcOnly
  <1>9. task' = [task EXCEPT ![t] = z] /\ ~InFlight(z) /\ z.pc \in Active
    BY <1>8 DEF FinishClose, Goes, InFlight, Active, Pcs
  <1>10. y.running = None /\ y.queue = rt[r].queue /\ y.stop = rt[r].stop
    BY <1>3, <1>4, <1>6
  <1> QED  BY <1>1, <1>2, <1>7, <1>8, <1>9, <1>10, Lands

LEMMA ReleaseTurns ==
  ASSUME TInv, NEW t \in Tasks, Release(t)
  PROVE  Turns'
  <1>1. task[t].pc = "released" /\ task[t].pc \in Active /\ Ends(t) /\ ~InFlight(task[t])
    BY DEF Release, At, Active, Pcs, InFlight
  <1>2. PICK r \in Runtimes : r = task[t].on
    BY <1>1, TaskFacts DEF TInv
  <1>3. PICK x \in RuntimeType : x = rt[r] /\ Sound(r, x)
    BY DEF TInv, IInv, TypeOK
  <1>4. PICK z \in TaskType : /\ task' = [task EXCEPT ![t] = z] /\ z.kind = "none"
                              /\ z.pc \in {"none", "done"} /\ ~InFlight(z)
    BY <1>1, EndTask
  <1>5. CASE UNCHANGED rt
    BY <1>1, <1>4, <1>5, MovesOn
  <1>6. CASE ~UNCHANGED rt
    <2>1. PICK y \in RuntimeType : /\ y = ShutDown(x) /\ y.queue = x.queue
                                   /\ y.running = x.running
                                   /\ y.stop = x.stop \/ y.stop # "none"
      <3>1. ShutDown(x).stop = x.stop \/ ShutDown(x).stop # "none"
        BY DetachedFacts, StoppingFacts DEF ShutDown
      <3> QED  BY <1>3, <3>1, ShutDownFacts, PlaceKept
    <2>2. rt' = [rt EXCEPT ![r] = y]
      BY <1>2, <1>3, <1>6, <2>1 DEF Release, Becomes, Rt
    <2> QED  BY <1>1, <1>3, <1>4, <2>1, <2>2, Moves
  <1> QED  BY <1>5, <1>6

LEMMA FinishRecoveryTurns ==
  ASSUME TInv, NEW t \in Tasks, FinishRecovery(t)
  PROVE  Turns'
  <1>1. /\ task[t].pc \in {"answered", "rejected"} /\ task[t].pc \in Active /\ Ends(t)
        /\ ~InFlight(task[t])
    BY DEF FinishRecovery, Settled, Active, Pcs, InFlight
  <1>2. PICK r \in Runtimes, h \in Commands : r = task[t].on /\ h = task[t].handle
    BY <1>1, TaskFacts DEF TInv, Fits
  <1>3. PICK x \in RuntimeType : x = rt[r]
    BY DEF TInv, IInv, TypeOK
  <1>4. PICK z \in TaskType : /\ task' = [task EXCEPT ![t] = z] /\ z.kind = "none"
                              /\ z.pc \in {"none", "done"} /\ ~InFlight(z)
    BY <1>1, EndTask
  <1>5. PICK y \in RuntimeType : /\ rt' = [rt EXCEPT ![r] = y] /\ y.queue = x.queue
                                 /\ y.stop = x.stop /\ y.running = x.running
    <2>1. PICK w \in RuntimeType : w = [x EXCEPT !.attempted = @ \ {h}]
      BY DEF RuntimeType
    <2>2. w.queue = x.queue /\ w.stop = x.stop /\ w.running = x.running
      BY <2>1 DEF RuntimeType
    <2>3. rt' = [rt EXCEPT ![r] = w] \/ rt' = [rt EXCEPT ![r] = x]
      BY <1>2, <1>3, <2>1 DEF FinishRecovery, Becomes, Rt
    <2> QED  BY <2>2, <2>3
  <1> QED  BY <1>1, <1>3, <1>4, <1>5, Moves

-----------------------------------------------------------------------------
(* Stops and exits leave the places as they are *)

(* Task u is left alone, or moves on, when y is what becomes of runtime r.  *)
Stays(u, r, y) ==
  \/ /\ task'[u] = task[u]
     /\ task[u].on = r /\ task[u].pc = "restart" => y.stop = rt[r].stop \/ y.stop # "none"
  \/ /\ task[u].pc \in Flying /\ task'[u].pc \in Flying \ {"restart"}
     /\ task'[u].kind = task[u].kind /\ task'[u].on = task[u].on

LEMMA SidecarTurns ==
  ASSUME TInv, NEW r \in Runtimes, NEW y \in RuntimeType, rt' = [rt EXCEPT ![r] = y],
         y.running = rt[r].running, y.queue = rt[r].queue,
         \A u \in Tasks : Stays(u, r, y)
  PROVE  Turns'
  <1>1. \A s \in Runtimes : rt'[s] = IF s = r THEN y ELSE rt[s]
    BY DEF TInv, IInv, TypeOK
  <1>2. ASSUME NEW u \in Tasks
        PROVE  /\ task'[u].pc = "queued" <=> task[u].pc = "queued"
               /\ task'[u].on = task[u].on /\ task'[u].kind = task[u].kind
               /\ InFlight(task'[u]) <=> InFlight(task[u])
               /\ task'[u].pc \notin Active => task'[u].kind = "none"
               /\ task'[u].pc = "restart" => rt'[task'[u].on].stop # "none"
    <2>1. CASE /\ task[u].pc \in Flying /\ task'[u].pc \in Flying \ {"restart"}
               /\ task'[u].kind = task[u].kind /\ task'[u].on = task[u].on
      BY <2>1 DEF InFlight, Flying
    <2>2. CASE /\ task'[u] = task[u]
               /\ task[u].on = r /\ task[u].pc = "restart" =>
                    y.stop = rt[r].stop \/ y.stop # "none"
      <3>1. task[u].pc \notin Active => task[u].kind = "none"
        BY DEF TInv, Turns, Placed
      <3>2. ASSUME task[u].pc = "restart" PROVE rt'[task[u].on].stop # "none"
        <4>1. task[u].on \in Runtimes /\ rt[task[u].on].stop # "none"
          BY <3>2, TaskFacts DEF Active, Pcs, TInv, Turns, Placed, At, Rt
        <4> QED  BY <1>1, <2>2, <3>2, <4>1
      <3> QED  BY <2>2, <3>1, <3>2
    <2> QED  BY <2>1, <2>2 DEF Stays
  <1> QED  BY <1>1, <1>2, Flights

LEMMA PlacesStay ==
  ASSUME TInv, NEW r \in Runtimes, NEW y \in RuntimeType, rt' = [rt EXCEPT ![r] = y],
         y.running = rt[r].running, y.queue = rt[r].queue,
         y.stop = rt[r].stop \/ y.stop # "none", UNCHANGED task
  PROVE  Turns'
  BY SidecarTurns DEF Stays

LEMMA ClearAgainTurns ==
  ASSUME TInv, NEW r \in Runtimes, ClearAgain(r)
  PROVE  Turns'
  <1>1. PICK x \in RuntimeType : x = rt[r] /\ Sound(r, x)
    BY DEF TInv, IInv, TypeOK
  <1>2. PICK y \in RuntimeType :
          /\ y = [Detached(x) EXCEPT !.after = "none"]
          /\ y.queue = x.queue /\ y.running = x.running /\ y.stop = x.stop
    BY <1>1, ClearedFacts
  <1>3. rt' = [rt EXCEPT ![r] = y] /\ UNCHANGED task
    BY <1>1, <1>2 DEF ClearAgain, Becomes
  <1> QED  BY <1>1, <1>2, <1>3, PlacesStay

LEMMA CancelTurns ==
  ASSUME TInv, NEW c \in Commands, Cancel(c)
  PROVE  Turns'
  <1>1. PICK r \in pool : Becomes(r, ShutDown(rt[r])) /\ UNCHANGED task
    BY DEF Cancel
  <1>2. r \in Runtimes
    BY DEF TInv, IInv, TypeOK
  <1>3. PICK x \in RuntimeType : x = rt[r] /\ Sound(r, x)
    BY <1>2 DEF TInv, IInv, TypeOK
  <1>4. PICK y \in RuntimeType : /\ y = ShutDown(x) /\ y.queue = x.queue
                                 /\ y.running = x.running
                                 /\ y.stop = x.stop \/ y.stop # "none"
    <2>1. ShutDown(x).stop = x.stop \/ ShutDown(x).stop # "none"
      BY DetachedFacts, StoppingFacts DEF ShutDown
    <2> QED  BY <1>2, <1>3, <2>1, ShutDownFacts, PlaceKept
  <1>5. rt' = [rt EXCEPT ![r] = y]
    BY <1>1, <1>3, <1>4 DEF Becomes
  <1>6. y.queue = rt[r].queue /\ y.running = rt[r].running
        /\ (y.stop = rt[r].stop \/ y.stop # "none")
    BY <1>3, <1>4
  <1> QED  BY <1>1, <1>2, <1>5, <1>6, PlacesStay

LEMMA StopAnsweredTurns ==
  ASSUME TInv, NEW r \in Runtimes, StopAnswered(r)
  PROVE  Turns'
  <1>1. PICK x \in RuntimeType : x = rt[r]
    BY DEF TInv, IInv, TypeOK
  <1>2. PICK y \in RuntimeType : y = [x EXCEPT !.stop = "exiting"]
    BY DEF RuntimeType
  <1>3. y.queue = x.queue /\ y.running = x.running /\ y.stop # "none"
    BY <1>2 DEF RuntimeType
  <1>4. rt' = [rt EXCEPT ![r] = y] /\ UNCHANGED task
    BY <1>1, <1>2 DEF StopAnswered, Becomes
  <1> QED  BY <1>1, <1>3, <1>4, PlacesStay

LEMMA StopDeferredTurns ==
  ASSUME TInv, NEW r \in Runtimes, StopDeferred(r)
  PROVE  Turns'
  <1>1. PICK x \in RuntimeType : x = rt[r]
    BY DEF TInv, IInv, TypeOK
  <1>2. PICK y \in RuntimeType : y = Deferred(x)
    BY DEF RuntimeType, Deferred
  <1>3. y.queue = x.queue /\ y.running = x.running
    BY <1>2 DEF RuntimeType, Deferred
  <1>4. rt' = [rt EXCEPT ![r] = y]
    BY <1>1, <1>2 DEF StopDeferred, Becomes
  <1>5. ASSUME NEW u \in Tasks
        PROVE  Stays(u, r, y)
    <2>1. CASE task[u].on = r /\ task[u].pc = "restart"
      <3>1. task'[u] = [task[u] EXCEPT !.pc = "rejected"] /\ task[u] \in TaskType
        BY <2>1 DEF StopDeferred, At, TInv, IInv, TypeOK
      <3> QED  BY <2>1, <3>1 DEF Stays, TaskType, Flying, Active, Pcs
    <2>2. CASE ~(task[u].on = r /\ task[u].pc = "restart")
      BY <2>2 DEF Stays, StopDeferred, At
    <2> QED  BY <2>1, <2>2
  <1>6. y.queue = rt[r].queue /\ y.running = rt[r].running
    BY <1>1, <1>3
  <1> QED  BY <1>4, <1>5, <1>6, SidecarTurns

LEMMA LeftByTurns ==
  ASSUME TInv, NEW r \in Runtimes, NEW p \in Procs
  PROVE  LeftBy(r, p).running = rt[r].running
  <1>1. PICK x \in RuntimeType : x = rt[r]
    BY DEF TInv, IInv, TypeOK
  <1>2. PICK d \in RuntimeType : d = Detached(x) /\ d.running = x.running
    BY DetachedFacts, PlaceKept
  <1>3. PICK e \in RuntimeType : /\ e = IF x.child = p
                                       THEN Bereft(d) ELSE d
                                /\ e.running = x.running
    BY <1>2, BereftFacts
  <1>4. LeftBy(r, p) = [e EXCEPT !.attempted = @ \union Recovers(r)]
    BY <1>1, <1>2, <1>3 DEF LeftBy
  <1> QED  BY <1>1, <1>3, <1>4 DEF RuntimeType

(* Whoever waits for the process that exits is told, and the recovery that  *)
(* an exit starts is outside the queue.                                     *)
LEMMA ExitTurns ==
  ASSUME TInv, NEW p \in Procs, Exit(p)
  PROVE  Turns'
  <1>1. PICK r \in Runtimes : r = owner[p]
    BY DEF Exit, TInv, IInv, TypeOK
  <1>2. \A u \in Tasks : task[u].pc \notin {"respawn", "released"}
    BY DEF Exit, Calm, Urgent, Continues
  <1>3. PICK y \in RuntimeType : y = LeftBy(r, p)
    BY LeftByFacts DEF TInv
  <1>4. /\ y.running = rt[r].running /\ y.queue = rt[r].queue
        /\ rt[r].child # p => y.stop = rt[r].stop
    BY <1>3, LeftByFacts, LeftByTurns DEF TInv
  <1>5. rt' = [rt EXCEPT ![r] = y]
    BY <1>1, <1>3 DEF Exit, Becomes, LeftBy
  <1>6. \A s \in Runtimes : rt'[s] = IF s = r THEN y ELSE rt[s]
    BY <1>5 DEF TInv, IInv, TypeOK
  <1>7. ASSUME NEW u \in Tasks
        PROVE  \E z \in TaskType :
                 /\ z = AfterExit(u, p) /\ z.kind = task[u].kind /\ z.on = task[u].on
                 /\ z = task[u] \/ (task[u].pc \in Flying /\ z.pc \in Flying \ {"restart"})
                 /\ z.pc = "restart" => rt'[z.on].stop # "none"
    <2>1. PICK z \in TaskType :
           /\ z = AfterExit(u, p) /\ z.kind = task[u].kind /\ z.on = task[u].on
           /\ \/ task[u].to = p /\ z.pc = "rejected" /\ z.to = None
              \/ task[u].to # p /\ z.to = task[u].to /\ z.pc = task[u].pc
              \/ /\ task[u].to # p /\ z.to = task[u].to /\ z.pc = "respawn"
                 /\ task[u].pc = "restart" /\ task[u].on = r /\ rt[r].child = p
      BY <1>1, <1>2, AfterExitFacts DEF TInv
    <2>2. task[u] \in TaskType /\ Fits(task[u])
      BY DEF TInv, IInv, TypeOK
    <2>3. CASE task[u].to = p
      <3>1. task[u].pc \in Active /\ task[u].pc # "queued"
        BY <1>1, <2>2, <2>3, Nones DEF Fits
      <3>2. z.pc = "rejected"
        BY <2>1, <2>3
      <3> QED  BY <1>2, <2>1, <3>1, <3>2 DEF Flying, Active, Pcs
    <2>4. CASE task[u].to # p /\ task[u].pc = "restart" /\ task[u].on = r /\ rt[r].child = p
      <3>1. z.pc = "respawn"
        BY <1>1, <2>1, <2>2, <2>4 DEF AfterExit, TaskType
      <3> QED  BY <2>1, <2>4, <3>1 DEF Flying, Active, Pcs
    <2>5. CASE task[u].to # p /\ ~(task[u].pc = "restart" /\ task[u].on = r /\ rt[r].child = p)
      <3>1. z = task[u]
        BY <1>1, <2>1, <2>5 DEF AfterExit
      <3>2. ASSUME task[u].pc = "restart" PROVE rt'[task[u].on].stop # "none"
        <4>1. task[u].on \in Runtimes /\ rt[task[u].on].stop # "none"
          BY <3>2, TaskFacts DEF Active, Pcs, TInv, Turns, Placed, At, Rt
        <4> QED  BY <1>4, <1>6, <2>5, <3>2, <4>1
      <3> QED  BY <2>1, <3>1, <3>2
    <2> QED  BY <2>3, <2>4, <2>5
  <1>8. PICK left \in [Tasks -> TaskType] : left = [u \in Tasks |-> AfterExit(u, p)]
    BY <1>7
  <1>9. ASSUME NEW u \in Tasks
        PROVE  /\ left[u].pc = "queued" <=> task[u].pc = "queued"
               /\ left[u].on = task[u].on /\ left[u].kind = task[u].kind
               /\ InFlight(left[u]) <=> InFlight(task[u])
               /\ left[u].pc \notin Active => left[u].kind = "none"
               /\ left[u].pc = "restart" => rt'[left[u].on].stop # "none"
    <2>1. PICK z \in TaskType :
                 /\ z = AfterExit(u, p) /\ z.kind = task[u].kind /\ z.on = task[u].on
                 /\ z = task[u] \/ (task[u].pc \in Flying /\ z.pc \in Flying \ {"restart"})
                 /\ z.pc = "restart" => rt'[z.on].stop # "none"
      BY <1>7
    <2>2. left[u] = z
      BY <1>8, <2>1
    <2>3. task[u].pc \notin Active => task[u].kind = "none"
      BY DEF TInv, Turns, Placed
    <2> QED  BY <2>1, <2>2, <2>3 DEF InFlight, Flying
  <1>10. CASE Recovers(r) = {}
    <2>1. task' = left
      BY <1>1, <1>8, <1>10 DEF Exit
    <2> QED  BY <1>4, <1>6, <1>9, <2>1, Flights
  <1>11. CASE Recovers(r) # {}
    <2>1. PICK t \in FreeSlots, h \in Recovers(r) :
            task' = [left EXCEPT ![t] = NewTask("recover", h, r, "start")]
      BY <1>1, <1>8, <1>11 DEF Exit
    <2>2. t \in Tasks /\ task[t] = NoTask
      BY <2>1 DEF FreeSlots, RecoverySlots, Tasks
    <2>3. PICK z \in TaskType : z = NewTask("recover", h, r, "start") /\ z.pc = "start"
                                /\ z.kind = "recover"
      <3>1. NewTask("recover", h, r, "start").kind = "recover"
        BY DEF NewTask, NoTask
      <3>2. h \in Commands
        BY <2>1, LeftByFacts DEF TInv
      <3> QED  BY <3>1, <3>2, NewTaskFacts
    <2>4. \A u \in Tasks : task'[u] = IF u = t THEN z ELSE left[u]
      BY <1>8, <2>1, <2>2, <2>3
    <2>5. ~InFlight(z) /\ ~InFlight(task[t]) /\ z.pc \in Active /\ task[t].pc # "queued"
      BY <2>2, <2>3 DEF InFlight, NoTask, Active, Pcs
    <2>6. ASSUME NEW u \in Tasks
          PROVE  /\ task'[u].pc = "queued" <=> task[u].pc = "queued"
                 /\ task'[u].pc = "queued" =>
                      task'[u].on = task[u].on /\ task'[u].kind = task[u].kind
                 /\ InFlight(task'[u]) <=> InFlight(task[u])
                 /\ InFlight(task[u]) => task'[u].on = task[u].on
                 /\ task'[u].pc \notin Active => task'[u].kind = "none"
                 /\ task'[u].pc = "restart" => rt'[task'[u].on].stop # "none"
      <3>1. CASE u = t
        BY <2>3, <2>4, <2>5, <3>1
      <3>2. CASE u # t
        BY <1>9, <2>4, <3>2
      <3> QED  BY <3>1, <3>2
    <2> QED  BY <1>4, <1>6, <2>6, Flights
  <1> QED  BY <1>10, <1>11

-----------------------------------------------------------------------------
(* The queue and its place *)

(* A command that is given waits in the queue, and is not in flight.        *)
LEMMA EnqueueTurns ==
  ASSUME TInv, NEW c \in Commands, NEW kind \in {"open", "run", "close"}, NEW h \in Commands,
         NEW r \in Runtimes, NEW x \in RuntimeType, Enqueue(c, kind, h, r, x),
         x.queue = rt[r].queue, x.running = rt[r].running,
         x.stop = rt[r].stop \/ \A u \in Tasks : task[u].on # r
  PROVE  Turns'
  <1> DEFINE t == Command(c)
  <1>1. t \in Tasks /\ t[1] = c /\ t[2] = "command" /\ task[t] = NoTask
    BY DEF Command, Tasks, Enqueue
  <1>2. PICK z \in TaskType : z = NewTask(kind, h, r, "queued") /\ z.pc = "queued" /\ z.on = r
    BY NewTaskFacts
  <1>3. ~InFlight(z) /\ ~InFlight(task[t])
    BY <1>1, <1>2 DEF InFlight, NoTask
  <1>4. \A u \in Tasks : task'[u] = IF u = t THEN z ELSE task[u]
    BY <1>1, <1>2 DEF Enqueue, TInv, IInv, TypeOK
  <1>5. PICK q \in Seq(Commands) : q = x.queue
    BY DEF RuntimeType
  <1>6. PICK y \in RuntimeType : y = [x EXCEPT !.queue = Append(q, c)]
    BY <1>5, AppendCommand DEF RuntimeType
  <1>7. y.queue = Append(q, c) /\ y.running = x.running /\ y.stop = x.stop
    BY <1>6 DEF RuntimeType
  <1>8. \A s \in Runtimes : rt'[s] = IF s = r THEN y ELSE rt[s]
    BY <1>5, <1>6 DEF Enqueue, Becomes, RuntimeType, TInv, IInv, TypeOK
  <1>9. \A d \in Commands : Command(d) \in Tasks
    BY DEF Command, Tasks
  <1> HIDE DEF t
  <1>10. ASSUME NEW s \in Runtimes PROVE Turn(s)'
    <2>1. rt'[s].running = rt[s].running
      BY <1>7, <1>8
    <2>2. ASSUME NEW d \in Commands
          PROVE  InFlight(task'[Command(d)]) /\ task'[Command(d)].on = s
             <=> InFlight(task[Command(d)]) /\ task[Command(d)].on = s
      BY <1>3, <1>4, <1>9
    <2> QED  BY <2>1, <2>2 DEF TInv, Turns, Turn, InFlight
  <1>11. ASSUME NEW u \in Tasks PROVE Placed(u)'
    <2>1. CASE u = t
      <3>3. z.kind # "recover"
        BY <1>2 DEF NewTask, NoTask
      <3>1. task'[u] = z /\ rt'[r].queue = Append(q, c) /\ Len(q) + 1 \in DOMAIN Append(q, c)
            /\ Append(q, c)[Len(q) + 1] = c
        BY <1>4, <1>7, <1>8, <2>1, AppendCommand
      <3> QED  BY <1>1, <1>2, <2>1, <3>3, <3>1 DEF Placed, At, Rt, Active, Pcs
    <2>2. CASE u # t
      <3>1. task'[u] = task[u] /\ Placed(u)
        BY <1>4, <2>2 DEF TInv, Turns
      <3>2. ASSUME task[u].pc = "restart" PROVE rt'[task[u].on].stop # "none"
        <4>1. task[u].on \in Runtimes /\ rt[task[u].on].stop # "none"
          BY <3>1, <3>2, TaskFacts DEF Active, Pcs, TInv, Placed, At, Rt
        <4> QED  BY <1>7, <1>8, <4>1
      <3>3. ASSUME task[u].pc = "queued"
            PROVE  \E n \in DOMAIN rt'[task[u].on].queue : rt'[task[u].on].queue[n] = u[1]
        <4>1. PICK s \in Runtimes : s = task[u].on
          BY <3>3, TaskFacts DEF Active, Pcs, TInv
        <4>2. PICK n \in DOMAIN rt[s].queue : rt[s].queue[n] = u[1]
          BY <3>1, <3>3, <4>1 DEF Placed, At, Rt
        <4>3. CASE s = r
          <5>1. n \in DOMAIN Append(q, c) /\ Append(q, c)[n] = u[1]
            BY <1>5, <4>2, <4>3, AppendCommand
          <5> QED  BY <1>7, <1>8, <4>1, <4>3, <5>1
        <4>4. CASE s # r
          BY <1>8, <4>1, <4>2, <4>4
        <4> QED  BY <4>3, <4>4
      <3> QED  BY <3>1, <3>2, <3>3 DEF Placed, At, Rt
    <2> QED  BY <2>1, <2>2
  <1> QED  BY <1>10, <1>11 DEF Turns

(* A runtime that is new has an empty queue and holds no place.             *)
LEMMA OpenTurns ==
  ASSUME TInv, NEW c \in Commands, Open(c)
  PROVE  Turns'
  <1>1. CASE pool # {}
    <2>1. PICK r \in pool : Enqueue(c, "open", c, r, rt[r])
      BY <1>1 DEF Open
    <2>2. r \in Runtimes
      BY DEF TInv, IInv, TypeOK
    <2>3. PICK x \in RuntimeType : x = rt[r]
      BY <2>2 DEF TInv, IInv, TypeOK
    <2>4. Enqueue(c, "open", c, r, x)
      BY <2>1, <2>3
    <2> QED  BY <2>2, <2>3, <2>4, EnqueueTurns
  <1>2. CASE pool = {}
    <2>1. PICK r \in Runtimes : Unused(r) /\ Enqueue(c, "open", c, r, NewRuntime)
      BY <1>2 DEF Open
    <2>2. PICK x \in RuntimeType : x = NewRuntime /\ x.queue = <<>> /\ x.running = None
      BY NewRuntimeType DEF NewRuntime
    <2>3. \A u \in Tasks : task[u].on # r
      BY <2>1 DEF Unused
    <2>4. rt[r].queue = <<>>
      <3>1. PICK q \in Seq(Commands) : q = rt[r].queue
        BY DEF TInv, IInv, TypeOK, RuntimeType
      <3>2. ASSUME NEW n \in DOMAIN q PROVE FALSE
        <4>1. q[n] \in Commands /\ Waits(r, q[n])
          BY <3>1 DEF TInv, IInv, QueueOK
        <4> QED  BY <2>3, <4>1 DEF Waits, Command, Tasks
      <3>3. Len(q) = 0
        <4>1. Len(q) \in Nat /\ DOMAIN q = 1..Len(q)
          OBVIOUS
        <4>2. 1 \notin DOMAIN q
          BY <3>2
        <4> QED  BY <4>1, <4>2
      <3> QED  BY <3>1, <3>3
    <2>5. rt[r].running = None
      <3>1. rt[r].running \in Commands \union {None}
        BY DEF TInv, IInv, TypeOK, RuntimeType
      <3>2. \A d \in Commands : rt[r].running # d
        BY <2>3 DEF TInv, Turns, Turn, Command, Tasks
      <3> QED  BY <3>1, <3>2
    <2>6. Enqueue(c, "open", c, r, x)
      BY <2>1, <2>2
    <2> QED  BY <2>2, <2>3, <2>4, <2>5, <2>6, EnqueueTurns
  <1> QED  BY <1>1, <1>2

LEMMA RunTurns ==
  ASSUME TInv, NEW c \in Commands, NEW h \in Commands, Run(c, h) \/ Close(c, h)
  PROVE  Turns'
  <1>1. PICK r \in pool, kind \in {"run", "close"}, lifted \in SUBSET {h} :
          Enqueue(c, kind, h, r, [rt[r] EXCEPT !.attempted = @ \ lifted])
    <2>1. CASE Run(c, h)
      BY <2>1 DEF Run
    <2>2. CASE Close(c, h)
      <3>1. PICK r \in pool : Enqueue(c, "close", h, r, rt[r])
        BY <2>2 DEF Close
      <3>2. r \in Runtimes
        BY DEF TInv, IInv, TypeOK
      <3>3. PICK none \in SUBSET {h} : none = {}
        OBVIOUS
      <3>4. rt[r] = [rt[r] EXCEPT !.attempted = @ \ none]
        BY <3>2, <3>3 DEF TInv, IInv, TypeOK, RuntimeType
      <3> QED  BY <3>1, <3>4
    <2> QED  BY <2>1, <2>2
  <1>2. r \in Runtimes
    BY DEF TInv, IInv, TypeOK
  <1>3. PICK x \in RuntimeType : x = rt[r]
    BY <1>2 DEF TInv, IInv, TypeOK
  <1>4. PICK y \in RuntimeType : y = [x EXCEPT !.attempted = @ \ lifted]
    BY DEF RuntimeType
  <1>5. y.queue = rt[r].queue /\ y.running = rt[r].running /\ y.stop = rt[r].stop
    BY <1>3, <1>4 DEF RuntimeType
  <1>6. Enqueue(c, kind, h, r, y)
    BY <1>1, <1>3, <1>4
  <1> QED  BY <1>2, <1>5, <1>6, EnqueueTurns

(* The place is free when a command is taken: it alone is in flight then.   *)
LEMMA DequeueTurns ==
  ASSUME TInv, NEW r \in Runtimes, Dequeue(r)
  PROVE  Turns'
  <1>1. PICK x \in RuntimeType : x = rt[r] /\ x.running = None
    BY DEF Dequeue, MayDequeue, TInv, IInv, TypeOK
  <1>2. PICK q \in Seq(Commands) : q = x.queue /\ q # <<>>
    BY <1>1 DEF Dequeue, MayDequeue, RuntimeType
  <1>3. PICK c \in Commands : c = Head(q)
    BY <1>2, TailCommand
  <1> DEFINE t == Command(c)
  <1>4. t \in Tasks /\ t[1] = c /\ Waits(r, c)
    BY <1>1, <1>2, <1>3, TailCommand DEF TInv, IInv, QueueOK, Command, Tasks
  <1>5. PICK pc \in {"start", "answered"} : Goes(t, pc)
    BY <1>1, <1>2, <1>3 DEF Dequeue
  <1>6. PICK y \in RuntimeType : y = [x EXCEPT !.running = c, !.queue = Tail(@)]
    BY <1>2, TailCommand DEF RuntimeType
  <1>7. y.queue = Tail(q) /\ y.running = c /\ y.stop = x.stop
    BY <1>2, <1>6 DEF RuntimeType
  <1>8. \A s \in Runtimes : rt'[s] = IF s = r THEN y ELSE rt[s]
    BY <1>1, <1>2, <1>3, <1>6 DEF Dequeue, TInv, IInv, TypeOK
  <1>9. task[t] \in TaskType /\ Fits(task[t]) /\ task[t].pc = "queued" /\ task[t].on = r
    BY <1>4 DEF TInv, IInv, TypeOK, Waits
  <1>10. PICK z \in TaskType : /\ z = [task[t] EXCEPT !.pc = pc] /\ z.pc = pc
                               /\ z.kind = task[t].kind /\ z.on = r
    <2>1. pc \in Pcs
      BY DEF Pcs
    <2> QED  BY <1>9, <2>1, PcOnly
  <1>11. \A u \in Tasks : task'[u] = IF u = t THEN z ELSE task[u]
    BY <1>4, <1>5, <1>10 DEF Goes, TInv, IInv, TypeOK
  <1>12. InFlight(z) /\ ~InFlight(task[t])
    <2>1. task[t].kind \in {"open", "run", "close"}
      BY <1>4, <1>9, TaskFacts DEF TInv, Turns, Placed, At, Fits, TaskType, Active, Pcs
    <2> QED  BY <1>9, <1>10, <2>1 DEF InFlight
  <1>13. \A d \in Commands : Command(d) \in Tasks /\ (Command(d) = t <=> d = c)
    BY DEF Command, Tasks
  <1> HIDE DEF t
  <1>14. ASSUME NEW s \in Runtimes PROVE Turn(s)'
    <2>1. \A d \in Commands : ~(InFlight(task[Command(d)]) /\ task[Command(d)].on = r)
      BY <1>1, Nones DEF TInv, Turns, Turn
    <2>2. ASSUME NEW d \in Commands
          PROVE  rt'[s].running = d
             <=> InFlight(task'[Command(d)]) /\ task'[Command(d)].on = s
      <3>1. CASE s = r
        <4>1. rt'[s].running = c
          BY <1>7, <1>8, <3>1
        <4> QED  BY <1>10, <1>11, <1>12, <1>13, <2>1, <3>1, <4>1
      <3>2. CASE s # r
        <4>1. rt'[s].running = rt[s].running
          BY <1>8, <3>2
        <4>2. rt[s].running = d <=> InFlight(task[Command(d)]) /\ task[Command(d)].on = s
          BY DEF TInv, Turns, Turn
        <4> QED  BY <1>9, <1>10, <1>11, <1>12, <1>13, <3>2, <4>1, <4>2
      <3> QED  BY <3>1, <3>2
    <2> QED  BY <2>2 DEF Turn, InFlight
  <1>15. ASSUME NEW u \in Tasks PROVE Placed(u)'
    <2>1. CASE u = t
      <3>1. task'[u] = z
        BY <1>11, <2>1
      <3> QED  BY <1>10, <3>1 DEF Placed, At, Active, Pcs
    <2>2. CASE u # t
      <3>1. task'[u] = task[u] /\ Placed(u)
        BY <1>11, <2>2 DEF TInv, Turns
      <3>2. ASSUME task[u].pc = "restart" PROVE rt'[task[u].on].stop # "none"
        <4>1. task[u].on \in Runtimes /\ rt[task[u].on].stop # "none"
          BY <3>1, <3>2, TaskFacts DEF Active, Pcs, TInv, Placed, At, Rt
        <4> QED  BY <1>1, <1>7, <1>8, <4>1
      <3>3. ASSUME task[u].pc = "queued"
            PROVE  \E n \in DOMAIN rt'[task[u].on].queue : rt'[task[u].on].queue[n] = u[1]
        <4>1. PICK s \in Runtimes : s = task[u].on
          BY <3>3, TaskFacts DEF Active, Pcs, TInv
        <4>2. PICK n \in DOMAIN rt[s].queue : rt[s].queue[n] = u[1] /\ u[2] = "command"
          BY <3>1, <3>3, <4>1 DEF Placed, At, Rt
        <4>3. CASE s = r
          <5>1. u[1] # c
            BY <1>4, <2>2, <4>2 DEF Tasks, Command, t
          <5>2. n \in DOMAIN q /\ q[n] = u[1] /\ n # 1
            BY <1>1, <1>2, <1>3, <4>2, <4>3, <5>1, TailCommand
          <5>3. n - 1 \in DOMAIN Tail(q) /\ Tail(q)[n - 1] = u[1]
            BY <5>2
          <5> QED  BY <1>7, <1>8, <4>1, <4>3, <5>3
        <4>4. CASE s # r
          BY <1>8, <4>1, <4>2, <4>4
        <4> QED  BY <4>3, <4>4
      <3> QED  BY <3>1, <3>2, <3>3 DEF Placed, At, Rt
    <2> QED  BY <2>1, <2>2
  <1> QED  BY <1>14, <1>15 DEF Turns

-----------------------------------------------------------------------------

LEMMA NextTurns == TInv /\ [Next]_vars => TInv'
  <1> SUFFICES ASSUME TInv, [Next]_vars PROVE Turns'
    BY NextIInv DEF TInv
  <1>1. ASSUME NEW c \in Commands, CommandStep(c) PROVE Turns'
    BY <1>1, OpenTurns, CancelTurns, RunTurns DEF CommandStep
  <1>2. ASSUME NEW t \in Tasks, StartStep(t) PROVE Turns'
    BY <1>2, BeginStartTurns, ReuseTurns, SpawnTurns, StartFailsTurns DEF StartStep
  <1>3. ASSUME NEW t \in Tasks, ReplyStep(t) PROVE Turns'
    BY <1>3, HelloTurns, ResolveTurns, OpenedTurns, CalledTurns DEF ReplyStep
  <1>4. ASSUME NEW t \in Tasks, EndStep(t) PROVE Turns'
    BY <1>4, FinishOpenTurns, FinishRunTurns, FinishCloseTurns, ReleaseTurns,
       FinishRecoveryTurns DEF EndStep
  <1>5. ASSUME NEW t \in Tasks, RequestFails(t) \/ Restart(t) PROVE Turns'
    BY <1>5, CalledTurns, RestartTurns
  <1>6. ASSUME NEW r \in Runtimes, Dequeue(r) \/ StopStep(r) PROVE Turns'
    BY <1>6, DequeueTurns, ClearAgainTurns, StopAnsweredTurns, StopDeferredTurns DEF StopStep
  <1>7. ASSUME NEW p \in Procs, Exit(p) PROVE Turns'
    BY <1>7, ExitTurns
  <1>8. CASE UNCHANGED vars
    BY <1>8 DEF vars, TInv, Turns, Turn, Placed, At, Rt, InFlight
  <1> QED  BY <1>1, <1>2, <1>3, <1>4, <1>5, <1>6, <1>7, <1>8 DEF Next, TaskStep

LEMMA TInvHolds == Spec => []TInv
  BY InitTInv, NextTurns, PTL DEF Spec

(* Two commands of a runtime are never between its queue and their answers  *)
(* together, whatever is opened, closed, cancelled, stopped and crashes     *)
(* (enqueue of workspaceRuntime.ts).                                        *)
THEOREM TurnsAreKept == Spec => []CommandsTakeTurns
  <1>1. TInv => CommandsTakeTurns
    <2> SUFFICES ASSUME TInv, NEW c \in Commands, NEW d \in Commands,
                        InFlight(task[Command(c)]), InFlight(task[Command(d)]),
                        task[Command(c)].on = task[Command(d)].on
                 PROVE  c = d
      BY DEF CommandsTakeTurns
    <2>1. Command(c) \in Tasks /\ task[Command(c)].kind # "none"
      BY DEF Command, Tasks, InFlight
    <2>2. PICK r \in Runtimes : r = task[Command(c)].on
      BY <2>1, TaskFacts DEF TInv, Turns, Placed
    <2>3. rt[r].running = c /\ rt[r].running = d
      BY <2>2 DEF TInv, Turns, Turn
    <2> QED  BY <2>3
  <1> QED  BY <1>1, TInvHolds, PTL

(* No wait is left without somebody to end it, after every exit, stop,      *)
(* restart and close: the safety half of TasksSettle (the queue, the exit   *)
(* waits and the pending requests of the Frontend RPC runtime).             *)
THEOREM TasksStayServed == Spec => []TasksAreServed
  <1>1. TInv => TasksAreServed
    <2> SUFFICES ASSUME TInv, NEW t \in Tasks, task[t].kind # "none", NEW r, r = task[t].on
                 PROVE  \/ Continues(t) \/ At(t, "env")
                        \/ /\ At(t, "queued")
                           /\ \/ MayDequeue(r)
                              \/ \E c \in Commands : /\ rt[r].running = c
                                                     /\ task[Command(c)].on = r
                                                     /\ InFlight(task[Command(c)])
                        \/ /\ task[t].pc \in {"start", "restart"} /\ rt[r].stop # "none"
                           /\ rt[r].child # None /\ owner[rt[r].child] = r
                        \/ Requesting(t) /\ owner[task[t].to] = r
      BY DEF TasksAreServed
    <2>1. task[t].pc \in Active /\ Placed(t)
      BY DEF TInv, Turns, Placed
    <2>2. r \in Runtimes /\ Fits(task[t]) /\ Sound(r, rt[r]) /\ rt[r] \in RuntimeType
      BY <2>1, TaskFacts DEF TInv, Rt
    <2>3. CASE task[t].pc \in {"start", "restart"}
      BY <2>1, <2>2, <2>3 DEF Sound, Placed, Continues, MayStart, At, Rt
    <2>4. CASE task[t].pc = "queued"
      <3>1. PICK q \in Seq(Commands) : q = rt[r].queue /\ q # <<>>
        BY <2>1, <2>2, <2>4 DEF Placed, At, Rt, RuntimeType
      <3>2. rt[r].running # None => rt[r].running \in Commands
        BY <2>2 DEF RuntimeType
      <3> QED  BY <2>2, <2>4, <3>1, <3>2 DEF MayDequeue, At, TInv, Turns, Turn
    <2>5. CASE task[t].pc \in {"hello", "opening", "calling"}
      BY <2>2, <2>5 DEF Fits, Requesting
    <2>6. CASE task[t].pc \in {"env", "resolve", "answered", "rejected", "released", "respawn"}
      BY <2>6 DEF Continues, At
    <2> QED  BY <2>1, <2>3, <2>4, <2>5, <2>6 DEF Active, Pcs
  <1> QED  BY <1>1, TInvHolds, PTL
=============================================================================
