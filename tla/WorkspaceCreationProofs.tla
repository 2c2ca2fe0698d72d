------------------------ MODULE WorkspaceCreationProofs ------------------------
(***************************************************************************)
(* Proofs about WorkspaceCreation, for any set of creations and any number *)
(* of edits and faults: the journal is durable and never goes back, what   *)
(* is abandoned loses its own registrations and no others, an unfinished   *)
(* creation is always offered its next action, and a journal closes once   *)
(* and on evidence.                                                        *)
(***************************************************************************)
EXTENDS WorkspaceCreation, TLAPS

(* What is left of an action while it runs.                                 *)
Closing == <<"recent", "save3", "save4", "remove">>
Left(o) ==
  CASE o = "begin"    -> {<<"capture", "journal">>, <<"journal">>}
    [] o = "mark"     -> {<<"created">>}
    [] o = "unfinish" -> {<<"unfinish">>}
    [] o = "register" -> {<<"manifest", "save2">>, <<"save2">>}
    [] o \in {"complete", "continue"} ->
         {<<"manifest", "save2", "recent", "save3", "save4", "remove">>,
          <<"save2", "recent", "save3", "save4", "remove">>,
          <<"recent", "save3", "save4", "remove">>,
          <<"save3", "save4", "remove">>, <<"save4", "remove">>, <<"remove">>}
    [] o = "abandon"  ->
         {<<"inspect", "forget", "unrecent", "unregister", "delete", "remove">>,
          <<"forget", "unrecent", "unregister", "delete", "remove">>,
          <<"unrecent", "unregister", "delete", "remove">>,
          <<"unregister", "delete", "remove">>, <<"delete", "remove">>, <<"remove">>}

(* The evidence that comes with a stage.                                    *)
Evident(r) == /\ r.stage >= 2 => r.manifest.registered # 0
              /\ r.stage >= 3 => r.recent.registered # 0

WellFormed(e) == e.v = 0 => e.by = "nobody"
Younger(c, e) == e.v = 0 \/ e.v > born[c]

(* What was not there at the beginning came after it.                       *)
Newer(c, r) ==
  /\ r.manifest.before = 0 /\ ~blind[c] => Younger(c, manifest[c])
  /\ r.recent.before = 0 => Younger(c, recent[c])

(* The record of an action is at the stage of the file.                     *)
Matches(r, s) == /\ r.stage = s.stage /\ r.active = s.active
                 /\ r.manifest.before = s.manifest.before
                 /\ r.recent.before = s.recent.before

BeginOK(c, j) == /\ rec[c] = None /\ c \notin invalid
                 /\ At(j, "journal") => j.record.stage = 0 /\ Newer(c, j.record)

SavingOK(j) == /\ ~At(j, "manifest") => j.record.manifest.registered # 0
               /\ At(j, "save3") \/ At(j, "save4") => j.record.recent.registered # 0
               /\ Evident(j.record)

(* What an entry compared with the recorded one may have become since.      *)
Since(j, e, own) == e.v = 0 \/ e.v = own.registered \/ e.v > j.asof

Abandons(c, j) ==
  /\ j.record = rec[c]
  /\ j.asof <= clock
  /\ WellFormed(j.dropped)
  /\ j.dropped.v # 0 => j.record.recent.before = 0 /\ Younger(c, j.dropped)
  /\ j.seen # 0 => j.record.manifest.before = 0

(* What it has removed or found to be gone.                                 *)
Cleared(c, j) ==
  /\ ~At(j, "inspect") /\ (~At(j, "remove") => j.seen = 0) /\ ~blind[c]
       /\ j.record.manifest.before = 0 => manifest[c].by # "journal"
  /\ ~At(j, "inspect") /\ ~At(j, "forget") /\ (At(j, "unrecent") => j.dropped.v = 0)
       /\ j.record.recent.before = 0 => recent[c].by # "journal"

Compared(c, j) ==
  /\ At(j, "unrecent") /\ j.dropped.v # 0 => Since(j, recent[c], j.record.recent)
  /\ At(j, "delete") /\ j.seen # 0 => Since(j, manifest[c], j.record.manifest)

AbandonOK(c, j) == Abandons(c, j) /\ Cleared(c, j) /\ Compared(c, j)

JobOK(c, j) ==
  /\ j.steps \in Left(j.op)
  /\ j.op = "begin" => BeginOK(c, j)
  /\ j.op # "begin" => rec[c] # None /\ Matches(j.record, rec[c])
  /\ j.op \in {"register", "complete", "continue"} => SavingOK(j)
  /\ j.op \in {"mark", "unfinish"} => Evident(j.record)
  /\ j.op = "abandon" => AbandonOK(c, j)

(* One action at a time, and only while the application is up.              *)
JobsOK(c) ==
  /\ \A j \in job[c] : JobOK(c, j) /\ \A k \in job[c] : j = k
  /\ job[c] # {} => app = "up"

Durable(c) ==
  /\ rec[c] # None => file[c] = rec[c]
  /\ app = "up" \/ (app = "loading" /\ c \in loaded) =>
       (file[c] # None => rec[c] # None \/ c \in invalid)
  /\ c \in invalid => file[c] # None /\ rec[c] = None /\ app # "down" /\ c \in loaded
  /\ app = "down" \/ (app = "loading" /\ c \notin loaded) => rec[c] = None
  /\ app = "down" => c \notin loaded

EntriesOK(c) ==
  /\ WellFormed(manifest[c]) /\ WellFormed(recent[c])
  /\ born[c] <= clock
  /\ file[c] # None => Newer(c, file[c]) /\ Evident(file[c])

InvOf(c) == JobsOK(c) /\ Durable(c) /\ EntriesOK(c)
IInv == TypeOK /\ \A c \in Creations : InvOf(c)

-----------------------------------------------------------------------------
(* The invariant holds at first and gives the state properties. *)

LEMMA InitIInv == Init => IInv
  <1> SUFFICES ASSUME Init PROVE IInv  OBVIOUS
  <1>1. TypeOK
    BY CreationAssumption DEF Init, TypeOK, Records, Entry, NoEntry, Job
  <1>2. ASSUME NEW c \in Creations PROVE InvOf(c)
    BY DEF Init, InvOf, JobsOK, Durable, EntriesOK, WellFormed, NoEntry
  <1> QED  BY <1>1, <1>2 DEF IInv

LEMMA DurableFromIInv == IInv => JournalIsDurable
  BY DEF IInv, InvOf, Durable, JournalIsDurable

-----------------------------------------------------------------------------
(* Frame: what a step does not touch stays right *)

Own(c) == <<file[c], rec[c], job[c], manifest[c], recent[c], born[c], blind[c]>>

(* What others do to the entries while an action compares and removes them.  *)
Elsewhere(old, new) ==
  new = old \/ (new.by # "journal" /\ new.v \in Nat /\ (new.v = 0 \/ new.v > clock))

LEMMA AbandonFrame ==
  ASSUME IInv, NEW c \in Creations, NEW j \in job[c], j.op = "abandon",
         UNCHANGED <<rec[c], born[c], blind[c]>>, clock' \in Nat, clock <= clock',
         Elsewhere(manifest[c], manifest'[c]), Elsewhere(recent[c], recent'[c])
  PROVE  AbandonOK(c, j)'
  <1>1. AbandonOK(c, j) /\ j \in Job
    BY DEF IInv, TypeOK, InvOf, JobsOK, JobOK
  <1>2. j.asof \in Nat /\ clock \in Nat
    BY <1>1 DEF IInv, TypeOK, Job
  <1>3. Abandons(c, j)'
    BY <1>1, <1>2 DEF AbandonOK, Abandons, WellFormed, Younger
  <1>4. Cleared(c, j)'
    BY <1>1 DEF AbandonOK, Cleared, Elsewhere, At
  <1>5. Compared(c, j)'
    <2>1. j.asof <= clock /\ Compared(c, j)
      BY <1>1 DEF AbandonOK, Abandons
    <2>2. ASSUME NEW old \in Entry, NEW new, NEW own, Elsewhere(old, new),
                 Since(j, old, own)
          PROVE  new.v = 0 \/ new.v = own.registered \/ new.v > j.asof
      <3>1. CASE new = old
        BY <2>2, <3>1 DEF Since
      <3>2. CASE new.v = 0 \/ (new.v > clock /\ new.v \in Nat)
        BY <1>2, <2>1, <3>2
      <3> QED  BY <2>2, <3>1, <3>2 DEF Elsewhere
    <2> QED  BY <2>1, <2>2 DEF Compared, Since, At, IInv, TypeOK
  <1> QED  BY <1>3, <1>4, <1>5 DEF AbandonOK

LEMMA JobsFrame ==
  ASSUME IInv, NEW c \in Creations,
         UNCHANGED <<app, file[c], rec[c], job[c], born[c], blind[c]>>,
         c \in invalid <=> c \in invalid', clock' \in Nat, clock <= clock',
         manifest'[c] = manifest[c] \/ Younger(c, manifest'[c]),
         recent'[c] = recent[c] \/ Younger(c, recent'[c]),
         Elsewhere(manifest[c], manifest'[c]), Elsewhere(recent[c], recent'[c])
  PROVE  JobsOK(c)'
  <1>1. ASSUME NEW j \in job[c] PROVE JobOK(c, j)'
    <2>1. JobOK(c, j)
      BY DEF IInv, InvOf, JobsOK
    <2>2. j.op = "begin" => BeginOK(c, j)'
      BY <2>1 DEF JobOK, BeginOK, Newer, Younger, At
    <2>3. j.op \in {"register", "complete", "continue"} => SavingOK(j)
      BY <2>1 DEF JobOK
    <2>4. j.op = "abandon" => AbandonOK(c, j)'
      BY AbandonFrame
    <2> QED  BY <2>1, <2>2, <2>3, <2>4 DEF JobOK, SavingOK, At, Matches, Evident
  <1> QED  BY <1>1 DEF IInv, InvOf, JobsOK

LEMMA Frame ==
  ASSUME IInv, NEW c \in Creations, UNCHANGED Own(c), UNCHANGED app,
         c \in loaded <=> c \in loaded', c \in invalid <=> c \in invalid',
         clock' \in Nat, clock <= clock'
  PROVE  InvOf(c)'
  <1>1. JobsOK(c)'
    BY JobsFrame DEF Own, Elsewhere
  <1>2. Durable(c)'
    BY DEF IInv, InvOf, Durable, Own
  <1>3. EntriesOK(c)'
    BY DEF IInv, TypeOK, InvOf, EntriesOK, Own, Newer, Younger, Evident, WellFormed
  <1> QED  BY <1>1, <1>2, <1>3 DEF InvOf

LEMMA StutterIInv == IInv /\ UNCHANGED vars => IInv'
  <1> SUFFICES ASSUME IInv, UNCHANGED vars PROVE IInv'  OBVIOUS
  <1>1. TypeOK'
    BY DEF IInv, TypeOK, vars, registrations, history
  <1>2. ASSUME NEW c \in Creations PROVE InvOf(c)'
    BY Frame DEF IInv, TypeOK, vars, registrations, history, Own
  <1> QED  BY <1>1, <1>2 DEF IInv

-----------------------------------------------------------------------------
(* Others *)

LEMMA EccBuildsStep ==
  ASSUME IInv, NEW c \in Creations, EccBuilds(c)
  PROVE  IInv'
  <1>1. TypeOK'
    BY DEF IInv, TypeOK, EccBuilds, others, registrations, history
  <1>2. ASSUME NEW d \in Creations PROVE InvOf(d)'
    BY Frame DEF IInv, TypeOK, EccBuilds, others, registrations, history, Own
  <1> QED  BY <1>1, <1>2 DEF IInv

LEMMA UserWorksStep ==
  ASSUME IInv, NEW c \in Creations, UserWorks(c)
  PROVE  IInv'
  <1>1. TypeOK'
    BY DEF IInv, TypeOK, UserWorks, others, registrations, history
  <1>2. ASSUME NEW d \in Creations PROVE InvOf(d)'
    BY Frame DEF IInv, TypeOK, UserWorks, others, registrations, history, Own
  <1> QED  BY <1>1, <1>2 DEF IInv

(* An entry of another is newer than every creation that has begun.         *)
LEMMA EditedEntry ==
  ASSUME IInv, NEW c \in Creations, NEW old, NEW e \in Edited(old)
  PROVE  /\ e \in Entry /\ WellFormed(e) /\ e.by # "journal"
         /\ e.v = 0 \/ e.v > born[c]
  BY DEF IInv, TypeOK, InvOf, EntriesOK, Edited, Entry, NoEntry, WellFormed

LEMMA ManifestEditedStep ==
  ASSUME IInv, NEW c \in Creations, ManifestEdited(c)
  PROVE  IInv'
  <1>1. PICK e \in Edited(manifest[c]) : manifest' = [manifest EXCEPT ![c] = e]
    BY DEF ManifestEdited
  <1>2. /\ e \in Entry /\ WellFormed(e) /\ e.by # "journal"
        /\ e.v = 0 \/ e.v > born[c]
    BY <1>1, EditedEntry
  <1>3. TypeOK'
    BY <1>1, <1>2, CreationAssumption
    DEF IInv, TypeOK, ManifestEdited, others, registrations, history
  <1>4. InvOf(c)'
    <2>1. JobsOK(c)'
      <3>1. manifest'[c] = e /\ recent'[c] = recent[c] /\ clock' \in Nat /\ clock <= clock'
        BY <1>1 DEF ManifestEdited, IInv, TypeOK
      <3>2. e.v \in Nat /\ (e.v = 0 \/ e.v > clock)
        BY <1>1 DEF Edited, NoEntry, IInv, TypeOK
      <3> QED  BY <1>2, <3>1, <3>2, JobsFrame
               DEF ManifestEdited, others, history, Younger, Elsewhere
    <2>2. Durable(c)'
      BY DEF IInv, InvOf, Durable, ManifestEdited, others
    <2>3. EntriesOK(c)'
      BY <1>1, <1>2 DEF IInv, TypeOK, InvOf, EntriesOK, Newer, Younger, Evident, WellFormed,
         ManifestEdited, others, history
    <2> QED  BY <2>1, <2>2, <2>3 DEF InvOf
  <1>5. ASSUME NEW d \in Creations \ {c} PROVE InvOf(d)'
    BY <1>1, Frame DEF IInv, TypeOK, ManifestEdited, others, history, Own
  <1> QED  BY <1>3, <1>4, <1>5 DEF IInv

LEMMA RecentEditedStep ==
  ASSUME IInv, NEW c \in Creations, RecentEdited(c)
  PROVE  IInv'
  <1>1. PICK e \in Edited(recent[c]) : recent' = [recent EXCEPT ![c] = e]
    BY DEF RecentEdited
  <1>2. /\ e \in Entry /\ WellFormed(e) /\ e.by # "journal"
        /\ e.v = 0 \/ e.v > born[c]
    BY <1>1, EditedEntry
  <1>3. TypeOK'
    BY <1>1, <1>2, CreationAssumption
    DEF IInv, TypeOK, RecentEdited, others, registrations, history
  <1>4. InvOf(c)'
    <2>1. JobsOK(c)'
      <3>1. recent'[c] = e /\ manifest'[c] = manifest[c] /\ clock' \in Nat /\ clock <= clock'
        BY <1>1 DEF RecentEdited, IInv, TypeOK
      <3>2. e.v \in Nat /\ (e.v = 0 \/ e.v > clock)
        BY <1>1 DEF Edited, NoEntry, IInv, TypeOK
      <3> QED  BY <1>2, <3>1, <3>2, JobsFrame
               DEF RecentEdited, others, history, Younger, Elsewhere
    <2>2. Durable(c)'
      BY DEF IInv, InvOf, Durable, RecentEdited, others
    <2>3. EntriesOK(c)'
      BY <1>1, <1>2 DEF IInv, TypeOK, InvOf, EntriesOK, Newer, Younger, Evident, WellFormed,
         RecentEdited, others, history
    <2> QED  BY <2>1, <2>2, <2>3 DEF InvOf
  <1>5. ASSUME NEW d \in Creations \ {c} PROVE InvOf(d)'
    BY <1>1, Frame DEF IInv, TypeOK, RecentEdited, others, history, Own
  <1> QED  BY <1>3, <1>4, <1>5 DEF IInv

-----------------------------------------------------------------------------
(* An action begins *)

LEMMA StepsTyped ==
  ASSUME NEW o \in Operations
  PROVE  Steps(o) \in Seq(StepNames) /\ Steps(o) \in Left(o)
  <1>1. CASE o = "begin"
    <2>1. Steps(o) = <<"capture", "journal">>
      BY <1>1 DEF Steps
    <2>2. Steps(o) \in Seq(StepNames)
      BY <2>1 DEF StepNames
    <2> QED  BY <1>1, <2>1, <2>2 DEF Left
  <1>2. CASE o \in {"mark", "unfinish"}
    BY <1>2 DEF Steps, Left, StepNames
  <1>3. CASE o = "register"
    <2>1. Steps(o) = <<"manifest", "save2">>
      BY <1>3 DEF Steps
    <2>2. Steps(o) \in Seq(StepNames)
      BY <2>1 DEF StepNames
    <2> QED  BY <1>3, <2>1, <2>2 DEF Left
  <1>4. CASE o \in {"complete", "continue"}
    <2>1. Steps(o) = <<"manifest", "save2", "recent", "save3", "save4", "remove">>
      BY <1>4 DEF Steps
    <2>2. Steps(o) \in Seq(StepNames)
      BY <2>1 DEF StepNames
    <2> QED  BY <1>4, <2>1, <2>2 DEF Left
  <1>5. CASE o = "abandon"
    BY <1>5 DEF Steps, Left, StepNames
  <1> QED  BY <1>1, <1>2, <1>3, <1>4, <1>5 DEF Operations

LEMMA StartStep ==
  ASSUME IInv, NEW c \in Creations, NEW o \in Operations, Start(c, o)
  PROVE  IInv'
  <1> DEFINE j == [op |-> o, steps |-> Steps(o), seen |-> 0, dropped |-> NoEntry,
     asof |-> 0,
                   record |-> IF rec[c] = None THEN NoRecord ELSE rec[c]]
  <1>1. job[c] = {} /\ job' = [job EXCEPT ![c] = {j}]
    BY DEF Start, Queued, IInv, TypeOK
  <1>2. NoRecord \in Record /\ NoEntry \in Entry
    BY DEF NoRecord, Record, Ownership, Unowned, NoEntry, Entry
  <1>3. j \in Job
    BY <1>2, StepsTyped DEF Job, IInv, TypeOK, Records
  <1>4. TypeOK'
    BY <1>1, <1>3 DEF Start, IInv, TypeOK, registrations, history
  <1>5. InvOf(c)'
    <2>1. JobOK(c, j)
      <3>1. o # "begin" => rec[c] # None /\ file[c] = rec[c] /\ Evident(rec[c])
        BY DEF Start, Accepts, Operations, IInv, InvOf, Durable, EntriesOK
      <3>2. o = "begin" => rec[c] = None /\ c \notin invalid /\ j.steps = <<"capture", "journal">>
        BY DEF Start, Accepts, Steps
      <3>3. BeginOK(c, j) \/ o # "begin"
        BY <3>2 DEF BeginOK, At
      <3>4. o \in {"register", "complete", "continue"} => SavingOK(j)
        <4> SUFFICES ASSUME o \in {"register", "complete", "continue"} PROVE SavingOK(j)
          OBVIOUS
        <4>1. Steps(o) # <<>> /\ Head(Steps(o)) = "manifest"
          BY DEF Steps
        <4> QED  BY <4>1, <3>1 DEF SavingOK, At
      <3>5. o = "abandon" => AbandonOK(c, j)
        BY <3>1 DEF AbandonOK, Abandons, Cleared, Compared, At, Steps, WellFormed, NoEntry,
           IInv, TypeOK
      <3> QED  BY <3>1, <3>3, <3>4, <3>5, StepsTyped DEF JobOK, Matches
    <2>2. JobsOK(c)'
      <3>1. JobOK(c, j)'
        BY <2>1 DEF Start, history, registrations, JobOK, BeginOK, SavingOK, AbandonOK,
           Abandons, Cleared,
         Compared, Since, At,
           Newer, Younger, Matches, Evident, WellFormed
      <3> QED  BY <1>1, <3>1 DEF JobsOK, Start, IInv, TypeOK
    <2>3. Durable(c)'
      BY DEF IInv, InvOf, Durable, Start
    <2>4. EntriesOK(c)'
      BY DEF IInv, InvOf, EntriesOK, Newer, Younger, Evident, WellFormed, Start, history,
         registrations
    <2> QED  BY <2>2, <2>3, <2>4 DEF InvOf
  <1>6. ASSUME NEW d \in Creations \ {c} PROVE InvOf(d)'
    BY <1>1, Frame DEF IInv, TypeOK, Start, registrations, history, Own
  <1> QED  BY <1>4, <1>5, <1>6 DEF IInv

-----------------------------------------------------------------------------
(* Where an action is *)

(* Its next step, and the one that follows; or its last step.               *)
Stands(j, step, next) ==
  /\ j.steps # <<>> /\ Head(j.steps) = step
  /\ Tail(j.steps) # <<>> /\ Head(Tail(j.steps)) = next /\ Tail(j.steps) \in Left(j.op)
Last(j, step) == j.steps # <<>> /\ Head(j.steps) = step /\ Tail(j.steps) = <<>>

LEMMA WhereBeginning ==
  ASSUME NEW j, j.steps \in Left(j.op), j.op = "begin"
  PROVE  Stands(j, "capture", "journal") \/ Last(j, "journal")
  <1>1. \/ j.steps = <<"capture", "journal">>
       \/ j.steps = <<"journal">>
    BY DEF Left
  <1>2. CASE j.steps = <<"capture", "journal">>
    <2>1. <<"journal">> \in Left(j.op)
      BY DEF Left
    <2> QED  BY <1>2, <2>1 DEF Stands
  <1>3. CASE j.steps = <<"journal">>
    BY <1>3 DEF Last
  <1> QED  BY <1>1, <1>2, <1>3

LEMMA WhereMarking ==
  ASSUME NEW j, j.steps \in Left(j.op), j.op = "mark"
  PROVE  Last(j, "created")
  <1>1. j.steps = <<"created">>
    BY DEF Left
  <1> QED  BY <1>1 DEF Last

LEMMA WhereUnfinishing ==
  ASSUME NEW j, j.steps \in Left(j.op), j.op = "unfinish"
  PROVE  Last(j, "unfinish")
  <1>1. j.steps = <<"unfinish">>
    BY DEF Left
  <1> QED  BY <1>1 DEF Last

LEMMA WhereRegistering ==
  ASSUME NEW j, j.steps \in Left(j.op), j.op = "register"
  PROVE  Stands(j, "manifest", "save2") \/ Last(j, "save2")
  <1>1. \/ j.steps = <<"manifest", "save2">>
       \/ j.steps = <<"save2">>
    BY DEF Left
  <1>2. CASE j.steps = <<"manifest", "save2">>
    <2>1. <<"save2">> \in Left(j.op)
      BY DEF Left
    <2> QED  BY <1>2, <2>1 DEF Stands
  <1>3. CASE j.steps = <<"save2">>
    BY <1>3 DEF Last
  <1> QED  BY <1>1, <1>2, <1>3

LEMMA WhereFinishing ==
  ASSUME NEW j, j.steps \in Left(j.op), j.op \in {"complete", "continue"}
  PROVE  \/ Stands(j, "manifest", "save2") \/ Stands(j, "save2", "recent")
         \/ Stands(j, "recent", "save3") \/ Stands(j, "save3", "save4")
         \/ Stands(j, "save4", "remove") \/ Last(j, "remove")
  <1>1. \/ j.steps = <<"manifest", "save2", "recent", "save3", "save4", "remove">>
       \/ j.steps = <<"save2", "recent", "save3", "save4", "remove">>
       \/ j.steps = <<"recent", "save3", "save4", "remove">>
       \/ j.steps = <<"save3", "save4", "remove">>
       \/ j.steps = <<"save4", "remove">>
       \/ j.steps = <<"remove">>
    BY DEF Left
  <1>2. CASE j.steps = <<"manifest", "save2", "recent", "save3", "save4", "remove">>
    <2>1. <<"save2", "recent", "save3", "save4", "remove">> \in Left(j.op)
      BY DEF Left
    <2> QED  BY <1>2, <2>1 DEF Stands
  <1>3. CASE j.steps = <<"save2", "recent", "save3", "save4", "remove">>
    <2>1. <<"recent", "save3", "save4", "remove">> \in Left(j.op)
      BY DEF Left
    <2> QED  BY <1>3, <2>1 DEF Stands
  <1>4. CASE j.steps = <<"recent", "save3", "save4", "remove">>
    <2>1. <<"save3", "save4", "remove">> \in Left(j.op)
      BY DEF Left
    <2> QED  BY <1>4, <2>1 DEF Stands
  <1>5. CASE j.steps = <<"save3", "save4", "remove">>
    <2>1. <<"save4", "remove">> \in Left(j.op)
      BY DEF Left
    <2> QED  BY <1>5, <2>1 DEF Stands
  <1>6. CASE j.steps = <<"save4", "remove">>
    <2>1. <<"remove">> \in Left(j.op)
      BY DEF Left
    <2> QED  BY <1>6, <2>1 DEF Stands
  <1>7. CASE j.steps = <<"remove">>
    BY <1>7 DEF Last
  <1> QED  BY <1>1, <1>2, <1>3, <1>4, <1>5, <1>6, <1>7

LEMMA WhereAbandoning ==
  ASSUME NEW j, j.steps \in Left(j.op), j.op = "abandon"
  PROVE  \/ Stands(j, "inspect", "forget") \/ Stands(j, "forget", "unrecent")
         \/ Stands(j, "unrecent", "unregister") \/ Stands(j, "unregister", "delete")
         \/ Stands(j, "delete", "remove") \/ Last(j, "remove")
  <1>1. \/ j.steps = <<"inspect", "forget", "unrecent", "unregister", "delete", "remove">>
       \/ j.steps = <<"forget", "unrecent", "unregister", "delete", "remove">>
       \/ j.steps = <<"unrecent", "unregister", "delete", "remove">>
       \/ j.steps = <<"unregister", "delete", "remove">>
       \/ j.steps = <<"delete", "remove">>
       \/ j.steps = <<"remove">>
    BY DEF Left
  <1>2. CASE j.steps = <<"inspect", "forget", "unrecent", "unregister", "delete", "remove">>
    <2>1. <<"forget", "unrecent", "unregister", "delete", "remove">> \in Left(j.op)
      BY DEF Left
    <2> QED  BY <1>2, <2>1 DEF Stands
  <1>3. CASE j.steps = <<"forget", "unrecent", "unregister", "delete", "remove">>
    <2>1. <<"unrecent", "unregister", "delete", "remove">> \in Left(j.op)
      BY DEF Left
    <2> QED  BY <1>3, <2>1 DEF Stands
  <1>4. CASE j.steps = <<"unrecent", "unregister", "delete", "remove">>
    <2>1. <<"unregister", "delete", "remove">> \in Left(j.op)
      BY DEF Left
    <2> QED  BY <1>4, <2>1 DEF Stands
  <1>5. CASE j.steps = <<"unregister", "delete", "remove">>
    <2>1. <<"delete", "remove">> \in Left(j.op)
      BY DEF Left
    <2> QED  BY <1>5, <2>1 DEF Stands
  <1>6. CASE j.steps = <<"delete", "remove">>
    <2>1. <<"remove">> \in Left(j.op)
      BY DEF Left
    <2> QED  BY <1>6, <2>1 DEF Stands
  <1>7. CASE j.steps = <<"remove">>
    BY <1>7 DEF Last
  <1> QED  BY <1>1, <1>2, <1>3, <1>4, <1>5, <1>6, <1>7

Registering == {"register", "complete", "continue"}

(* The action a step belongs to, and the step that follows.                 *)
LEMMA AtStep ==
  ASSUME NEW j \in Job, j.steps \in Left(j.op)
  PROVE  /\ j.steps # <<>>
         /\ At(j, "capture") => j.op = "begin" /\ Stands(j, "capture", "journal")
         /\ At(j, "journal") => j.op = "begin" /\ Tail(j.steps) = <<>>
         /\ At(j, "created") => j.op = "mark" /\ Tail(j.steps) = <<>>
         /\ At(j, "unfinish") => j.op = "unfinish" /\ Tail(j.steps) = <<>>
         /\ At(j, "manifest") => j.op \in Registering /\ Stands(j, "manifest", "save2")
         /\ At(j, "save2") => /\ j.op \in Registering
                              /\ Tail(j.steps) = <<>> \/ Stands(j, "save2", "recent")
         /\ At(j, "recent") => j.op \in Registering /\ Stands(j, "recent", "save3")
         /\ At(j, "save3") => j.op \in Registering /\ Stands(j, "save3", "save4")
         /\ At(j, "save4") => j.op \in Registering /\ Stands(j, "save4", "remove")
         /\ At(j, "inspect") => j.op = "abandon" /\ Stands(j, "inspect", "forget")
         /\ At(j, "forget") => j.op = "abandon" /\ Stands(j, "forget", "unrecent")
         /\ At(j, "unrecent") => j.op = "abandon" /\ Stands(j, "unrecent", "unregister")
         /\ At(j, "unregister") => j.op = "abandon" /\ Stands(j, "unregister", "delete")
         /\ At(j, "delete") => j.op = "abandon" /\ Stands(j, "delete", "remove")
         /\ At(j, "remove") => /\ j.op \in {"complete", "continue", "abandon"}
                               /\ Tail(j.steps) = <<>>
  <1>1. j.op \in Operations
    BY DEF Job
  <1>2. CASE j.op = "begin"
    BY <1>2, WhereBeginning DEF At, Stands, Last
  <1>3. CASE j.op = "mark"
    BY <1>3, WhereMarking DEF At, Last
  <1>4. CASE j.op = "unfinish"
    BY <1>4, WhereUnfinishing DEF At, Last
  <1>5. CASE j.op = "register"
    BY <1>5, WhereRegistering DEF At, Stands, Last, Registering
  <1>6. CASE j.op \in {"complete", "continue"}
    BY <1>6, WhereFinishing DEF At, Stands, Last, Registering
  <1>7. CASE j.op = "abandon"
    BY <1>7, WhereAbandoning DEF At, Stands, Last
  <1> QED  BY <1>1, <1>2, <1>3, <1>4, <1>5, <1>6, <1>7 DEF Operations

LEMMA Running ==
  ASSUME IInv, NEW c \in Creations, NEW j \in job[c]
  PROVE  /\ j \in Job /\ job[c] = {j} /\ app = "up" /\ JobOK(c, j) /\ c \notin invalid
         /\ j.steps \in Left(j.op)
         /\ j.op # "begin" => /\ file[c] # None /\ file[c] = rec[c] /\ file[c] \in Record
                              /\ Newer(c, file[c]) /\ Evident(file[c])
                              /\ Matches(j.record, file[c])
         /\ j.op = "begin" => file[c] = None /\ rec[c] = None
  BY DEF IInv, TypeOK, InvOf, JobsOK, JobOK, BeginOK, Durable, EntriesOK, Records

Follows(j2) == [j2 EXCEPT !.steps = Tail(@)]

(* What an action does next.                                                *)
LEMMA ProceedsTo ==
  ASSUME IInv, NEW c \in Creations, NEW j \in job[c], NEW j2 \in Job,
         Proceeds(c, j, j2), j2.steps = j.steps
  PROVE  /\ job' = [job EXCEPT ![c] = IF Tail(j.steps) = <<>> THEN {} ELSE {Follows(j2)}]
         /\ Follows(j2) \in Job
  <1>1. job[c] = {j} /\ j.steps # <<>>
    BY Running, AtStep
  <1>2. Tail(j2.steps) \in Seq(StepNames)
    BY <1>1 DEF Job
  <1> QED  BY <1>1, <1>2 DEF Proceeds, Follows, IInv, TypeOK, Job

LEMMA ThrowsTo ==
  ASSUME IInv, NEW c \in Creations, NEW j \in job[c], Throws(c, j)
  PROVE  job' = [job EXCEPT ![c] = {}]
  BY Running DEF Throws, IInv, TypeOK

LEMMA NoJobs ==
  ASSUME NEW c \in Creations, job'[c] = {}
  PROVE  JobsOK(c)'
  BY DEF JobsOK

LEMMA OneJob ==
  ASSUME NEW c \in Creations, NEW j, job'[c] = {j}, JobOK(c, j)', app' = "up"
  PROVE  JobsOK(c)'
  BY DEF JobsOK

-----------------------------------------------------------------------------
(* The steps of begin *)

LEMMA UnownedType ==
  ASSUME NEW e \in Entry
  PROVE  Unowned(e) \in Ownership /\ Unowned(e).before = e.v
  BY DEF Entry, Unowned, Ownership

LEMMA InspectedBlinds ==
  ASSUME IInv, NEW c \in Creations, NEW sees, Inspected(c, sees)
  PROVE  /\ faults' \in 0..MaxFaults /\ blind' \in [Creations -> BOOLEAN]
         /\ \A d \in Creations \ {c} : blind'[d] = blind[d]
         /\ blind[c] => blind'[c]
         /\ sees = manifest[c] \/ (sees = NoEntry /\ blind'[c])
  <1>1. /\ faults \in 0..MaxFaults /\ blind \in [Creations -> BOOLEAN]
        /\ MaxFaults \in Nat
    BY CreationAssumption DEF IInv, TypeOK
  <1>2. CASE sees = manifest[c] /\ UNCHANGED <<faults, blind>>
    BY <1>1, <1>2
  <1>3. CASE /\ sees = NoEntry /\ faults < MaxFaults
             /\ faults' = faults + 1 /\ blind' = [blind EXCEPT ![c] = TRUE]
    BY <1>1, <1>3
  <1> QED  BY <1>2, <1>3 DEF Inspected

LEMMA CaptureStep ==
  ASSUME IInv, NEW c \in Creations, NEW j \in job[c], Capture(c, j)
  PROVE  IInv'
  <1>1. PICK sees \in {NoEntry, manifest[c]} :
          /\ Inspected(c, sees)
          /\ Proceeds(c, j, [j EXCEPT !.record = [NoRecord EXCEPT !.active = TRUE,
                         !.manifest = Unowned(sees), !.recent = Unowned(recent[c])]])
    BY DEF Capture
  <1> DEFINE captured == [NoRecord EXCEPT !.active = TRUE,
                            !.manifest = Unowned(sees), !.recent = Unowned(recent[c])]
  <1>2. /\ j \in Job /\ job[c] = {j} /\ app = "up" /\ j.op = "begin"
        /\ Stands(j, "capture", "journal") /\ file[c] = None /\ rec[c] = None
        /\ c \notin invalid
    BY Running, AtStep DEF Capture
  <1>3. sees \in Entry /\ recent[c] \in Entry /\ sees.v \in Nat
    BY DEF IInv, TypeOK, NoEntry, Entry
  <1>4. /\ captured \in Record /\ captured.stage = 0
        /\ captured.manifest.before = sees.v /\ captured.recent.before = recent[c].v
    <2>1. /\ Unowned(sees) \in Ownership /\ Unowned(recent[c]) \in Ownership
          /\ Unowned(sees).before = sees.v /\ Unowned(recent[c]).before = recent[c].v
      BY <1>3, UnownedType
    <2>2. NoRecord \in Record /\ NoRecord.stage = 0
      BY UnownedType DEF NoRecord, Record, NoEntry, Entry
    <2> QED  BY <2>1, <2>2 DEF Record
  <1>5. PICK r \in Record : r = captured
    BY <1>4
  <1> DEFINE j2 == [j EXCEPT !.record = r]
  <1>6. j2 \in Job /\ j2.steps = j.steps /\ j2.op = "begin" /\ j2.record = r
    BY <1>2, <1>4 DEF Job
  <1>7. Proceeds(c, j, j2)
    BY <1>1, <1>5
  <1>8. r.stage = 0 /\ r.manifest.before = sees.v /\ r.recent.before = recent[c].v
    BY <1>4, <1>5
  <1> HIDE DEF j2
  <1>9. job' = [job EXCEPT ![c] = {Follows(j2)}] /\ Follows(j2) \in Job
    BY <1>7, <1>2, <1>6, ProceedsTo DEF Stands
  <1>10. /\ born' = [born EXCEPT ![c] = clock]
         /\ UNCHANGED <<file, rec, app, loaded, invalid, dir, edits, manifest, recent, clock, ended>>
    BY DEF Capture, surroundings, registrations
  <1>11. /\ faults' \in 0..MaxFaults /\ blind' \in [Creations -> BOOLEAN]
         /\ \A d \in Creations \ {c} : blind'[d] = blind[d]
         /\ sees = manifest[c] \/ blind'[c]
    BY <1>1, InspectedBlinds
  <1>12. TypeOK'
    <2>1. job' \in [Creations -> SUBSET Job]
      BY <1>9 DEF IInv, TypeOK
    <2> QED  BY <1>10, <1>11, <2>1 DEF IInv, TypeOK
  <1>13. InvOf(c)'
    <2>1. Newer(c, r)'
      <3>1. r.recent.before = 0 => recent'[c].v = 0
        BY <1>8, <1>10
      <3>2. r.manifest.before = 0 /\ ~blind'[c] => manifest'[c].v = 0
        BY <1>8, <1>10, <1>11
      <3> QED  BY <3>1, <3>2 DEF Newer, Younger
    <2>2. /\ Follows(j2).op = "begin" /\ Follows(j2).steps = Tail(j.steps)
          /\ Follows(j2).record = r
      BY <1>6, <1>9 DEF Follows, Job
    <2>3. JobOK(c, Follows(j2))'
      <3>1. Tail(j.steps) \in Left("begin") /\ rec'[c] = None /\ c \notin invalid'
        BY <1>2, <1>10 DEF Stands
      <3> QED  BY <1>8, <2>1, <2>2, <3>1 DEF JobOK, BeginOK, Newer, Younger
    <2>4. JobsOK(c)'
      <3>1. job'[c] = {Follows(j2)} /\ app' = "up"
        BY <1>2, <1>9, <1>10 DEF IInv, TypeOK
      <3> QED  BY <2>3, <3>1, OneJob
    <2>5. Durable(c)'
      BY <1>2, <1>10 DEF Durable
    <2>6. EntriesOK(c)'
      BY <1>2, <1>10 DEF IInv, TypeOK, InvOf, EntriesOK, WellFormed
    <2> QED  BY <2>4, <2>5, <2>6 DEF InvOf
  <1>14. ASSUME NEW d \in Creations \ {c} PROVE InvOf(d)'
    BY <1>9, <1>10, <1>11, Frame DEF IInv, TypeOK, Own
  <1> QED  BY <1>12, <1>13, <1>14 DEF IInv

-----------------------------------------------------------------------------
(* Writes *)

(* A write of a record that is as good as the one it replaces.              *)
LEMMA SaveStep ==
  ASSUME IInv, NEW c \in Creations, NEW j \in job[c], NEW j2 \in Job, NEW r \in Record,
         Writes(c, r), Proceeds(c, j, j2), j2.steps = j.steps,
         Newer(c, r), Evident(r), Tail(j.steps) # <<>> => JobOK(c, Follows(j2))',
         UNCHANGED <<surroundings, registrations, faults, history>>
  PROVE  IInv'
  <1>1. /\ job' = [job EXCEPT ![c] = IF Tail(j.steps) = <<>> THEN {} ELSE {Follows(j2)}]
        /\ Follows(j2) \in Job
    BY ProceedsTo
  <1>2. app = "up" /\ r # None /\ c \notin invalid
    BY Running, NoneAssumption
  <1>3. TypeOK'
    BY <1>1 DEF IInv, TypeOK, Writes, Records, surroundings, registrations, history, Evident
  <1>4. InvOf(c)'
    <2>1. JobsOK(c)'
      <3>1. job'[c] = IF Tail(j.steps) = <<>> THEN {} ELSE {Follows(j2)}
        BY <1>1 DEF IInv, TypeOK
      <3>2. app' = "up"
        BY <1>2 DEF surroundings
      <3> QED  BY <3>1, <3>2, OneJob, NoJobs
    <2>2. Durable(c)'
      <3>1. file'[c] = r /\ rec'[c] = r
        BY DEF IInv, TypeOK, Writes
      <3> QED  BY <1>2, <3>1 DEF Durable, surroundings
    <2>3. EntriesOK(c)'
      BY DEF IInv, TypeOK, InvOf, EntriesOK, Writes, surroundings, registrations, history,
         Newer, Younger, Evident, WellFormed
    <2> QED  BY <2>1, <2>2, <2>3 DEF InvOf
  <1>5. ASSUME NEW d \in Creations \ {c} PROVE InvOf(d)'
    BY <1>1, Frame DEF IInv, TypeOK, Writes, surroundings, registrations, history, Own
  <1> QED  BY <1>3, <1>4, <1>5 DEF IInv

LEMMA AtLeastKeeps ==
  ASSUME NEW r \in Record, NEW n \in 1..4
  PROVE  /\ AtLeast(r, n) \in Record
         /\ AtLeast(r, n).stage = IF r.stage < n THEN n ELSE r.stage
         /\ AtLeast(r, n).active = r.active /\ AtLeast(r, n).known = r.known
         /\ AtLeast(r, n).manifest = r.manifest /\ AtLeast(r, n).recent = r.recent
  BY DEF AtLeast, Record

LEMMA JournalStep ==
  ASSUME IInv, NEW c \in Creations, NEW j \in job[c], Journal(c, j)
  PROVE  IInv'
  <1>1. /\ j \in Job /\ j.op = "begin" /\ Tail(j.steps) = <<>>
        /\ Newer(c, j.record) /\ j.record.stage = 0
    BY Running, AtStep DEF Journal, Save, JobOK, BeginOK
  <1>2. j.record \in Record /\ Evident(j.record)
    BY <1>1 DEF Job, Evident
  <1> QED  BY <1>1, <1>2, SaveStep DEF Journal, Save

LEMMA CreatedStep ==
  ASSUME IInv, NEW c \in Creations, NEW j \in job[c], Created(c, j)
  PROVE  IInv'
  <1> DEFINE r == AtLeast([j.record EXCEPT !.known = TRUE], 1)
  <1>1. /\ j \in Job /\ j.op = "mark" /\ Tail(j.steps) = <<>> /\ Evident(j.record)
        /\ Newer(c, file[c]) /\ Matches(j.record, file[c])
    BY Running, AtStep DEF Created, Save, JobOK
  <1>2. r \in Record /\ Evident(r) /\ Newer(c, r)
    <2> DEFINE k == [j.record EXCEPT !.known = TRUE]
    <2>1. /\ k \in Record /\ Evident(k) /\ k.manifest = j.record.manifest
          /\ k.recent = j.record.recent
      BY <1>1 DEF Job, Record, Evident
    <2> HIDE DEF k
    <2>2. /\ AtLeast(k, 1) \in Record /\ Evident(AtLeast(k, 1))
          /\ AtLeast(k, 1).manifest = k.manifest /\ AtLeast(k, 1).recent = k.recent
      <3>1. /\ AtLeast(k, 1) \in Record
            /\ AtLeast(k, 1).stage = IF k.stage < 1 THEN 1 ELSE k.stage
            /\ AtLeast(k, 1).manifest = k.manifest /\ AtLeast(k, 1).recent = k.recent
        BY <2>1, AtLeastKeeps
      <3> QED  BY <2>1, <3>1 DEF Evident
    <2>3. r = AtLeast(k, 1)
      BY DEF k
    <2> HIDE DEF r
    <2> QED  BY <1>1, <2>1, <2>2, <2>3 DEF Newer, Matches
  <1> QED  BY <1>1, <1>2, SaveStep DEF Created, Save

LEMMA UnfinishedStep ==
  ASSUME IInv, NEW c \in Creations, NEW j \in job[c], Unfinished(c, j)
  PROVE  IInv'
  <1> DEFINE r == [j.record EXCEPT !.active = FALSE]
  <1>1. /\ j \in Job /\ j.op = "unfinish" /\ Tail(j.steps) = <<>> /\ Evident(j.record)
        /\ Newer(c, file[c]) /\ Matches(j.record, file[c])
    BY Running, AtStep DEF Unfinished, Save, JobOK
  <1>2. r \in Record /\ Evident(r) /\ Newer(c, r)
    BY <1>1 DEF Job, Record, Evident, Newer, Matches
  <1> QED  BY <1>1, <1>2, SaveStep DEF Unfinished, Save

-----------------------------------------------------------------------------
(* The steps of register, complete and continue *)

(* A step that advances an action without a write.                          *)
LEMMA ForwardStep ==
  ASSUME IInv, NEW c \in Creations, NEW j \in job[c], NEW j2 \in Job,
         Proceeds(c, j, j2), j2.steps = j.steps,
         Tail(j.steps) # <<>> => JobOK(c, Follows(j2))',
         UNCHANGED <<file, rec, surroundings, registrations, faults, history>>
  PROVE  IInv'
  <1>1. /\ job' = [job EXCEPT ![c] = IF Tail(j.steps) = <<>> THEN {} ELSE {Follows(j2)}]
        /\ Follows(j2) \in Job
    BY ProceedsTo
  <1>2. app = "up"
    BY Running
  <1>3. TypeOK'
    BY <1>1 DEF IInv, TypeOK, surroundings, registrations, history
  <1>4. InvOf(c)'
    <2>1. JobsOK(c)'
      <3>1. job'[c] = IF Tail(j.steps) = <<>> THEN {} ELSE {Follows(j2)}
        BY <1>1 DEF IInv, TypeOK
      <3>2. app' = "up"
        BY <1>2 DEF surroundings
      <3> QED  BY <3>1, <3>2, OneJob, NoJobs
    <2>2. Durable(c)'
      BY DEF IInv, InvOf, Durable, surroundings
    <2>3. EntriesOK(c)'
      BY DEF IInv, InvOf, EntriesOK, surroundings, registrations, history,
         Newer, Younger, Evident, WellFormed
    <2> QED  BY <2>1, <2>2, <2>3 DEF InvOf
  <1>5. ASSUME NEW d \in Creations \ {c} PROVE InvOf(d)'
    BY <1>1, Frame DEF IInv, TypeOK, surroundings, registrations, history, Own
  <1> QED  BY <1>3, <1>4, <1>5 DEF IInv

(* The record of such an action.                                            *)
LEMMA SavingFacts ==
  ASSUME IInv, NEW c \in Creations, NEW j \in job[c], j.op \in Registering
  PROVE  /\ j \in Job /\ j.record \in Record /\ SavingOK(j) /\ file[c] = rec[c]
         /\ rec[c] # None /\ Matches(j.record, rec[c]) /\ Newer(c, file[c])
         /\ j.op \notin {"begin", "mark", "unfinish", "abandon"}
  BY Running DEF Registering, JobOK, Job

LEMMA AdvanceStep ==
  ASSUME IInv, NEW c \in Creations, NEW j \in job[c], Advance(c, j)
  PROVE  IInv'
  <1>1. PICK n \in 2..4 :
          /\ At(j, CASE n = 2 -> "save2" [] n = 3 -> "save3" [] n = 4 -> "save4")
          /\ IF j.record.stage < n THEN Writes(c, AtLeast(j.record, n))
             ELSE UNCHANGED <<file, rec>>
          /\ Proceeds(c, j, [j EXCEPT !.record = AtLeast(@, n)])
          /\ UNCHANGED <<surroundings, registrations, faults, history>>
    BY DEF Advance
  <1>2. /\ n = 2 => At(j, "save2")
        /\ n = 3 => At(j, "save3")
        /\ n = 4 => At(j, "save4")
    BY <1>1
  <1>3. /\ j.op \in Registering
        /\ Tail(j.steps) = <<>> \/ Stands(j, "save2", "recent")
           \/ Stands(j, "save3", "save4") \/ Stands(j, "save4", "remove")
    BY <1>1, <1>2, Running, AtStep
  <1>4. /\ j \in Job /\ j.record \in Record /\ SavingOK(j) /\ file[c] = rec[c]
        /\ rec[c] # None /\ Matches(j.record, rec[c]) /\ Newer(c, file[c])
        /\ j.op \notin {"begin", "mark", "unfinish", "abandon"}
    BY <1>3, SavingFacts
  <1>5. PICK r \in Record : /\ r = AtLeast(j.record, n)
                            /\ r.stage = IF j.record.stage < n THEN n ELSE j.record.stage
                            /\ r.active = j.record.active
                            /\ r.manifest = j.record.manifest /\ r.recent = j.record.recent
    BY <1>4, AtLeastKeeps
  <1>6. Evident(r) /\ Newer(c, r)
    <2>1. j.record.manifest.registered # 0
      BY <1>2, <1>4 DEF SavingOK, At
    <2>2. n \in {3, 4} => j.record.recent.registered # 0
      BY <1>2, <1>4 DEF SavingOK
    <2>3. Evident(j.record)
      BY <1>4 DEF SavingOK
    <2>4. Evident(r)
      BY <1>5, <2>1, <2>2, <2>3 DEF Evident
    <2> QED  BY <1>4, <1>5, <2>4 DEF Newer, Matches
  <1>7. PICK k \in Job : k = [j EXCEPT !.record = r]
    BY <1>4 DEF Job
  <1>8. k.steps = j.steps /\ k.op = j.op /\ k.record = r
    BY <1>4, <1>7 DEF Job
  <1>9. Proceeds(c, j, k)
    BY <1>1, <1>5, <1>7
  <1>10. /\ rec'[c] # None /\ Matches(r, rec'[c])
    <2>1. CASE j.record.stage < n
      <3>1. rec'[c] = r
        BY <1>1, <1>5, <2>1 DEF Writes, IInv, TypeOK
      <3> QED  BY <3>1, NoneAssumption DEF Matches
    <2>2. CASE ~(j.record.stage < n)
      BY <1>1, <1>4, <1>5, <2>2 DEF Matches
    <2> QED  BY <2>1, <2>2
  <1>11. ASSUME Tail(j.steps) # <<>> PROVE JobOK(c, Follows(k))'
    <2>1. /\ Follows(k).op = j.op /\ Follows(k).steps = Tail(j.steps)
          /\ Follows(k).record = r
      BY <1>8 DEF Follows, Job
    <2>2. Tail(j.steps) \in Left(j.op)
      BY <1>3, <1>11 DEF Stands
    <2>3. SavingOK(Follows(k))
      <3>1. r.manifest.registered # 0
        BY <1>2, <1>4, <1>5 DEF SavingOK, At
      <3>2. At(Follows(k), "save4") \/ At(Follows(k), "save3") => n = 3
        BY <1>2, <1>3, <1>11, <2>1 DEF At, Stands
      <3>3. n = 3 => r.recent.registered # 0
        BY <1>2, <1>4, <1>5 DEF SavingOK
      <3> QED  BY <1>6, <2>1, <3>1, <3>2, <3>3 DEF SavingOK
    <2> QED  BY <1>4, <1>10, <2>1, <2>2, <2>3 DEF JobOK
  <1>12. CASE j.record.stage < n
    BY <1>1, <1>5, <1>6, <1>8, <1>9, <1>11, <1>12, SaveStep
  <1>13. CASE ~(j.record.stage < n)
    BY <1>1, <1>8, <1>9, <1>11, <1>13, ForwardStep
  <1> QED  BY <1>12, <1>13

LEMMA ConfirmManifestStep ==
  ASSUME IInv, NEW c \in Creations, NEW j \in job[c], ConfirmManifest(c, j)
  PROVE  IInv'
  <1>1. PICK e : e = Confirmed(manifest[c], j, "manifest")
    OBVIOUS
  <1>2. /\ At(j, "manifest") /\ e.v # 0
        /\ manifest' = [manifest EXCEPT ![c] = e]
        /\ clock' = IF e = manifest[c] THEN clock ELSE clock + 1
        /\ Proceeds(c, j, [j EXCEPT !.record.manifest = Owns(@, e)])
        /\ UNCHANGED <<file, rec, app, loaded, invalid, dir, edits, recent, faults, ended, born, blind>>
    BY <1>1 DEF ConfirmManifest, surroundings, history
  <1>3. j.op \in Registering /\ Stands(j, "manifest", "save2") /\ app = "up"
    BY <1>2, Running, AtStep
  <1>4. /\ j \in Job /\ j.record \in Record /\ SavingOK(j) /\ file[c] = rec[c]
        /\ rec[c] # None /\ Matches(j.record, rec[c]) /\ Newer(c, file[c])
        /\ j.op \notin {"begin", "mark", "unfinish", "abandon"}
    BY <1>3, SavingFacts
  <1>5. e = manifest[c] \/ e = [v |-> clock + 1, by |-> "journal"]
    BY <1>1 DEF Confirmed
  <1>6. e \in Entry /\ (e = manifest[c] \/ e.v > born[c]) /\ WellFormed(e) /\ e.v \in Nat
    BY <1>2, <1>5 DEF IInv, TypeOK, InvOf, EntriesOK, Entry, WellFormed
  <1>7. PICK r \in Record : /\ r = [j.record EXCEPT !.manifest = Owns(@, e)]
                            /\ r.stage = j.record.stage /\ r.active = j.record.active
                            /\ r.manifest.registered # 0 /\ r.recent = j.record.recent
                            /\ r.manifest.before = j.record.manifest.before
    <2>1. PICK own \in Ownership : /\ own = Owns(j.record.manifest, e)
                                   /\ own.before = j.record.manifest.before
                                   /\ own.registered # 0
      <3>1. j.record.manifest \in Ownership
        BY <1>4 DEF Record
      <3>2. /\ Owns(j.record.manifest, e) \in Ownership
            /\ Owns(j.record.manifest, e).before = j.record.manifest.before
            /\ Owns(j.record.manifest, e).registered = e.v
        BY <1>6, <3>1 DEF Owns, Ownership
      <3> QED  BY <1>2, <3>2
    <2>2. /\ [j.record EXCEPT !.manifest = own] \in Record
          /\ [j.record EXCEPT !.manifest = own].manifest = own
          /\ [j.record EXCEPT !.manifest = own].stage = j.record.stage
          /\ [j.record EXCEPT !.manifest = own].active = j.record.active
          /\ [j.record EXCEPT !.manifest = own].recent = j.record.recent
      BY <1>4 DEF Record
    <2> QED  BY <2>1, <2>2
  <1>8. PICK k \in Job : k = [j EXCEPT !.record = r]
    BY <1>4 DEF Job
  <1>9. k.steps = j.steps /\ k.op = j.op /\ k.record = r
    BY <1>4, <1>8 DEF Job
  <1>10. Proceeds(c, j, k)
    BY <1>2, <1>4, <1>7, <1>8 DEF Job
  <1>11. job' = [job EXCEPT ![c] = {Follows(k)}] /\ Follows(k) \in Job
    BY <1>3, <1>9, <1>10, ProceedsTo DEF Stands
  <1>12. clock' \in Nat /\ clock <= clock'
    BY <1>2 DEF IInv, TypeOK
  <1>13. TypeOK'
    <2>1. job' \in [Creations -> SUBSET Job] /\ manifest' \in [Creations -> Entry]
      BY <1>2, <1>6, <1>11 DEF IInv, TypeOK
    <2> QED  BY <1>2, <1>12, <2>1 DEF IInv, TypeOK
  <1>14. InvOf(c)'
    <2>1. JobOK(c, Follows(k))'
      <3>1. /\ Follows(k).op = j.op /\ Follows(k).steps = Tail(j.steps)
            /\ Follows(k).record = r
        BY <1>9 DEF Follows, Job
      <3>2. Tail(j.steps) \in Left(j.op) /\ Head(Tail(j.steps)) = "save2"
        BY <1>3 DEF Stands
      <3>3. Evident(r)
        BY <1>4, <1>7 DEF Evident, SavingOK
      <3>4. SavingOK(Follows(k))
        BY <1>2, <1>4, <1>7, <3>1, <3>2, <3>3 DEF SavingOK, At
      <3>5. Matches(r, rec[c])
        BY <1>4, <1>7 DEF Matches
      <3> QED  BY <1>2, <1>4, <3>1, <3>2, <3>4, <3>5 DEF JobOK, Matches
    <2>2. JobsOK(c)'
      <3>1. job'[c] = {Follows(k)} /\ app' = "up"
        BY <1>2, <1>3, <1>11 DEF IInv, TypeOK
      <3> QED  BY <2>1, <3>1, OneJob
    <2>3. Durable(c)'
      BY <1>2 DEF IInv, InvOf, Durable
    <2>4. EntriesOK(c)'
      <3>1. manifest'[c] = e /\ born[c] <= clock /\ born[c] \in Nat /\ clock \in Nat
        BY <1>2 DEF IInv, TypeOK, InvOf, EntriesOK
      <3> QED  BY <1>2, <1>6, <1>12, <3>1 DEF IInv, InvOf, EntriesOK, Newer, Younger,
         Evident, WellFormed
    <2> QED  BY <2>2, <2>3, <2>4 DEF InvOf
  <1>15. ASSUME NEW d \in Creations \ {c} PROVE InvOf(d)'
    BY <1>2, <1>11, <1>12, Frame DEF IInv, TypeOK, Own
  <1> QED  BY <1>13, <1>14, <1>15 DEF IInv

LEMMA ConfirmRecentStep ==
  ASSUME IInv, NEW c \in Creations, NEW j \in job[c], ConfirmRecent(c, j)
  PROVE  IInv'
  <1>1. PICK e : e = Confirmed(recent[c], j, "recent")
    OBVIOUS
  <1>2. /\ At(j, "recent") /\ e.v # 0
        /\ recent' = [recent EXCEPT ![c] = e]
        /\ clock' = IF e = recent[c] THEN clock ELSE clock + 1
        /\ Proceeds(c, j, [j EXCEPT !.record.recent = Owns(@, e)])
        /\ UNCHANGED <<file, rec, app, loaded, invalid, dir, edits, manifest, faults, ended, born, blind>>
    BY <1>1 DEF ConfirmRecent, surroundings, history
  <1>3. j.op \in Registering /\ Stands(j, "recent", "save3") /\ app = "up"
    BY <1>2, Running, AtStep
  <1>4. /\ j \in Job /\ j.record \in Record /\ SavingOK(j) /\ file[c] = rec[c]
        /\ rec[c] # None /\ Matches(j.record, rec[c]) /\ Newer(c, file[c])
        /\ j.op \notin {"begin", "mark", "unfinish", "abandon"}
    BY <1>3, SavingFacts
  <1>5. e = recent[c] \/ e = [v |-> clock + 1, by |-> "journal"]
    BY <1>1 DEF Confirmed
  <1>6. e \in Entry /\ (e = recent[c] \/ e.v > born[c]) /\ WellFormed(e) /\ e.v \in Nat
    BY <1>2, <1>5 DEF IInv, TypeOK, InvOf, EntriesOK, Entry, WellFormed
  <1>7. PICK r \in Record : /\ r = [j.record EXCEPT !.recent = Owns(@, e)]
                            /\ r.stage = j.record.stage /\ r.active = j.record.active
                            /\ r.recent.registered # 0 /\ r.manifest = j.record.manifest
                            /\ r.recent.before = j.record.recent.before
    <2>1. PICK own \in Ownership : /\ own = Owns(j.record.recent, e)
                                   /\ own.before = j.record.recent.before
                                   /\ own.registered # 0
      <3>1. j.record.recent \in Ownership
        BY <1>4 DEF Record
      <3>2. /\ Owns(j.record.recent, e) \in Ownership
            /\ Owns(j.record.recent, e).before = j.record.recent.before
            /\ Owns(j.record.recent, e).registered = e.v
        BY <1>6, <3>1 DEF Owns, Ownership
      <3> QED  BY <1>2, <3>2
    <2>2. /\ [j.record EXCEPT !.recent = own] \in Record
          /\ [j.record EXCEPT !.recent = own].recent = own
          /\ [j.record EXCEPT !.recent = own].stage = j.record.stage
          /\ [j.record EXCEPT !.recent = own].active = j.record.active
          /\ [j.record EXCEPT !.recent = own].manifest = j.record.manifest
      BY <1>4 DEF Record
    <2> QED  BY <2>1, <2>2
  <1>8. PICK k \in Job : k = [j EXCEPT !.record = r]
    BY <1>4 DEF Job
  <1>9. k.steps = j.steps /\ k.op = j.op /\ k.record = r
    BY <1>4, <1>8 DEF Job
  <1>10. Proceeds(c, j, k)
    BY <1>2, <1>4, <1>7, <1>8 DEF Job
  <1>11. job' = [job EXCEPT ![c] = {Follows(k)}] /\ Follows(k) \in Job
    BY <1>3, <1>9, <1>10, ProceedsTo DEF Stands
  <1>12. clock' \in Nat /\ clock <= clock'
    BY <1>2 DEF IInv, TypeOK
  <1>13. TypeOK'
    <2>1. job' \in [Creations -> SUBSET Job] /\ recent' \in [Creations -> Entry]
      BY <1>2, <1>6, <1>11 DEF IInv, TypeOK
    <2> QED  BY <1>2, <1>12, <2>1 DEF IInv, TypeOK
  <1>14. InvOf(c)'
    <2>1. JobOK(c, Follows(k))'
      <3>1. /\ Follows(k).op = j.op /\ Follows(k).steps = Tail(j.steps)
            /\ Follows(k).record = r
        BY <1>9 DEF Follows, Job
      <3>2. Tail(j.steps) \in Left(j.op) /\ Head(Tail(j.steps)) = "save3"
        BY <1>3 DEF Stands
      <3>3. Evident(r)
        BY <1>4, <1>7 DEF Evident, SavingOK
      <3>4. SavingOK(Follows(k))
        BY <1>2, <1>4, <1>7, <3>1, <3>2, <3>3 DEF SavingOK, At
      <3>5. Matches(r, rec[c])
        BY <1>4, <1>7 DEF Matches
      <3> QED  BY <1>2, <1>4, <3>1, <3>2, <3>4, <3>5 DEF JobOK, Matches
    <2>2. JobsOK(c)'
      <3>1. job'[c] = {Follows(k)} /\ app' = "up"
        BY <1>2, <1>3, <1>11 DEF IInv, TypeOK
      <3> QED  BY <2>1, <3>1, OneJob
    <2>3. Durable(c)'
      BY <1>2 DEF IInv, InvOf, Durable
    <2>4. EntriesOK(c)'
      <3>1. recent'[c] = e /\ born[c] <= clock /\ born[c] \in Nat /\ clock \in Nat
        BY <1>2 DEF IInv, TypeOK, InvOf, EntriesOK
      <3> QED  BY <1>2, <1>6, <1>12, <3>1 DEF IInv, InvOf, EntriesOK, Newer, Younger,
         Evident, WellFormed
    <2> QED  BY <2>2, <2>3, <2>4 DEF InvOf
  <1>15. ASSUME NEW d \in Creations \ {c} PROVE InvOf(d)'
    BY <1>2, <1>11, <1>12, Frame DEF IInv, TypeOK, Own
  <1> QED  BY <1>13, <1>14, <1>15 DEF IInv

-----------------------------------------------------------------------------
(* The end of an action *)

(* An action that is over leaves the entries as they are or puts one back.  *)
LEMMA EndStep ==
  ASSUME IInv, NEW c \in Creations, NEW j \in job[c], Throws(c, j),
         \/ recent' = recent
         \/ /\ recent' = [recent EXCEPT ![c] = j.dropped]
            /\ j.op = "abandon" /\ j.dropped.v # 0,
         faults' \in 0..MaxFaults, blind' \in [Creations -> BOOLEAN],
         blind[c] => blind'[c], \A d \in Creations \ {c} : blind'[d] = blind[d],
         UNCHANGED <<file, rec, surroundings, manifest, clock, ended, born>>
  PROVE  IInv'
  <1>1. job' = [job EXCEPT ![c] = {}]
    BY ThrowsTo
  <1>2. j.dropped \in Entry
    BY Running DEF Job
  <1>3. TypeOK'
    <2>1. job' \in [Creations -> SUBSET Job] /\ recent' \in [Creations -> Entry]
      BY <1>1, <1>2 DEF IInv, TypeOK
    <2> QED  BY <2>1 DEF IInv, TypeOK, surroundings
  <1>4. InvOf(c)'
    <2>1. JobsOK(c)'
      BY <1>1, NoJobs DEF IInv, TypeOK
    <2>2. Durable(c)'
      BY DEF IInv, InvOf, Durable, surroundings
    <2>3. EntriesOK(c)'
      <3>1. CASE recent' = recent
        <4>1. blind[c] \in BOOLEAN /\ blind'[c] \in BOOLEAN
          BY DEF IInv, TypeOK
        <4> QED  BY <3>1, <4>1 DEF IInv, InvOf, EntriesOK, Newer, Younger, Evident,
                    WellFormed, surroundings
      <3>2. CASE /\ recent' = [recent EXCEPT ![c] = j.dropped]
                 /\ j.op = "abandon" /\ j.dropped.v # 0
        <4>1. recent'[c] = j.dropped /\ WellFormed(j.dropped) /\ Younger(c, j.dropped)
          BY <3>2, Running DEF IInv, TypeOK, JobOK, AbandonOK, Abandons
        <4>2. blind[c] \in BOOLEAN /\ blind'[c] \in BOOLEAN
          BY DEF IInv, TypeOK
        <4> QED  BY <4>1, <4>2 DEF IInv, InvOf, EntriesOK, Newer, Younger, Evident,
                    WellFormed, surroundings
      <3> QED  BY <3>1, <3>2
    <2> QED  BY <2>1, <2>2, <2>3 DEF InvOf
  <1>5. ASSUME NEW d \in Creations \ {c} PROVE InvOf(d)'
    <2>1. recent'[d] = recent[d] /\ job'[d] = job[d]
      BY <1>1 DEF IInv, TypeOK
    <2> QED  BY <2>1, Frame DEF IInv, TypeOK, surroundings, Own
  <1> QED  BY <1>3, <1>4, <1>5 DEF IInv

LEMMA NoEvidenceStep ==
  ASSUME IInv, NEW c \in Creations, NEW j \in job[c], NoEvidence(c, j)
  PROVE  IInv'
  <1>1. /\ faults' \in 0..MaxFaults /\ blind' \in [Creations -> BOOLEAN] /\ blind' = blind
        /\ recent' = recent
        /\ UNCHANGED <<file, rec, surroundings, manifest, clock, ended, born>>
    BY DEF NoEvidence, registrations, history, IInv, TypeOK
  <1> QED  BY <1>1, EndStep DEF NoEvidence

LEMMA PutBackEnds ==
  ASSUME NEW c, NEW j, PutBack(c, j)
  PROVE  /\ Throws(c, j)
         /\ \/ recent' = recent
            \/ recent' = [recent EXCEPT ![c] = j.dropped] /\ j.dropped.v # 0
  BY DEF PutBack

LEMMA StepFailsStep ==
  ASSUME IInv, NEW c \in Creations, NEW j \in job[c], StepFails(c, j)
  PROVE  IInv'
  <1>1. /\ faults' = faults + 1 /\ faults < MaxFaults
        /\ IF At(j, "unregister") \/ At(j, "delete") THEN PutBack(c, j)
           ELSE Throws(c, j) /\ UNCHANGED recent
        /\ UNCHANGED <<file, rec, surroundings, manifest, clock, history>>
    BY DEF StepFails
  <1>2. At(j, "unregister") \/ At(j, "delete") => j.op = "abandon"
    BY Running, AtStep
  <1>3. /\ faults' \in 0..MaxFaults /\ blind' \in [Creations -> BOOLEAN]
        /\ blind' = blind /\ UNCHANGED <<ended, born>>
    BY <1>1, CreationAssumption DEF IInv, TypeOK, history
  <1> QED  BY <1>1, <1>2, <1>3, PutBackEnds, EndStep

-----------------------------------------------------------------------------
(* The steps of abandon *)

(* What such a step knows.                                                  *)
LEMMA AbandonFacts ==
  ASSUME IInv, NEW c \in Creations, NEW j \in job[c], j.op = "abandon"
  PROVE  /\ j \in Job /\ j.record \in Record /\ j.dropped \in Entry /\ AbandonOK(c, j)
         /\ rec[c] # None /\ file[c] = rec[c] /\ j.record = file[c] /\ Newer(c, file[c])
         /\ manifest[c] \in Entry /\ recent[c] \in Entry
         /\ WellFormed(manifest[c]) /\ WellFormed(recent[c])
         /\ blind[c] \in BOOLEAN /\ app = "up"
  BY Running DEF JobOK, AbandonOK, Abandons, Job, IInv, TypeOK, InvOf, EntriesOK

LEMMA AbandonGoesOn ==
  ASSUME IInv, NEW c \in Creations, NEW j \in job[c], j.op = "abandon", NEW k \in Job,
         k.steps = j.steps, k.op = "abandon", k.record = j.record,
         Proceeds(c, j, k), NEW step, NEW next, Stands(j, step, next),
         UNCHANGED <<file, rec, surroundings, clock, ended, born>>,
         manifest' \in [Creations -> Entry], recent' \in [Creations -> Entry],
         WellFormed(manifest'[c]), WellFormed(recent'[c]), Newer(c, file[c])',
         \A d \in Creations \ {c} : manifest'[d] = manifest[d] /\ recent'[d] = recent[d],
         faults' \in 0..MaxFaults, blind' \in [Creations -> BOOLEAN],
         \A d \in Creations \ {c} : blind'[d] = blind[d],
         AbandonOK(c, Follows(k))'
  PROVE  IInv'
  <1>1. job' = [job EXCEPT ![c] = {Follows(k)}] /\ Follows(k) \in Job
    BY ProceedsTo DEF Stands
  <1>2. TypeOK'
    <2>1. job' \in [Creations -> SUBSET Job]
      BY <1>1 DEF IInv, TypeOK
    <2> QED  BY <2>1 DEF IInv, TypeOK, surroundings
  <1>3. /\ Follows(k).op = "abandon" /\ Follows(k).steps = Tail(j.steps)
        /\ Follows(k).record = j.record
    BY DEF Follows, Job
  <1>4. JobsOK(c)'
    <2>1. JobOK(c, Follows(k))'
      <3>1. rec'[c] # None /\ Matches(j.record, rec'[c])
        BY AbandonFacts DEF Matches
      <3>2. Tail(j.steps) \in Left("abandon")
        BY DEF Stands
      <3> QED  BY <1>3, <3>1, <3>2 DEF JobOK
    <2>2. job'[c] = {Follows(k)} /\ app' = "up"
      BY <1>1, AbandonFacts DEF IInv, TypeOK, surroundings
    <2> QED  BY <2>1, <2>2, OneJob
  <1>5. InvOf(c)'
    <2>1. Durable(c)'
      BY DEF IInv, InvOf, Durable, surroundings
    <2>2. EntriesOK(c)'
      BY DEF IInv, InvOf, EntriesOK, Evident, WellFormed
    <2> QED  BY <1>4, <2>1, <2>2 DEF InvOf
  <1>6. ASSUME NEW d \in Creations \ {c} PROVE InvOf(d)'
    <2>1. job'[d] = job[d]
      BY <1>1 DEF IInv, TypeOK
    <2> QED  BY <2>1, Frame DEF IInv, TypeOK, surroundings, Own
  <1> QED  BY <1>2, <1>5, <1>6 DEF IInv

LEMMA InspectOwnedStep ==
  ASSUME IInv, NEW c \in Creations, NEW j \in job[c], InspectOwned(c, j)
  PROVE  IInv'
  <1>1. PICK sees \in {NoEntry, manifest[c]} :
          LET own == j.record.manifest
              e == Candidate(own, sees)
          IN  /\ Inspected(c, sees)
              /\ IF Disputed(own, e) THEN Throws(c, j)
                 ELSE Proceeds(c, j, [j EXCEPT !.seen = e.v])
    BY DEF InspectOwned
  <1>2. UNCHANGED <<file, rec, surroundings, manifest, recent, clock, ended, born>>
    BY DEF InspectOwned, registrations
  <1>3. /\ faults' \in 0..MaxFaults /\ blind' \in [Creations -> BOOLEAN]
        /\ \A d \in Creations \ {c} : blind'[d] = blind[d]
        /\ blind[c] => blind'[c]
        /\ sees = manifest[c] \/ (sees = NoEntry /\ blind'[c])
    BY <1>1, InspectedBlinds
  <1>4. j.op = "abandon" /\ Stands(j, "inspect", "forget")
    BY Running, AtStep DEF InspectOwned
  <1>5. PICK e : e = Candidate(j.record.manifest, sees)
    OBVIOUS
  <1>6. CASE Disputed(j.record.manifest, e)
    <2>1. Throws(c, j)
      BY <1>1, <1>5, <1>6
    <2> QED  BY <1>2, <1>3, <2>1, EndStep
  <1>7. CASE ~Disputed(j.record.manifest, e)
    <2>1. e.v \in Nat /\ (e.v # 0 => j.record.manifest.before = 0)
          /\ (j.record.manifest.before = 0 => e = sees)
      BY <1>1, <1>4, <1>5, AbandonFacts DEF Candidate, NoEntry, Entry
    <2>2. PICK k \in Job : k = [j EXCEPT !.seen = e.v]
      BY <1>4, <2>1, AbandonFacts DEF Job
    <2>3. /\ k.steps = j.steps /\ k.op = "abandon" /\ k.record = j.record
          /\ k.seen = e.v /\ k.dropped = j.dropped /\ k.asof = j.asof
      BY <1>4, <2>2, AbandonFacts DEF Job
    <2>4. Proceeds(c, j, k)
      BY <1>1, <1>5, <1>7, <2>2
    <2>5. /\ Follows(k).steps = Tail(j.steps) /\ Follows(k).record = j.record
          /\ Follows(k).seen = e.v /\ Follows(k).dropped = j.dropped
          /\ Follows(k).asof = j.asof
      BY <2>3 DEF Follows, Job
    <2>6. AbandonOK(c, Follows(k))'
      <3>1. Head(Follows(k).steps) = "forget"
        BY <1>4, <2>5 DEF Stands
      <3>2. e.v = 0 /\ ~blind'[c] /\ j.record.manifest.before = 0
              => manifest[c].by # "journal"
        BY <1>3, <1>4, <2>1, AbandonFacts DEF WellFormed
      <3>3. AbandonOK(c, j)
        BY <1>4, AbandonFacts
      <3>4. Abandons(c, Follows(k))'
        BY <1>2, <2>1, <2>5, <3>3 DEF AbandonOK, Abandons, WellFormed, Younger
      <3>5. Cleared(c, Follows(k))'
        BY <1>2, <1>4, <2>5, <3>1, <3>2 DEF Cleared, At, Stands
      <3>6. Compared(c, Follows(k))'
        BY <3>1 DEF Compared, At
      <3> QED  BY <3>4, <3>5, <3>6 DEF AbandonOK
    <2>7. Newer(c, file[c])'
      BY <1>2, <1>3, <1>4, AbandonFacts DEF Newer, Younger
    <2>8. /\ manifest' \in [Creations -> Entry] /\ recent' \in [Creations -> Entry]
          /\ WellFormed(manifest'[c]) /\ WellFormed(recent'[c])
      BY <1>2, <1>4, AbandonFacts DEF IInv, TypeOK
    <2> QED  BY <1>2, <1>3, <1>4, <2>3, <2>4, <2>6, <2>7, <2>8, AbandonGoesOn
  <1> QED  BY <1>6, <1>7

LEMMA ForgetRecentStep ==
  ASSUME IInv, NEW c \in Creations, NEW j \in job[c], ForgetRecent(c, j)
  PROVE  IInv'
  <1>1. PICK e : e = Candidate(j.record.recent, recent[c])
    OBVIOUS
  <1>2. IF Disputed(j.record.recent, e) THEN Throws(c, j)
        ELSE Proceeds(c, j, [j EXCEPT !.dropped = e, !.asof = clock])
    BY <1>1 DEF ForgetRecent
  <1>3. /\ UNCHANGED <<file, rec, surroundings, manifest, recent, clock, ended, born, faults,
                       blind>>
        /\ faults' \in 0..MaxFaults /\ blind' \in [Creations -> BOOLEAN]
    BY DEF ForgetRecent, registrations, history, IInv, TypeOK
  <1>4. j.op = "abandon" /\ Stands(j, "forget", "unrecent") /\ At(j, "forget")
    BY Running, AtStep DEF ForgetRecent
  <1>5. CASE Disputed(j.record.recent, e)
    BY <1>2, <1>3, <1>5, EndStep
  <1>6. CASE ~Disputed(j.record.recent, e)
    <2>1. /\ e \in Entry /\ e.v \in Nat /\ WellFormed(e) /\ Younger(c, e)
          /\ e.v # 0 => /\ j.record.recent.before = 0 /\ e = recent[c]
                        /\ e.v = j.record.recent.registered
          /\ j.record.recent.before = 0 => e = recent[c]
      BY <1>1, <1>4, <1>6, AbandonFacts
      DEF Candidate, Disputed, NoEntry, Entry, WellFormed, Younger, Newer
    <2>2. clock \in Nat
      BY DEF IInv, TypeOK
    <2>3. PICK k \in Job : k = [j EXCEPT !.dropped = e, !.asof = clock]
      BY <1>4, <2>1, <2>2, AbandonFacts DEF Job
    <2>4. /\ k.steps = j.steps /\ k.op = "abandon" /\ k.record = j.record
          /\ k.seen = j.seen /\ k.dropped = e /\ k.asof = clock
      BY <1>4, <2>3, AbandonFacts DEF Job
    <2>5. Proceeds(c, j, k)
      BY <1>2, <1>6, <2>3
    <2>6. /\ Follows(k).steps = Tail(j.steps) /\ Follows(k).record = j.record
          /\ Follows(k).seen = j.seen /\ Follows(k).dropped = e /\ Follows(k).asof = clock
      BY <2>4 DEF Follows, Job
    <2>7. /\ manifest' \in [Creations -> Entry] /\ recent' \in [Creations -> Entry]
          /\ WellFormed(manifest'[c]) /\ WellFormed(recent'[c]) /\ Newer(c, file[c])'
      BY <1>3, <1>4, AbandonFacts DEF IInv, TypeOK, Newer, Younger
    <2>8. AbandonOK(c, Follows(k))'
      <3>1. Head(Follows(k).steps) = "unrecent"
        BY <1>4, <2>6 DEF Stands
      <3>2. AbandonOK(c, j)
        BY <1>4, AbandonFacts
      <3>3. e.v = 0 /\ j.record.recent.before = 0 => recent[c].by # "journal"
        BY <2>1 DEF WellFormed
      <3>4. e.v # 0 => Since(Follows(k), recent[c], j.record.recent)
        BY <2>1 DEF Since
      <3>5. j.record = rec[c] /\ (j.seen # 0 => j.record.manifest.before = 0)
        BY <3>2 DEF AbandonOK, Abandons, Cleared, Compared
      <3>6. j.seen = 0 /\ ~blind[c] /\ j.record.manifest.before = 0
              => manifest[c].by # "journal"
        BY <1>4, <3>2 DEF AbandonOK, Abandons, Cleared, Compared, At
      <3>7. Abandons(c, Follows(k))'
        BY <1>3, <2>1, <2>2, <2>6, <3>5 DEF Abandons, WellFormed, Younger
      <3>8. Cleared(c, Follows(k))'
        BY <1>3, <1>4, <2>6, <3>1, <3>3, <3>6 DEF Cleared, At, Stands
      <3>9. Compared(c, Follows(k))'
        BY <1>3, <2>6, <3>1, <3>4 DEF Compared, At, Since
      <3> QED  BY <3>7, <3>8, <3>9 DEF AbandonOK
    <2> QED  BY <1>3, <1>4, <2>4, <2>5, <2>7, <2>8, AbandonGoesOn
  <1> QED  BY <1>5, <1>6

LEMMA DropRecentStep ==
  ASSUME IInv, NEW c \in Creations, NEW j \in job[c], DropRecent(c, j)
  PROVE  IInv'
  <1>1. /\ UNCHANGED <<file, rec, surroundings, manifest, clock, ended, born, faults, blind>>
        /\ faults' \in 0..MaxFaults /\ blind' \in [Creations -> BOOLEAN]
    BY DEF DropRecent, history, IInv, TypeOK
  <1>2. j.op = "abandon" /\ Stands(j, "unrecent", "unregister") /\ At(j, "unrecent")
    BY Running, AtStep DEF DropRecent
  <1>3. /\ Proceeds(c, j, j)
        /\ recent' = IF j.dropped.v # 0 THEN [recent EXCEPT ![c] = NoEntry] ELSE recent
    BY DEF DropRecent
  <1>4. /\ manifest' \in [Creations -> Entry] /\ recent' \in [Creations -> Entry]
        /\ recent'[c] = IF j.dropped.v # 0 THEN NoEntry ELSE recent[c]
        /\ NoEntry.v = 0 /\ NoEntry.by = "nobody"
        /\ \A d \in Creations \ {c} : recent'[d] = recent[d]
    BY <1>1, <1>3 DEF IInv, TypeOK, NoEntry, Entry
  <1>5. AbandonOK(c, j) /\ j \in Job
    BY <1>2, AbandonFacts
  <1>6. /\ WellFormed(manifest'[c]) /\ WellFormed(recent'[c])
        /\ j.record.recent.before = 0 => recent'[c].by # "journal"
    BY <1>1, <1>2, <1>4, <1>5, AbandonFacts DEF WellFormed, AbandonOK, Abandons, Cleared,
       Compared, At
  <1>7. Newer(c, file[c])'
    BY <1>1, <1>2, <1>4, AbandonFacts DEF Newer, Younger
  <1>8. /\ Follows(j).steps = Tail(j.steps) /\ Follows(j).record = j.record
        /\ Follows(j).seen = j.seen /\ Follows(j).dropped = j.dropped
        /\ Follows(j).asof = j.asof
    BY <1>5 DEF Follows, Job
  <1>9. AbandonOK(c, Follows(j))'
    <2>1. Head(Follows(j).steps) = "unregister"
      BY <1>2, <1>8 DEF Stands
    <2> QED  BY <1>1, <1>2, <1>5, <1>6, <1>8, <2>1 DEF AbandonOK, Abandons, Cleared,
       Compared, At, WellFormed, Younger
  <1> QED  BY <1>1, <1>2, <1>3, <1>4, <1>5, <1>6, <1>7, <1>9, AbandonGoesOn

LEMMA UnregisterStep ==
  ASSUME IInv, NEW c \in Creations, NEW j \in job[c], Unregister(c, j)
  PROVE  IInv'
  <1>1. /\ UNCHANGED <<file, rec, surroundings, manifest, clock, ended, born, faults, blind>>
        /\ faults' \in 0..MaxFaults /\ blind' \in [Creations -> BOOLEAN]
    BY DEF Unregister, history, IInv, TypeOK
  <1>2. j.op = "abandon" /\ Stands(j, "unregister", "delete") /\ At(j, "unregister")
    BY Running, AtStep DEF Unregister
  <1>3. CASE j.seen # 0 /\ manifest[c].v # j.record.manifest.registered
    <2>1. PutBack(c, j)
      BY <1>3 DEF Unregister
    <2> QED  BY <1>1, <1>2, <2>1, PutBackEnds, EndStep
  <1>4. CASE ~(j.seen # 0 /\ manifest[c].v # j.record.manifest.registered)
    <2>1. Proceeds(c, j, [j EXCEPT !.asof = clock]) /\ UNCHANGED recent
      BY <1>4 DEF Unregister
    <2>2. clock \in Nat /\ AbandonOK(c, j) /\ j \in Job
      BY <1>2, AbandonFacts DEF IInv, TypeOK
    <2>3. PICK k \in Job : k = [j EXCEPT !.asof = clock]
      BY <2>2 DEF Job
    <2>4. /\ k.steps = j.steps /\ k.op = "abandon" /\ k.record = j.record
          /\ k.seen = j.seen /\ k.dropped = j.dropped /\ k.asof = clock
      BY <1>2, <2>2, <2>3 DEF Job
    <2>5. /\ Follows(k).steps = Tail(j.steps) /\ Follows(k).record = j.record
          /\ Follows(k).seen = j.seen /\ Follows(k).dropped = j.dropped
          /\ Follows(k).asof = clock
      BY <2>4 DEF Follows, Job
    <2>6. /\ manifest' \in [Creations -> Entry] /\ recent' \in [Creations -> Entry]
          /\ WellFormed(manifest'[c]) /\ WellFormed(recent'[c]) /\ Newer(c, file[c])'
      BY <1>1, <1>2, <2>1, AbandonFacts DEF IInv, TypeOK, Newer, Younger
    <2>7. AbandonOK(c, Follows(k))'
      <3>1. Head(Follows(k).steps) = "delete"
        BY <1>2, <2>5 DEF Stands
      <3>2. j.seen # 0 => Since(Follows(k), manifest[c], j.record.manifest)
        BY <1>4 DEF Since
      <3> QED  BY <1>1, <1>2, <2>1, <2>2, <2>5, <3>1, <3>2
               DEF AbandonOK, Abandons, Cleared, Compared, At, WellFormed, Younger, Since
    <2> QED  BY <1>1, <1>2, <2>1, <2>3, <2>4, <2>6, <2>7, AbandonGoesOn
  <1> QED  BY <1>3, <1>4

LEMMA DeleteEntryStep ==
  ASSUME IInv, NEW c \in Creations, NEW j \in job[c], DeleteEntry(c, j)
  PROVE  IInv'
  <1>1. /\ UNCHANGED <<file, rec, surroundings, clock, ended, born, faults, blind>>
        /\ faults' \in 0..MaxFaults /\ blind' \in [Creations -> BOOLEAN]
    BY DEF DeleteEntry, history, IInv, TypeOK
  <1>2. j.op = "abandon" /\ Stands(j, "delete", "remove") /\ At(j, "delete")
    BY Running, AtStep DEF DeleteEntry
  <1>3. CASE PutBack(c, j) /\ UNCHANGED manifest
    BY <1>1, <1>2, <1>3, PutBackEnds, EndStep
  <1>4. CASE /\ manifest' = IF j.seen # 0 THEN [manifest EXCEPT ![c] = NoEntry] ELSE manifest
             /\ Proceeds(c, j, j)
             /\ UNCHANGED recent
    <2>1. /\ manifest' \in [Creations -> Entry] /\ recent' \in [Creations -> Entry]
          /\ manifest'[c] = IF j.seen # 0 THEN NoEntry ELSE manifest[c]
          /\ NoEntry.v = 0 /\ NoEntry.by = "nobody"
          /\ \A d \in Creations \ {c} : manifest'[d] = manifest[d]
      BY <1>4 DEF IInv, TypeOK, NoEntry, Entry
    <2>2. AbandonOK(c, j) /\ j \in Job
      BY <1>2, AbandonFacts
    <2>3. /\ WellFormed(manifest'[c]) /\ WellFormed(recent'[c])
          /\ ~blind[c] /\ j.record.manifest.before = 0 => manifest'[c].by # "journal"
      BY <1>2, <1>4, <2>1, <2>2, AbandonFacts DEF WellFormed, AbandonOK, Abandons, Cleared,
         Compared, At
    <2>4. Newer(c, file[c])'
      BY <1>1, <1>2, <1>4, <2>1, AbandonFacts DEF Newer, Younger
    <2>5. /\ Follows(j).steps = Tail(j.steps) /\ Follows(j).record = j.record
          /\ Follows(j).seen = j.seen /\ Follows(j).dropped = j.dropped
          /\ Follows(j).asof = j.asof
      BY <2>2 DEF Follows, Job
    <2>6. AbandonOK(c, Follows(j))'
      <3>1. Head(Follows(j).steps) = "remove"
        BY <1>2, <2>5 DEF Stands
      <3> QED  BY <1>1, <1>2, <1>4, <2>2, <2>3, <2>5, <3>1
               DEF AbandonOK, Abandons, Cleared, Compared, At, WellFormed, Younger
    <2> QED  BY <1>1, <1>2, <1>4, <2>1, <2>2, <2>3, <2>4, <2>6, AbandonGoesOn
  <1> QED  BY <1>3, <1>4 DEF DeleteEntry

LEMMA RemoveStep ==
  ASSUME IInv, NEW c \in Creations, NEW j \in job[c], Remove(c, j)
  PROVE  IInv'
  <1>1. /\ j \in Job /\ Tail(j.steps) = <<>> /\ app = "up" /\ c \notin invalid
    BY Running, AtStep DEF Remove
  <1>2. /\ file' = [file EXCEPT ![c] = None] /\ rec' = [rec EXCEPT ![c] = None]
        /\ ended' = [ended EXCEPT ![c] = IF j.op = "abandon" THEN "abandoned"
                                         ELSE "completed"]
        /\ UNCHANGED <<app, loaded, invalid, dir, edits, manifest, recent, clock, faults, born, blind>>
    BY DEF Remove, surroundings, registrations
  <1>3. job' = [job EXCEPT ![c] = {}]
    BY <1>1, ProceedsTo DEF Remove
  <1>4. TypeOK'
    BY <1>2, <1>3 DEF IInv, TypeOK, Records
  <1>5. InvOf(c)'
    BY <1>1, <1>2, <1>3 DEF IInv, TypeOK, InvOf, JobsOK, Durable, EntriesOK, WellFormed
  <1>6. ASSUME NEW d \in Creations \ {c} PROVE InvOf(d)'
    BY <1>2, <1>3, Frame DEF IInv, TypeOK, Own
  <1> QED  BY <1>4, <1>5, <1>6 DEF IInv

-----------------------------------------------------------------------------
(* Crash and restart *)

LEMMA CrashStep ==
  ASSUME IInv, Crash
  PROVE  IInv'
  <1>1. /\ app' = "down" /\ loaded' = {} /\ invalid' = {} /\ rec' = [c \in Creations |-> None]
        /\ job' = [c \in Creations |-> {}] /\ faults < MaxFaults /\ faults' = faults + 1
        /\ UNCHANGED <<file, dir, edits, manifest, recent, clock, ended, born, blind>>
    BY DEF Crash, registrations, history
  <1>2. TypeOK'
    BY <1>1, CreationAssumption DEF IInv, TypeOK, Records
  <1>3. ASSUME NEW c \in Creations PROVE InvOf(c)'
    BY <1>1 DEF IInv, InvOf, JobsOK, Durable, EntriesOK, WellFormed, Newer, Younger, Evident
  <1> QED  BY <1>2, <1>3 DEF IInv

LEMMA RestartStep ==
  ASSUME IInv, Restart
  PROVE  IInv'
  <1>1. /\ app = "down" /\ app' = "loading"
        /\ UNCHANGED <<file, rec, job, loaded, invalid, dir, edits, faults, manifest, recent, clock,
                       ended, born, blind>>
    BY DEF Restart, registrations, history
  <1>2. TypeOK'
    BY <1>1 DEF IInv, TypeOK
  <1>3. ASSUME NEW c \in Creations PROVE InvOf(c)'
    BY <1>1 DEF IInv, InvOf, JobsOK, Durable, EntriesOK, WellFormed, Newer, Younger, Evident
  <1> QED  BY <1>2, <1>3 DEF IInv

LEMMA InitializedStep ==
  ASSUME IInv, Initialized
  PROVE  IInv'
  <1>1. /\ app = "loading" /\ app' = "up" /\ loaded' = Creations
        /\ \A c \in Creations : c \in loaded \/ file[c] = None
        /\ UNCHANGED <<file, rec, job, invalid, dir, edits, faults, manifest, recent, clock,
                       ended, born, blind>>
    BY DEF Initialized, Unread, registrations, history
  <1>2. TypeOK'
    BY <1>1 DEF IInv, TypeOK
  <1>3. ASSUME NEW c \in Creations PROVE InvOf(c)'
    BY <1>1 DEF IInv, InvOf, JobsOK, Durable, EntriesOK, WellFormed, Newer, Younger, Evident
  <1> QED  BY <1>2, <1>3 DEF IInv

(* A file that is being loaded has no record yet and no action.             *)
LEMMA UnreadFacts ==
  ASSUME IInv, NEW c \in Creations, Unread(c)
  PROVE  /\ app = "loading" /\ c \notin loaded /\ file[c] # None /\ file[c] \in Record
         /\ rec[c] = None /\ job[c] = {} /\ Newer(c, file[c]) /\ Evident(file[c])
         /\ c \notin invalid
  BY DEF IInv, TypeOK, Records, InvOf, JobsOK, Durable, EntriesOK, Unread

LEMMA LoadRemovesKeeps ==
  ASSUME IInv, NEW c \in Creations, Unread(c), LoadRemoves(c),
         faults' \in 0..MaxFaults, blind' \in [Creations -> BOOLEAN],
         \A d \in Creations \ {c} : blind'[d] = blind[d],
         UNCHANGED <<job, app, invalid, dir, edits, manifest, recent, clock, born>>
  PROVE  IInv'
  <1>1. /\ file' = [file EXCEPT ![c] = None] /\ loaded' = loaded \union {c} /\ rec' = rec
        /\ ended' = [ended EXCEPT ![c] = "recovered"]
    BY DEF LoadRemoves
  <1>2. TypeOK'
    BY <1>1 DEF IInv, TypeOK, Records
  <1>3. InvOf(c)'
    BY <1>1, UnreadFacts DEF IInv, TypeOK, InvOf, JobsOK, Durable, EntriesOK, WellFormed
  <1>4. ASSUME NEW d \in Creations \ {c} PROVE InvOf(d)'
    BY <1>1, Frame DEF IInv, TypeOK, Own
  <1> QED  BY <1>2, <1>3, <1>4 DEF IInv

LEMMA LoadCompletedStep ==
  ASSUME IInv, NEW c \in Creations, LoadCompleted(c)
  PROVE  IInv'
  BY LoadRemovesKeeps DEF LoadCompleted, registrations, IInv, TypeOK

LEMMA LoadMarksStep ==
  ASSUME IInv, NEW c \in Creations, LoadMarks(c)
  PROVE  IInv'
  <1>1. PICK r \in Record : /\ r = [file[c] EXCEPT !.active = FALSE]
                            /\ r.stage = file[c].stage /\ r.manifest = file[c].manifest
                            /\ r.recent = file[c].recent
    <2>1. file[c] \in Record
      BY UnreadFacts DEF LoadMarks
    <2>2. /\ [file[c] EXCEPT !.active = FALSE] \in Record
          /\ [file[c] EXCEPT !.active = FALSE].stage = file[c].stage
          /\ [file[c] EXCEPT !.active = FALSE].manifest = file[c].manifest
          /\ [file[c] EXCEPT !.active = FALSE].recent = file[c].recent
      BY <2>1 DEF Record
    <2> QED  BY <2>2
  <1>2. /\ file' = [file EXCEPT ![c] = r]
        /\ UNCHANGED <<rec, job, app, loaded, invalid, dir, edits, faults, manifest, recent, clock,
                       ended, born, blind>>
    BY <1>1 DEF LoadMarks, surroundings, registrations, history, IInv, TypeOK
  <1>3. Evident(r) /\ Newer(c, r)
    BY <1>1, UnreadFacts DEF LoadMarks, Evident, Newer
  <1>4. TypeOK'
    BY <1>2, <1>3 DEF IInv, TypeOK, Records, Evident
  <1>5. InvOf(c)'
    <2>1. file'[c] = r
      BY <1>2 DEF IInv, TypeOK
    <2>2. JobsOK(c)'
      BY <1>2, UnreadFacts, NoJobs DEF LoadMarks
    <2>3. Durable(c)'
      BY <1>2, UnreadFacts DEF LoadMarks, Durable
    <2>4. EntriesOK(c)'
      BY <1>2, <1>3, <2>1 DEF IInv, InvOf, EntriesOK, WellFormed, Newer, Younger, Evident
    <2> QED  BY <2>2, <2>3, <2>4 DEF InvOf
  <1>6. ASSUME NEW d \in Creations \ {c} PROVE InvOf(d)'
    BY <1>2, Frame DEF IInv, TypeOK, Own
  <1> QED  BY <1>4, <1>5, <1>6 DEF IInv

LEMMA LoadKeepsKeeps ==
  ASSUME IInv, NEW c \in Creations, Unread(c), LoadKeeps(c),
         faults' \in 0..MaxFaults, blind' \in [Creations -> BOOLEAN],
         \A d \in Creations \ {c} : blind'[d] = blind[d], blind[c] => blind'[c],
         UNCHANGED <<job, app, invalid, dir, edits, manifest, recent, clock, born>>
  PROVE  IInv'
  <1>1. rec' = [rec EXCEPT ![c] = file[c]] /\ loaded' = loaded \union {c}
        /\ UNCHANGED <<file, ended>>
    BY DEF LoadKeeps
  <1>2. TypeOK'
    BY <1>1 DEF IInv, TypeOK
  <1>3. InvOf(c)'
    <2>1. JobsOK(c)'
      BY UnreadFacts, NoJobs
    <2>2. Durable(c)'
      BY <1>1, UnreadFacts DEF IInv, TypeOK, Durable
    <2>3. EntriesOK(c)'
      <3>1. blind[c] \in BOOLEAN /\ blind'[c] \in BOOLEAN
        BY DEF IInv, TypeOK
      <3> QED  BY <1>1, <3>1 DEF IInv, InvOf, EntriesOK, Newer, Younger, Evident, WellFormed
    <2> QED  BY <2>1, <2>2, <2>3 DEF InvOf
  <1>4. ASSUME NEW d \in Creations \ {c} PROVE InvOf(d)'
    BY <1>1, Frame DEF IInv, TypeOK, Own
  <1> QED  BY <1>2, <1>3, <1>4 DEF IInv

LEMMA LoadDecidesStep ==
  ASSUME IInv, NEW c \in Creations, LoadDecides(c)
  PROVE  IInv'
  <1>1. Unread(c) /\ UNCHANGED <<job, app, invalid, dir, edits, manifest, recent, clock, born>>
    BY DEF LoadDecides, registrations
  <1>2. ASSUME NEW sees, Inspected(c, sees),
               IF IsComplete(c, sees) THEN LoadRemoves(c) ELSE LoadKeeps(c)
        PROVE  IInv'
    <2>1. /\ faults' \in 0..MaxFaults /\ blind' \in [Creations -> BOOLEAN]
          /\ \A d \in Creations \ {c} : blind'[d] = blind[d]
          /\ blind[c] => blind'[c]
      BY <1>2, InspectedBlinds
    <2> QED  BY <1>1, <1>2, <2>1, LoadRemovesKeeps, LoadKeepsKeeps
  <1>3. ASSUME faults < MaxFaults, faults' = faults + 1, LoadKeeps(c), UNCHANGED blind
        PROVE  IInv'
    <2>1. faults' \in 0..MaxFaults /\ blind' \in [Creations -> BOOLEAN]
      BY <1>3, CreationAssumption DEF IInv, TypeOK
    <2> QED  BY <1>1, <1>3, <2>1, LoadKeepsKeeps
  <1> QED  BY <1>2, <1>3 DEF LoadDecides

LEMMA LoadFailsStep ==
  ASSUME IInv, NEW c \in Creations, LoadFails(c)
  PROVE  IInv'
  <1>1. /\ Unread(c) /\ faults < MaxFaults /\ faults' = faults + 1
        /\ invalid' = invalid \union {c} /\ loaded' = loaded \union {c}
        /\ UNCHANGED <<file, rec, job, app, dir, edits, manifest, recent, clock, ended, born,
                       blind>>
    BY DEF LoadFails, registrations, history
  <1>2. TypeOK'
    BY <1>1, CreationAssumption DEF IInv, TypeOK
  <1>3. InvOf(c)'
    <2>1. JobsOK(c)'
      BY <1>1, UnreadFacts, NoJobs
    <2>2. Durable(c)'
      BY <1>1, UnreadFacts DEF Durable
    <2>3. EntriesOK(c)'
      BY <1>1 DEF IInv, InvOf, EntriesOK, Newer, Younger, Evident, WellFormed
    <2> QED  BY <2>1, <2>2, <2>3 DEF InvOf
  <1>4. ASSUME NEW d \in Creations \ {c} PROVE InvOf(d)'
    BY <1>1, Frame DEF IInv, TypeOK, Own
  <1> QED  BY <1>2, <1>3, <1>4 DEF IInv

-----------------------------------------------------------------------------
(* Every step keeps the invariant. *)

LEMMA StepIInv ==
  ASSUME IInv, NEW c \in Creations, NEW j \in job[c], Step(c, j)
  PROVE  IInv'
  BY CaptureStep, JournalStep, CreatedStep, UnfinishedStep, ConfirmManifestStep,
     ConfirmRecentStep, NoEvidenceStep, AdvanceStep, InspectOwnedStep, ForgetRecentStep,
     DropRecentStep, UnregisterStep, DeleteEntryStep, RemoveStep
  DEF Step

LEMMA NextIInv == IInv /\ [Next]_vars => IInv'
  <1> SUFFICES ASSUME IInv, [Next]_vars PROVE IInv'  OBVIOUS
  <1>1. ASSUME NEW c \in Creations, EccBuilds(c) \/ UserWorks(c) \/ ManifestEdited(c)
                                    \/ RecentEdited(c)
        PROVE  IInv'
    BY <1>1, EccBuildsStep, UserWorksStep, ManifestEditedStep, RecentEditedStep
  <1>2. ASSUME NEW c \in Creations, NEW o \in Operations, Start(c, o) PROVE IInv'
    BY <1>2, StartStep
  <1>3. ASSUME NEW c \in Creations, NEW j \in job[c], Step(c, j) \/ StepFails(c, j)
        PROVE  IInv'
    BY <1>3, StepIInv, StepFailsStep
  <1>4. ASSUME NEW c \in Creations, Load(c) \/ LoadFails(c) PROVE IInv'
    BY <1>4, LoadCompletedStep, LoadMarksStep, LoadDecidesStep, LoadFailsStep DEF Load
  <1>5. CASE Crash \/ Restart \/ Initialized
    BY <1>5, CrashStep, RestartStep, InitializedStep
  <1>6. CASE UNCHANGED vars
    BY <1>6, StutterIInv
  <1> QED  BY <1>1, <1>2, <1>3, <1>4, <1>5, <1>6 DEF Next

(* The invariant of every behaviour. *)
LEMMA Invariant == Spec => []IInv
  <1> QED  BY InitIInv, NextIInv, PTL DEF Spec

-----------------------------------------------------------------------------
(* A journal keeps its shape, and with it the evidence that the next start   *)
(* demands of a file.                                                       *)
THEOREM TypeCorrect == Spec => []TypeOK
  <1>1. IInv => TypeOK
    BY DEF IInv
  <1> QED  BY <1>1, Invariant, PTL

(* What the service holds in memory is what the next start will find.        *)
THEOREM JournalDurable == Spec => []JournalIsDurable
  <1> QED  BY Invariant, DurableFromIInv, PTL

(* Only the steps that write touch a file.                                  *)
LEMMA FileWrites ==
  ASSUME IInv, [Next]_vars, NEW c \in Creations, file[c] # None, file'[c] # None
  PROVE  file[c].stage <= file'[c].stage /\ (file'[c].active => file[c].active)
  <1> DEFINE Goal == file[c].stage <= file'[c].stage /\ (file'[c].active => file[c].active)
  <1>0. file[c] \in Record /\ file[c].stage \in Nat
    BY DEF IInv, TypeOK, Records, Record
  <1>1. ASSUME file'[c] = file[c] PROVE Goal
    BY <1>0, <1>1
  <1>2. ASSUME NEW d \in Creations, NEW j \in job[d], NEW r \in Record, Writes(d, r),
               j.op # "begin", r.stage >= j.record.stage, r.active => j.record.active
        PROVE  Goal
    <2>1. CASE d = c
      <3>1. file'[c] = r /\ Matches(j.record, file[c])
        BY <1>2, <2>1, Running DEF Writes, IInv, TypeOK
      <3>2. r.stage \in Nat /\ j.record.stage = file[c].stage
        BY <1>2, <3>1 DEF Record, Matches
      <3> QED  BY <1>0, <1>2, <3>1, <3>2 DEF Matches
    <2>2. CASE d # c
      BY <1>1, <1>2, <2>2 DEF Writes, IInv, TypeOK
    <2> QED  BY <2>1, <2>2
  <1>3. ASSUME NEW d \in Creations, NEW j \in job[d], Step(d, j) PROVE Goal
    <2>1. j \in Job /\ j.record \in Record /\ j.record.stage \in Nat
      BY Running DEF Job, Record
    <2>2. CASE Journal(d, j)
      <3>1. file[d] = None /\ Writes(d, j.record)
        BY <2>2, Running, AtStep DEF Journal, Save
      <3> QED  BY <1>1, <3>1 DEF Writes, IInv, TypeOK
    <2>3. CASE Created(d, j)
      <3>1. PICK k \in Record : /\ k = [j.record EXCEPT !.known = TRUE]
                                /\ k.stage = j.record.stage /\ k.active = j.record.active
        <4>1. /\ [j.record EXCEPT !.known = TRUE] \in Record
              /\ [j.record EXCEPT !.known = TRUE].stage = j.record.stage
              /\ [j.record EXCEPT !.known = TRUE].active = j.record.active
          BY <2>1 DEF Record
        <4> QED  BY <4>1
      <3>2. /\ Writes(d, AtLeast(k, 1)) /\ AtLeast(k, 1) \in Record
            /\ AtLeast(k, 1).stage >= j.record.stage /\ AtLeast(k, 1).active = k.active
        <4>1. Writes(d, AtLeast(k, 1))
          BY <2>3, <3>1 DEF Created, Save
        <4>2. /\ AtLeast(k, 1) \in Record /\ AtLeast(k, 1).active = k.active
              /\ AtLeast(k, 1).stage = IF k.stage < 1 THEN 1 ELSE k.stage
          BY AtLeastKeeps
        <4> QED  BY <2>1, <3>1, <4>1, <4>2
      <3>3. j.op # "begin"
        BY <2>3, Running, AtStep DEF Created, Save
      <3> QED  BY <1>2, <3>1, <3>2, <3>3
    <2>4. CASE Unfinished(d, j)
      <3>1. PICK k \in Record : /\ k = [j.record EXCEPT !.active = FALSE]
                                /\ k.stage = j.record.stage /\ k.active = FALSE
        <4>1. /\ [j.record EXCEPT !.active = FALSE] \in Record
              /\ [j.record EXCEPT !.active = FALSE].stage = j.record.stage
              /\ [j.record EXCEPT !.active = FALSE].active = FALSE
          BY <2>1 DEF Record
        <4> QED  BY <4>1
      <3>2. Writes(d, k) /\ j.op # "begin"
        BY <2>4, <3>1, Running, AtStep DEF Unfinished, Save
      <3>3. k.stage >= j.record.stage
        BY <2>1, <3>1
      <3> QED  BY <1>2, <3>1, <3>2, <3>3
    <2>5. CASE Advance(d, j)
      <3>1. PICK n \in 2..4 :
              /\ At(j, CASE n = 2 -> "save2" [] n = 3 -> "save3" [] n = 4 -> "save4")
              /\ IF j.record.stage < n THEN Writes(d, AtLeast(j.record, n))
                 ELSE UNCHANGED <<file, rec>>
        BY <2>5 DEF Advance
      <3>2. j.op # "begin"
        <4>1. At(j, "save2") \/ At(j, "save3") \/ At(j, "save4")
          BY <3>1
        <4> QED  BY <4>1, Running, AtStep DEF Registering
      <3>3. /\ AtLeast(j.record, n) \in Record /\ AtLeast(j.record, n).stage >= j.record.stage
            /\ AtLeast(j.record, n).active = j.record.active
        BY <2>1, AtLeastKeeps
      <3> QED  BY <1>1, <1>2, <3>1, <3>2, <3>3
    <2>6. CASE Remove(d, j)
      BY <1>1, <2>6 DEF Remove, IInv, TypeOK
    <2>7. CASE \/ Capture(d, j) \/ ConfirmManifest(d, j) \/ ConfirmRecent(d, j)
               \/ NoEvidence(d, j) \/ InspectOwned(d, j) \/ ForgetRecent(d, j)
               \/ DropRecent(d, j) \/ Unregister(d, j) \/ DeleteEntry(d, j)
      BY <1>1, <2>7 DEF Capture, ConfirmManifest, ConfirmRecent, NoEvidence, InspectOwned,
         ForgetRecent, DropRecent, Unregister, PutBack, DeleteEntry
    <2> QED  BY <1>3, <2>2, <2>3, <2>4, <2>5, <2>6, <2>7 DEF Step
  <1>4. ASSUME NEW d \in Creations, Load(d) \/ LoadFails(d) PROVE Goal
    <2>1. CASE file' = [file EXCEPT ![d].active = FALSE]
      <3>1. CASE d = c
        <4>1. file'[c] = [file[c] EXCEPT !.active = FALSE]
          BY <2>1, <3>1 DEF IInv, TypeOK
        <4> QED  BY <1>0, <4>1 DEF Record
      <3>2. CASE d # c
        BY <1>1, <2>1, <3>2 DEF IInv, TypeOK
      <3> QED  BY <3>1, <3>2
    <2>2. CASE file' = [file EXCEPT ![d] = None] \/ file' = file
      BY <1>1, <2>2 DEF IInv, TypeOK
    <2> QED  BY <1>4, <2>1, <2>2 DEF Load, LoadFails, LoadCompleted, LoadMarks, LoadDecides,
       LoadKeeps, LoadRemoves
  <1>5. CASE \/ \E d \in Creations : \/ EccBuilds(d) \/ UserWorks(d) \/ ManifestEdited(d)
                                     \/ RecentEdited(d)
                                     \/ \E o \in Operations : Start(d, o)
                                     \/ \E j \in job[d] : StepFails(d, j)
             \/ Crash \/ Restart \/ Initialized \/ UNCHANGED vars
    BY <1>1, <1>5 DEF EccBuilds, UserWorks, ManifestEdited, RecentEdited, others, Start,
       StepFails, Crash, Restart, Initialized, vars
  <1> QED  BY <1>3, <1>4, <1>5 DEF Next

(* No crash, retry or queued action takes a journal back to an earlier stage *)
(* or makes an unfinished creation active again.                            *)
THEOREM JournalMonotonic == Spec => JournalNeverGoesBack
  <1> DEFINE Forward == \A c \in Creations :
        file[c] # None /\ file'[c] # None =>
          file[c].stage <= file'[c].stage /\ (file'[c].active => file[c].active)
  <1>1. IInv /\ [Next]_vars => [Forward]_vars
    BY FileWrites
  <1> QED  BY <1>1, Invariant, PTL DEF Spec, JournalNeverGoesBack

-----------------------------------------------------------------------------
(* What abandoning removes *)

(* Only the step of an action itself, a failure of it or a crash ends it.   *)
LEMMA WhoEnds ==
  ASSUME IInv, [Next]_vars, NEW c \in Creations, NEW j \in job[c], j \notin job'[c]
  PROVE  Step(c, j) \/ StepFails(c, j) \/ Crash
  <1>1. ASSUME NEW d \in Creations, NEW k \in job[d], Step(d, k) \/ StepFails(d, k),
               d # c \/ k # j
        PROVE  FALSE
    <2>1. d # c
      BY <1>1, Running
    <2>2. \E new : job' = [job EXCEPT ![d] = new]
      BY <1>1 DEF Step, StepFails, Capture, Journal, Created, Unfinished, Save, Advance,
         ConfirmManifest, ConfirmRecent, NoEvidence, InspectOwned, ForgetRecent,
         DropRecent, Unregister, PutBack, DeleteEntry,
         Remove, Proceeds, Throws
    <2> QED  BY <2>1, <2>2 DEF IInv, TypeOK
  <1>2. ASSUME NEW d \in Creations, NEW o \in Operations, Start(d, o) PROVE FALSE
    BY <1>2 DEF Start, Queued, IInv, TypeOK
  <1>3. CASE \/ \E d \in Creations : EccBuilds(d) \/ UserWorks(d) \/ ManifestEdited(d)
                                     \/ RecentEdited(d) \/ Load(d) \/ LoadFails(d)
             \/ Restart \/ Initialized \/ UNCHANGED vars
    BY <1>3 DEF EccBuilds, UserWorks, ManifestEdited, RecentEdited, others, Load,
       LoadFails, LoadKeeps, LoadCompleted, LoadMarks, LoadDecides, Restart, Initialized,
       vars
  <1> QED  BY <1>1, <1>2, <1>3 DEF Next

OlderKept(c, j) ==
  /\ At(j, "delete") /\ manifest[c].v # 0 /\ manifest'[c].v = 0 /\ ~blind[c]
       => /\ manifest[c].v > born[c]
          /\ manifest[c].v = file[c].manifest.registered \/ manifest[c].v > j.asof
  /\ At(j, "unrecent") /\ recent[c].v # 0 /\ recent'[c].v = 0
       => /\ recent[c].v > born[c]
          /\ recent[c].v = file[c].recent.registered \/ recent[c].v > j.asof

LEMMA RemovesOwn ==
  ASSUME IInv, [Next]_vars, NEW c \in Creations, NEW j \in job[c], j \notin job'[c]
  PROVE  OlderKept(c, j)
  <1>1. Step(c, j) \/ StepFails(c, j) \/ Crash
    BY WhoEnds
  <1>2. CASE Crash
    BY <1>2 DEF Crash, registrations, OlderKept
  <1>3. CASE StepFails(c, j)
    BY <1>3 DEF StepFails, OlderKept, At
  <1>4. CASE Step(c, j)
    <2>1. CASE At(j, "delete")
      <3>1. DeleteEntry(c, j)
        BY <1>4, <2>1 DEF Step, At, Capture, Journal, Created, Unfinished, Save, Advance,
           ConfirmManifest, ConfirmRecent, NoEvidence, InspectOwned, ForgetRecent,
           DropRecent, Unregister, Remove
      <3>2. SUFFICES ASSUME manifest[c].v # 0, manifest'[c].v = 0, ~blind[c]
                     PROVE  /\ manifest[c].v > born[c]
                            /\ \/ manifest[c].v = file[c].manifest.registered
                               \/ manifest[c].v > j.asof
        BY <2>1 DEF OlderKept, At
      <3>3. j.seen # 0
        BY <3>1, <3>2 DEF DeleteEntry
      <3>4. j.op = "abandon"
        BY <2>1, Running, AtStep
      <3>5. /\ j.record = file[c] /\ j.record.manifest.before = 0 /\ Newer(c, file[c])
            /\ Since(j, manifest[c], j.record.manifest)
        BY <2>1, <3>3, <3>4, AbandonFacts DEF AbandonOK, Abandons, Cleared, Compared
      <3> QED  BY <3>2, <3>5 DEF Newer, Younger, Since
    <2>2. CASE At(j, "unrecent")
      <3>1. DropRecent(c, j)
        BY <1>4, <2>2 DEF Step, At, Capture, Journal, Created, Unfinished, Save, Advance,
           ConfirmManifest, ConfirmRecent, NoEvidence, InspectOwned, ForgetRecent,
           Unregister, DeleteEntry, Remove
      <3>2. SUFFICES ASSUME recent[c].v # 0, recent'[c].v = 0
                     PROVE  /\ recent[c].v > born[c]
                            /\ \/ recent[c].v = file[c].recent.registered
                               \/ recent[c].v > j.asof
        BY <2>2 DEF OlderKept, At
      <3>3. j.dropped.v # 0
        BY <3>1, <3>2 DEF DropRecent
      <3>4. j.op = "abandon"
        BY <2>2, Running, AtStep
      <3>5. /\ j.record = file[c] /\ j.record.recent.before = 0 /\ Newer(c, file[c])
            /\ Since(j, recent[c], j.record.recent)
        BY <2>2, <3>3, <3>4, AbandonFacts DEF AbandonOK, Abandons, Cleared, Compared
      <3> QED  BY <3>2, <3>5 DEF Newer, Younger, Since
    <2>3. CASE ~At(j, "delete") /\ ~At(j, "unrecent")
      BY <2>3 DEF OlderKept
    <2> QED  BY <2>1, <2>2, <2>3
  <1> QED  BY <1>1, <1>2, <1>3, <1>4

(* Abandoning removes no entry that is older than the creation, and none but  *)
(* the one the journal on disk recorded or one that took its place after it   *)
(* was compared.                                                            *)
THEOREM OlderKeeps == Spec => AbandonKeepsOlder
  <1> DEFINE Keeps ==
        \A c \in Creations : \A j \in job[c] \ job'[c] :
          /\ At(j, "delete") /\ manifest[c].v # 0 /\ manifest'[c].v = 0 /\ ~blind[c]
             => /\ manifest[c].v > born[c]
                /\ manifest[c].v = file[c].manifest.registered \/ manifest[c].v > j.asof
          /\ At(j, "unrecent") /\ recent[c].v # 0 /\ recent'[c].v = 0
             => /\ recent[c].v > born[c]
                /\ recent[c].v = file[c].recent.registered \/ recent[c].v > j.asof
  <1>1. IInv /\ [Next]_vars => [Keeps]_vars
    BY RemovesOwn DEF OlderKept
  <1> QED  BY <1>1, Invariant, PTL DEF Spec, AbandonKeepsOlder

LEMMA RemoveIsClean ==
  ASSUME IInv, [Next]_vars, NEW c \in Creations, ended[c] = "open",
         ended'[c] = "abandoned", ~blind[c]
  PROVE  /\ file[c].manifest.before = 0 => manifest'[c].by # "journal"
         /\ file[c].recent.before = 0 => recent'[c].by # "journal"
  <1>1. \E j \in job[c] : Remove(c, j) /\ j.op = "abandon"
    <2>1. ASSUME NEW d \in Creations, NEW j \in job[d], Step(d, j)
          PROVE  Remove(d, j) \/ UNCHANGED ended
      BY <2>1 DEF Step, Capture, Journal, Created, Unfinished, Save, Advance,
         ConfirmManifest,
         ConfirmRecent, NoEvidence, InspectOwned, ForgetRecent, DropRecent, Unregister,
         PutBack, DeleteEntry, history
    <2>2. ASSUME NEW d \in Creations, NEW j \in job[d], Remove(d, j)
          PROVE  d = c /\ j.op = "abandon"
      BY <2>2 DEF Remove, IInv, TypeOK
    <2>3. ASSUME NEW d \in Creations, Load(d) \/ LoadFails(d) PROVE FALSE
      BY <2>3 DEF Load, LoadFails, LoadCompleted, LoadMarks, LoadDecides,
       LoadKeeps, LoadRemoves, history, IInv, TypeOK
    <2>4. CASE \/ \E d \in Creations : \/ EccBuilds(d) \/ UserWorks(d) \/ ManifestEdited(d)
                                       \/ RecentEdited(d)
                                       \/ \E o \in Operations : Start(d, o)
                                       \/ \E j \in job[d] : StepFails(d, j)
               \/ Crash \/ Restart \/ Initialized \/ UNCHANGED vars
      BY <2>4 DEF EccBuilds, UserWorks, ManifestEdited, RecentEdited, others, Start,
         StepFails, Crash, Restart, Initialized, vars, history
    <2> QED  BY <2>1, <2>2, <2>3, <2>4 DEF Next
  <1>2. PICK j \in job[c] : Remove(c, j) /\ j.op = "abandon"
    BY <1>1
  <1>3. AbandonOK(c, j) /\ j.record = file[c]
    BY <1>2, AbandonFacts
  <1> QED  BY <1>2, <1>3 DEF Remove, registrations, AbandonOK, Cleared, At

(* When the journal of an abandoned creation is gone, so is every            *)
(* registration it made.                                                    *)
THEOREM AbandonedIsClean == Spec => AbandonCleans
  <1> DEFINE Clean ==
        \A c \in Creations :
          ended[c] = "open" /\ ended'[c] = "abandoned" /\ ~blind[c] =>
            /\ file[c].manifest.before = 0 => manifest'[c].by # "journal"
            /\ file[c].recent.before = 0 => recent'[c].by # "journal"
  <1>1. IInv /\ [Next]_vars => [Clean]_vars
    BY RemoveIsClean
  <1> QED  BY <1>1, Invariant, PTL DEF Spec, AbandonCleans

-----------------------------------------------------------------------------
(* How a journal ends *)

(* A closed creation has left nothing, and an action that finishes a creation *)
(* removes the journal only when the journal says that it is completed.      *)
Over(c) == ended[c] # "open" => file[c] = None /\ rec[c] = None /\ job[c] = {}
Completing(c) == \A j \in job[c] :
  j.op \in {"complete", "continue"} /\ At(j, "remove") => j.record.stage = 4
CloseInv == \A c \in Creations : Over(c) /\ Completing(c)

(* While a journal exists and nothing runs for it, its creation is open, and  *)
(* the service accepts the next action of its user: of the creating window    *)
(* while the creation is active, Continue and Abandon when it is not.  A file  *)
(* this start could not deal with offers nothing until the next start, which  *)
(* takes it up again.                                                        *)
UnfinishedIsOffered ==
  \A c \in Creations : app = "up" /\ file[c] # None =>
    /\ ended[c] = "open"
    /\ Queued(c) /\ c \notin invalid => \A o \in IF file[c].active
                             THEN {"mark", "register", "complete", "unfinish"}
                             ELSE {"continue", "abandon"} : Accepts(c, o)

(* A journal closes once, and only because its user abandoned the creation,   *)
(* because both registrations are on record in it, or because the next start  *)
(* found the directory and both registrations.                               *)
ClosesOnEvidence ==
  [][\A c \in Creations :
       /\ ended[c] # "open" => ended'[c] = ended[c] /\ file'[c] = None
       /\ file[c] # None /\ file'[c] = None =>
            /\ ended'[c] # "open"
            /\ \/ ended'[c] = "abandoned"
               \/ /\ file[c].manifest.registered # 0
                  /\ file[c].recent.registered # 0
               \/ /\ ended'[c] = "recovered" /\ dir[c] \in {"complete", "changed"}
                  /\ manifest[c].v # 0 /\ recent[c].v # 0]_vars

Still(c) == UNCHANGED <<file[c], rec[c], job[c], ended[c]>>

LEMMA StillCloses ==
  ASSUME CloseInv, NEW c \in Creations, Still(c)
  PROVE  (Over(c) /\ Completing(c))'
  BY DEF CloseInv, Still, Over, Completing, At

(* What is done for one creation leaves the others alone.                    *)
LEMMA OthersStill ==
  ASSUME IInv, NEW c \in Creations, NEW d \in Creations \ {c},
         \/ \E j \in job[d] : Step(d, j) \/ StepFails(d, j)
         \/ \E o \in Operations : Start(d, o)
         \/ Load(d) \/ LoadFails(d)
  PROVE  Still(c)
  <1>1. ASSUME NEW j \in job[d], Step(d, j) \/ StepFails(d, j) PROVE Still(c)
    <2>1. \E new : job' = [job EXCEPT ![d] = new]
      BY <1>1 DEF Step, StepFails, Capture, Journal, Created, Unfinished, Save, Advance,
         ConfirmManifest, ConfirmRecent, NoEvidence, InspectOwned, ForgetRecent,
         DropRecent, Unregister, PutBack, DeleteEntry,
         Remove, Proceeds, Throws
    <2>2. \/ UNCHANGED <<file, rec>>
          \/ \E r : file' = [file EXCEPT ![d] = r] /\ rec' = [rec EXCEPT ![d] = r]
      BY <1>1 DEF Step, StepFails, Capture, Journal, Created, Unfinished, Save, Advance,
         ConfirmManifest, ConfirmRecent, NoEvidence, InspectOwned, ForgetRecent,
         DropRecent, Unregister, PutBack, DeleteEntry,
         Remove, Writes
    <2>3. UNCHANGED ended \/ \E new : ended' = [ended EXCEPT ![d] = new]
      BY <1>1 DEF Step, StepFails, Capture, Journal, Created, Unfinished, Save, Advance,
         ConfirmManifest, ConfirmRecent, NoEvidence, InspectOwned, ForgetRecent,
         DropRecent, Unregister, PutBack, DeleteEntry,
         Remove, history
    <2> QED  BY <2>1, <2>2, <2>3 DEF IInv, TypeOK, Still
  <1>2. ASSUME NEW o \in Operations, Start(d, o) PROVE Still(c)
    BY <1>2 DEF Start, history, IInv, TypeOK, Still
  <1>3. CASE Load(d) \/ LoadFails(d)
    BY <1>3 DEF Load, LoadFails, LoadCompleted, LoadMarks, LoadDecides,
       LoadKeeps, LoadRemoves, history, IInv,
       TypeOK, Still
  <1> QED  BY <1>1, <1>2, <1>3

(* Nor do the others, the start of the application and its readiness.        *)
LEMMA RestStill ==
  ASSUME NEW c \in Creations,
         \/ \E d \in Creations : EccBuilds(d) \/ UserWorks(d) \/ ManifestEdited(d)
                                 \/ RecentEdited(d)
         \/ Restart \/ Initialized \/ UNCHANGED vars
  PROVE  Still(c)
  BY DEF EccBuilds, UserWorks, ManifestEdited, RecentEdited, others, Restart, Initialized,
     vars, history, Still

(* What is left of an action that goes on.                                   *)
LEMMA Remaining ==
  ASSUME IInv, NEW c \in Creations, NEW j \in job[c], NEW j2, Proceeds(c, j, j2),
         DOMAIN j2 = DOMAIN j, j2.op = j.op, j2.steps = j.steps, NEW k \in job'[c]
  PROVE  /\ Tail(j.steps) # <<>> /\ k.op = j.op /\ k.steps = Tail(j.steps)
         /\ k.record = j2.record
  <1>1. job[c] = {j} /\ DOMAIN j = {"op", "steps", "record", "seen", "dropped", "asof"}
    BY Running DEF Job
  <1>2. Tail(j.steps) # <<>> /\ k = [j2 EXCEPT !.steps = Tail(@)]
    BY <1>1 DEF Proceeds, IInv, TypeOK
  <1> QED  BY <1>1, <1>2

(* Only the last stage leads a creation that is being finished to its end.   *)
LEMMA BeforeRemoval ==
  ASSUME IInv, NEW c \in Creations, NEW j \in job[c],
         j.op \in {"complete", "continue"}, Tail(j.steps) # <<>>,
         Head(Tail(j.steps)) = "remove"
  PROVE  At(j, "save4")
  <1>1. /\ j \in Job /\ j.steps \in Left(j.op)
    BY Running
  <1>2. /\ ~Stands(j, "manifest", "save2") /\ ~Stands(j, "save2", "recent")
        /\ ~Stands(j, "recent", "save3") /\ ~Stands(j, "save3", "save4")
        /\ ~Last(j, "remove")
    BY DEF Stands, Last
  <1> QED  BY <1>1, <1>2, WhereFinishing DEF At, Stands

LEMMA StepCompleting ==
  ASSUME IInv, NEW c \in Creations, NEW j \in job[c], Step(c, j)
  PROVE  Completing(c)'
  <1>0. j \in Job /\ j.record \in Record /\ job[c] = {j}
    BY Running DEF Job
  <1>1. ASSUME NEW j2, Proceeds(c, j, j2), DOMAIN j2 = DOMAIN j, j2.op = j.op,
               j2.steps = j.steps, At(j, "save4") => j2.record.stage = 4
        PROVE  Completing(c)'
    <2>1. ASSUME NEW k \in job'[c], k.op \in {"complete", "continue"}, At(k, "remove")
          PROVE  k.record.stage = 4
      <3>1. /\ Tail(j.steps) # <<>> /\ k.op = j.op /\ k.steps = Tail(j.steps)
            /\ k.record = j2.record
        BY <1>1, Remaining
      <3>2. At(j, "save4")
        BY <2>1, <3>1, BeforeRemoval DEF At
      <3> QED  BY <1>1, <3>1, <3>2
    <2> QED  BY <2>1 DEF Completing, At
  <1>2. CASE NoEvidence(c, j)
    <2>1. job'[c] = {}
      BY <1>2, ThrowsTo DEF NoEvidence, IInv, TypeOK
    <2> QED  BY <2>1 DEF Completing
  <1>3. CASE Advance(c, j)
    <2>1. PICK n \in 2..4 :
            /\ At(j, CASE n = 2 -> "save2" [] n = 3 -> "save3" [] n = 4 -> "save4")
            /\ Proceeds(c, j, [j EXCEPT !.record = AtLeast(@, n)])
      BY <1>3 DEF Advance
    <2>2. At(j, "save4") => n = 4
      BY <2>1 DEF At
    <2>3. AtLeast(j.record, 4).stage = 4
      <3>1. AtLeast(j.record, 4).stage = IF j.record.stage < 4 THEN 4 ELSE j.record.stage
        BY <1>0, AtLeastKeeps
      <3>2. j.record.stage \in 0..4
        BY <1>0 DEF Record
      <3> QED  BY <3>1, <3>2
    <2>4. PICK j2 : j2 = [j EXCEPT !.record = AtLeast(@, n)]
      OBVIOUS
    <2>5. /\ DOMAIN j2 = DOMAIN j /\ j2.op = j.op /\ j2.steps = j.steps
          /\ j2.record = AtLeast(j.record, n)
      BY <1>0, <2>4 DEF Job
    <2> QED  BY <1>1, <2>1, <2>2, <2>3, <2>4, <2>5
  <1>4. CASE ~NoEvidence(c, j) /\ ~Advance(c, j)
    <2>1. ~At(j, "save4")
      BY <1>4 DEF Step, At, Capture, Journal, Created, Unfinished, Save, ConfirmManifest,
         ConfirmRecent, InspectOwned, ForgetRecent, DropRecent, Unregister, PutBack,
         DeleteEntry, Remove
    <2>2. ASSUME NEW j2, Proceeds(c, j, j2), DOMAIN j2 = DOMAIN j, j2.op = j.op,
                 j2.steps = j.steps
          PROVE  Completing(c)'
      BY <1>1, <2>1, <2>2
    <2>3. CASE Journal(c, j) \/ Created(c, j) \/ Unfinished(c, j) \/ Remove(c, j)
      BY <2>2, <2>3 DEF Journal, Created, Unfinished, Save, Remove
    <2>4. ASSUME NEW r, Proceeds(c, j, [j EXCEPT !.record = r])
          PROVE  Completing(c)'
      <3>1. PICK j2 : j2 = [j EXCEPT !.record = r]
        OBVIOUS
      <3>2. DOMAIN j2 = DOMAIN j /\ j2.op = j.op /\ j2.steps = j.steps
        BY <1>0, <3>1 DEF Job
      <3> QED  BY <2>2, <2>4, <3>1, <3>2
    <2>5. CASE Capture(c, j)
      BY <2>4, <2>5 DEF Capture
    <2>6. CASE ConfirmManifest(c, j) \/ ConfirmRecent(c, j)
      <3>1. PICK e : \/ Proceeds(c, j, [j EXCEPT !.record.manifest = Owns(@, e)])
                     \/ Proceeds(c, j, [j EXCEPT !.record.recent = Owns(@, e)])
        BY <2>6 DEF ConfirmManifest, ConfirmRecent
      <3>2. PICK j2 : /\ Proceeds(c, j, j2)
                      /\ \/ j2 = [j EXCEPT !.record.manifest = Owns(@, e)]
                         \/ j2 = [j EXCEPT !.record.recent = Owns(@, e)]
        BY <3>1
      <3>3. DOMAIN j2 = DOMAIN j /\ j2.op = j.op /\ j2.steps = j.steps
        BY <1>0, <3>2 DEF Job
      <3> QED  BY <2>2, <3>2, <3>3
    <2>7. CASE \/ InspectOwned(c, j) \/ ForgetRecent(c, j) \/ DropRecent(c, j)
             \/ Unregister(c, j) \/ DeleteEntry(c, j)
      <3>1. j.op = "abandon"
        BY <2>7, Running, AtStep DEF InspectOwned, ForgetRecent, DropRecent, Unregister,
           PutBack, DeleteEntry
      <3>2. \A k \in job'[c] : k.op = "abandon"
        <4>1. ASSUME NEW x, Proceeds(c, j, [j EXCEPT !.seen = x])
              PROVE  \A k \in job'[c] : k.op = "abandon"
          <5>1. PICK j2 : j2 = [j EXCEPT !.seen = x]
            OBVIOUS
          <5>2. DOMAIN j2 = DOMAIN j /\ j2.op = j.op /\ j2.steps = j.steps
            BY <1>0, <5>1 DEF Job
          <5> QED  BY <3>1, <4>1, <5>1, <5>2, Remaining
        <4>2. ASSUME NEW x, \/ Proceeds(c, j, [j EXCEPT !.dropped = x, !.asof = clock])
                            \/ Proceeds(c, j, [j EXCEPT !.asof = clock])
              PROVE  \A k \in job'[c] : k.op = "abandon"
          <5>1. PICK j2 : /\ Proceeds(c, j, j2)
                          /\ \/ j2 = [j EXCEPT !.dropped = x, !.asof = clock]
                             \/ j2 = [j EXCEPT !.asof = clock]
            BY <4>2
          <5>2. DOMAIN j2 = DOMAIN j /\ j2.op = j.op /\ j2.steps = j.steps
            BY <1>0, <5>1 DEF Job
          <5> QED  BY <3>1, <4>2, <5>1, <5>2, Remaining
        <4>3. Proceeds(c, j, j) => \A k \in job'[c] : k.op = "abandon"
          BY <3>1, Remaining
        <4>4. Throws(c, j) => job'[c] = {}
          BY ThrowsTo DEF IInv, TypeOK
        <4> QED  BY <2>7, <4>1, <4>2, <4>3, <4>4 DEF InspectOwned, ForgetRecent,
           DropRecent, Unregister, PutBack, DeleteEntry
      <3> QED  BY <3>2 DEF Completing
    <2> QED  BY <1>4, <2>3, <2>5, <2>6, <2>7 DEF Step
  <1> QED  BY <1>2, <1>3, <1>4

LEMMA StepOver ==
  ASSUME IInv, CloseInv, NEW c \in Creations, NEW j \in job[c], Step(c, j)
  PROVE  Over(c)'
  <1>1. ended[c] = "open"
    BY DEF CloseInv, Over
  <1>2. CASE Remove(c, j)
    <2>1. Tail(j.steps) = <<>>
      BY <1>2, Running, AtStep DEF Remove
    <2>2. job'[c] = {}
      BY <1>2, <2>1, Running DEF Remove, Proceeds, IInv, TypeOK
    <2> QED  BY <1>2, <2>2 DEF Remove, IInv, TypeOK, Over
  <1>3. CASE ~Remove(c, j)
    <2>1. UNCHANGED ended
      BY <1>3 DEF Step, Capture, Journal, Created, Unfinished, Save, Advance,
         ConfirmManifest,
         ConfirmRecent, NoEvidence, InspectOwned, ForgetRecent, DropRecent, Unregister,
         PutBack, DeleteEntry, history
    <2> QED  BY <1>1, <2>1 DEF Over
  <1> QED  BY <1>2, <1>3

LEMMA CloseStep == IInv /\ CloseInv /\ [Next]_vars => CloseInv'
  <1> SUFFICES ASSUME IInv, CloseInv, [Next]_vars, NEW c \in Creations
               PROVE  (Over(c) /\ Completing(c))'
    BY DEF CloseInv
  <1>0. Over(c) /\ Completing(c)
    BY DEF CloseInv
  <1>1. ASSUME NEW j \in job[c], Step(c, j) PROVE (Over(c) /\ Completing(c))'
    BY <1>1, StepCompleting, StepOver
  <1>2. ASSUME NEW j \in job[c], StepFails(c, j) PROVE (Over(c) /\ Completing(c))'
    <2>1. job'[c] = {} /\ UNCHANGED <<file, rec, ended>>
      BY <1>2, ThrowsTo DEF StepFails, PutBack, history, IInv, TypeOK
    <2> QED  BY <1>0, <2>1 DEF Over, Completing
  <1>3. ASSUME NEW o \in Operations, Start(c, o) PROVE (Over(c) /\ Completing(c))'
    <2>1. ended[c] = "open" /\ UNCHANGED ended /\ job[c] = {}
      BY <1>3 DEF Start, Queued, history
    <2>2. \A k \in job'[c] : k.steps = Steps(o)
      BY <1>3, <2>1 DEF Start, IInv, TypeOK
    <2>3. Head(Steps(o)) # "remove"
      BY DEF Steps, Operations
    <2> QED  BY <2>1, <2>2, <2>3 DEF Over, Completing, At
  <1>4. CASE Load(c) \/ LoadFails(c)
    <2>1. /\ file[c] # None /\ rec[c] = None /\ job[c] = {} /\ ended[c] = "open"
      BY <1>0, <1>4, UnreadFacts DEF Load, LoadFails, LoadKeeps, LoadCompleted, LoadMarks,
         LoadDecides, Over
    <2>2. job' = job
      BY <1>4 DEF Load, LoadFails, LoadKeeps, LoadCompleted, LoadMarks, LoadDecides
    <2>3. UNCHANGED ended \/ LoadRemoves(c)
      BY <1>4 DEF Load, LoadFails, LoadKeeps, LoadCompleted, LoadMarks, LoadDecides, history
    <2> QED  BY <2>1, <2>2, <2>3 DEF LoadRemoves, IInv, TypeOK, Over, Completing
  <1>5. CASE Crash
    BY <1>0, <1>5 DEF Crash, history, Over, Completing
  <1>6. CASE \E d \in Creations \ {c} :
               \/ \E j \in job[d] : Step(d, j) \/ StepFails(d, j)
               \/ \E o \in Operations : Start(d, o)
               \/ Load(d) \/ LoadFails(d)
    BY <1>6, OthersStill, StillCloses
  <1>7. CASE \/ \E d \in Creations : EccBuilds(d) \/ UserWorks(d) \/ ManifestEdited(d)
                                     \/ RecentEdited(d)
             \/ Restart \/ Initialized \/ UNCHANGED vars
    BY <1>7, RestStill, StillCloses
  <1> QED  BY <1>1, <1>2, <1>3, <1>4, <1>5, <1>6, <1>7 DEF Next

LEMMA CloseInvariant == Spec => []CloseInv
  <1>1. Init => CloseInv
    BY DEF Init, CloseInv, Over, Completing
  <1> QED  BY <1>1, CloseStep, Invariant, PTL DEF Spec

(* The user of an unfinished creation is offered its next action whenever     *)
(* nothing runs for it, after every crash, failed call and start: what is in  *)
(* the file is never out of reach (the checks of the actions of              *)
(* workspaceCreationJournal.ts).                                             *)
THEOREM UnfinishedStaysOffered == Spec => []UnfinishedIsOffered
  <1>1. IInv /\ CloseInv => UnfinishedIsOffered
    <2> SUFFICES ASSUME IInv, CloseInv, NEW c \in Creations, app = "up", file[c] # None
                 PROVE  /\ ended[c] = "open"
                        /\ Queued(c) /\ c \notin invalid =>
                             \A o \in IF file[c].active
                                      THEN {"mark", "register", "complete", "unfinish"}
                                      ELSE {"continue", "abandon"} : Accepts(c, o)
      BY DEF UnfinishedIsOffered
    <2>1. ended[c] = "open"
      BY DEF CloseInv, Over
    <2>2. c \notin invalid => rec[c] # None /\ rec[c] = file[c]
      BY DEF IInv, InvOf, Durable
    <2> QED  BY <2>1, <2>2 DEF Accepts
  <1> QED  BY <1>1, Invariant, CloseInvariant, PTL

(* What a step of an action other than the last writes is a record.          *)
LEMMA StepKeepsFile ==
  ASSUME IInv, NEW c \in Creations, NEW j \in job[c], Step(c, j), ~Remove(c, j),
         file[c] # None
  PROVE  file'[c] # None
  <1>1. j \in Job /\ j.record \in Record
    BY Running DEF Job
  <1>2. ASSUME NEW r \in Record, Writes(c, r) PROVE file'[c] # None
    BY <1>2, NoneAssumption DEF Writes, IInv, TypeOK
  <1>3. CASE Journal(c, j)
    BY <1>1, <1>2, <1>3 DEF Journal, Save
  <1>4. CASE Created(c, j)
    <2>1. [j.record EXCEPT !.known = TRUE] \in Record
      BY <1>1 DEF Record
    <2>2. AtLeast([j.record EXCEPT !.known = TRUE], 1) \in Record
      BY <2>1, AtLeastKeeps
    <2> QED  BY <1>2, <1>4, <2>2 DEF Created, Save
  <1>5. CASE Unfinished(c, j)
    <2>1. [j.record EXCEPT !.active = FALSE] \in Record
      BY <1>1 DEF Record
    <2> QED  BY <1>2, <1>5, <2>1 DEF Unfinished, Save
  <1>6. CASE Advance(c, j)
    <2>1. PICK n \in 2..4 : Writes(c, AtLeast(j.record, n)) \/ UNCHANGED file
      BY <1>6 DEF Advance
    <2>2. AtLeast(j.record, n) \in Record
      BY <1>1, AtLeastKeeps
    <2> QED  BY <1>2, <2>1, <2>2
  <1>7. CASE \/ Capture(c, j) \/ ConfirmManifest(c, j) \/ ConfirmRecent(c, j)
             \/ NoEvidence(c, j) \/ InspectOwned(c, j) \/ ForgetRecent(c, j)
             \/ DropRecent(c, j) \/ Unregister(c, j) \/ DeleteEntry(c, j)
    BY <1>7 DEF Capture, ConfirmManifest, ConfirmRecent, NoEvidence, InspectOwned,
       ForgetRecent, DropRecent, Unregister, PutBack, DeleteEntry
  <1> QED  BY <1>3, <1>4, <1>5, <1>6, <1>7 DEF Step

Evidence(c) ==
  /\ ended'[c] # "open"
  /\ \/ ended'[c] = "abandoned"
     \/ file[c].manifest.registered # 0 /\ file[c].recent.registered # 0
     \/ /\ ended'[c] = "recovered" /\ dir[c] \in {"complete", "changed"}
        /\ manifest[c].v # 0 /\ recent[c].v # 0

LEMMA RemoveEvidence ==
  ASSUME IInv, CloseInv, NEW c \in Creations, NEW j \in job[c], Remove(c, j)
  PROVE  Evidence(c)
  <1>1. j.op \in {"complete", "continue", "abandon"} /\ At(j, "remove")
    BY Running, AtStep DEF Remove
  <1>2. ended'[c] = IF j.op = "abandon" THEN "abandoned" ELSE "completed"
    BY DEF Remove, IInv, TypeOK
  <1>3. CASE j.op = "abandon"
    BY <1>2, <1>3 DEF Evidence
  <1>4. CASE j.op \in {"complete", "continue"}
    <2>1. j.record.stage = 4
      BY <1>1, <1>4 DEF CloseInv, Completing
    <2>2. Matches(j.record, file[c]) /\ Evident(file[c])
      BY <1>4, Running
    <2> QED  BY <1>2, <1>4, <2>1, <2>2 DEF Matches, Evident, Evidence
  <1> QED  BY <1>1, <1>3, <1>4

LEMMA LoadEvidence ==
  ASSUME IInv, NEW c \in Creations, Load(c), file'[c] = None
  PROVE  Evidence(c)
  <1>1. Unread(c)
    BY DEF Load, LoadFails, LoadKeeps, LoadCompleted, LoadMarks, LoadDecides
  <1>2. file[c] # None /\ file[c] \in Record /\ Evident(file[c])
    BY <1>1, UnreadFacts
  <1>3. CASE LoadCompleted(c)
    BY <1>2, <1>3 DEF LoadCompleted, LoadRemoves, Evident, Evidence, IInv, TypeOK
  <1>4. CASE LoadMarks(c)
    <2>1. file'[c] = [file[c] EXCEPT !.active = FALSE]
      BY <1>4 DEF LoadMarks, IInv, TypeOK
    <2>2. file'[c] \in Record
      BY <1>2, <2>1 DEF Record
    <2> QED  BY <2>2, NoneAssumption
  <1>5. CASE LoadDecides(c)
    <2>1. PICK sees \in {NoEntry, manifest[c]} : IsComplete(c, sees) /\ LoadRemoves(c)
      BY <1>2, <1>5 DEF LoadDecides, LoadKeeps
    <2>2. sees.v # 0 /\ recent[c].v # 0 /\ dir[c] \in {"complete", "changed"}
      BY <2>1 DEF IsComplete, Registered
    <2>3. manifest[c].v # 0
      BY <2>2 DEF NoEntry
    <2>4. ended'[c] = "recovered"
      BY <2>1 DEF LoadRemoves, IInv, TypeOK
    <2> QED  BY <2>2, <2>3, <2>4 DEF Evidence
  <1> QED  BY <1>3, <1>4, <1>5 DEF Load

LEMMA Closes ==
  ASSUME IInv, CloseInv, [Next]_vars, NEW c \in Creations
  PROVE  /\ ended[c] # "open" => ended'[c] = ended[c] /\ file'[c] = None
         /\ file[c] # None /\ file'[c] = None => Evidence(c)
  <1> DEFINE Goal == /\ ended[c] # "open" => ended'[c] = ended[c] /\ file'[c] = None
                     /\ file[c] # None /\ file'[c] = None => Evidence(c)
  <1>0. Over(c)
    BY DEF CloseInv
  <1>1. ASSUME Still(c) PROVE Goal
    BY <1>0, <1>1 DEF Still, Over
  <1>2. ASSUME NEW j \in job[c], Step(c, j) PROVE Goal
    <2>1. ended[c] = "open"
      BY <1>0, <1>2 DEF Over
    <2>2. file[c] # None /\ file'[c] = None => Remove(c, j)
      BY <1>2, StepKeepsFile
    <2> QED  BY <2>1, <2>2, RemoveEvidence
  <1>3. CASE Load(c) \/ LoadFails(c)
    <2>1. ended[c] = "open"
      BY <1>0, <1>3, UnreadFacts DEF Load, LoadFails, LoadKeeps, LoadCompleted, LoadMarks,
         LoadDecides, Over
    <2>2. LoadFails(c) => file' = file
      BY DEF LoadFails
    <2> QED  BY <1>3, <2>1, <2>2, LoadEvidence
  <1>4. CASE \/ \E j \in job[c] : StepFails(c, j)
             \/ \E o \in Operations : Start(c, o)
             \/ Crash
    <2>1. UNCHANGED <<file, ended>>
      BY <1>4 DEF StepFails, Start, Crash, history
    <2> QED  BY <1>0, <2>1 DEF Over
  <1>5. CASE \E d \in Creations \ {c} :
               \/ \E j \in job[d] : Step(d, j) \/ StepFails(d, j)
               \/ \E o \in Operations : Start(d, o)
               \/ Load(d) \/ LoadFails(d)
    BY <1>1, <1>5, OthersStill
  <1>6. CASE \/ \E d \in Creations : EccBuilds(d) \/ UserWorks(d) \/ ManifestEdited(d)
                                     \/ RecentEdited(d)
             \/ Restart \/ Initialized \/ UNCHANGED vars
    BY <1>1, <1>6, RestStill
  <1> QED  BY <1>2, <1>3, <1>4, <1>5, <1>6 DEF Next

(* No creation is forgotten: a journal leaves the disk once and for all, and  *)
(* only with an Abandon, with both registrations on record, or with a start   *)
(* that saw the directory and both registrations (complete, abandon and the  *)
(* recovery of workspaceCreationJournal.ts).                                 *)
THEOREM JournalsCloseOnEvidence == Spec => ClosesOnEvidence
  <1> DEFINE Rightly ==
        \A c \in Creations :
          /\ ended[c] # "open" => ended'[c] = ended[c] /\ file'[c] = None
          /\ file[c] # None /\ file'[c] = None =>
               /\ ended'[c] # "open"
               /\ \/ ended'[c] = "abandoned"
                  \/ /\ file[c].manifest.registered # 0
                     /\ file[c].recent.registered # 0
                  \/ /\ ended'[c] = "recovered" /\ dir[c] \in {"complete", "changed"}
                     /\ manifest[c].v # 0 /\ recent[c].v # 0
  <1>1. IInv /\ CloseInv /\ [Next]_vars => [Rightly]_vars
    BY Closes DEF Evidence
  <1> QED  BY <1>1, Invariant, CloseInvariant, PTL DEF Spec, ClosesOnEvidence
=============================================================================
