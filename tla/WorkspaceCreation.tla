-------------------------- MODULE WorkspaceCreation --------------------------
(***************************************************************************)
(* WorkspaceCreationJournal (services/workspaceCreationJournal.ts): how the *)
(* creation of a Workspace survives a crash of the application.             *)
(*                                                                         *)
(* A creation has one JSON file.  Its actions run one after another (the    *)
(* queue of its Project); each is a list of steps, and between two steps    *)
(* the application may crash, a call may fail, and the Project manifest and *)
(* the list of recent Workspaces may be edited by ECC, by terminals and by  *)
(* the renderer.  The files are read again at the next start.               *)
(***************************************************************************)
EXTENDS Naturals, Sequences, FiniteSets

CONSTANTS Creations,   \* creation ids, each with a target directory of its own
          None,        \* no file, no record
          MaxEdits,    \* bound: edits by others of the two registrations
          MaxFaults    \* bound: crashes, failed calls, unreadable manifests

ASSUME CreationAssumption == MaxEdits \in Nat /\ MaxFaults \in Nat

VARIABLES
  file,      \* file[c]: <creationId>.json
  rec,       \* rec[c]: this.records
  job,       \* job[c]: the actions of c that run (the queue admits one)
  app,       \* "down", "loading" (initialize) or "up"
  loaded,    \* files that load() has dealt with
  invalid,   \* this.invalid: of them, those it could not deal with
  dir,       \* dir[c]: the target directory
  manifest,  \* manifest[c]: the entry of the target in project.json
  recent,    \* recent[c]: its entry in the setting recent_projects
  clock,     \* the last fingerprint given to an entry
  edits, faults,
  ended,     \* history: how the journal of c was closed
  born,      \* history: clock when begin looked at the registrations
  blind      \* history: the manifest was unreadable when c looked at it

registrations == <<manifest, recent, clock>>
history == <<ended, born, blind>>
vars == <<file, rec, job, app, loaded, invalid, dir, registrations, edits, faults,
          history>>

(* An entry is known by its fingerprint v; a later entry has another one. *)
Entry == [v : Nat, by : {"nobody", "journal", "other"}]
NoEntry == [v |-> 0, by |-> "nobody"]

(* RegistrationOwnership: fingerprints, 0 for null and for undefined;        *)
(* `introduced` is registered # 0 and before = 0.                            *)
Ownership == [before : Nat, registered : Nat]
Unowned(e) == [before |-> e.v, registered |-> 0]

(* Stages: 0 intent-recorded, 1 workspace-created, 2 manifest-registered,    *)
(* 3 application-registered, 4 completed.                                    *)
Record == [stage : 0..4, active : BOOLEAN,
           known : BOOLEAN,               \* workspaceId and workspaceRevision
           manifest : Ownership, recent : Ownership]
NoRecord == [stage |-> 0, active |-> FALSE, known |-> FALSE,
             manifest |-> Unowned(NoEntry), recent |-> Unowned(NoEntry)]

ASSUME NoneAssumption == None \notin Record

Operations == {"begin", "mark", "register", "complete", "unfinish", "continue",
               "abandon"}
StepNames == {"capture", "journal", "created", "unfinish", "manifest", "recent",
              "save2", "save3", "save4", "inspect", "forget", "unrecent", "unregister",
              "delete", "remove"}

(* Mistaken variant: abandoning removes the journal before the registrations. *)
StepsFileFirst(o) ==
  CASE o = "begin"    -> <<"capture", "journal">>
    [] o = "mark"     -> <<"created">>
    [] o = "unfinish" -> <<"unfinish">>
    [] o = "register" -> <<"manifest", "save2">>
    [] o \in {"complete", "continue"} ->
         <<"manifest", "save2", "recent", "save3", "save4", "remove">>
    [] o = "abandon"  -> <<"inspect", "forget", "unrecent", "remove", "unregister", "delete">>

Steps(o) ==
  CASE o = "begin"    -> <<"capture", "journal">>
    [] o = "mark"     -> <<"created">>
    [] o = "unfinish" -> <<"unfinish">>
    [] o = "register" -> <<"manifest", "save2">>
    [] o \in {"complete", "continue"} ->
         <<"manifest", "save2", "recent", "save3", "save4", "remove">>
    [] o = "abandon"  -> <<"inspect", "forget", "unrecent", "unregister", "delete", "remove">>

Job == [op : Operations, steps : Seq(StepNames),
        record : Record,                  \* the action's own `record`
        seen : Nat,                       \* currentManifest of abandon
        dropped : Entry,                  \* currentApplication of abandon
        asof : Nat]                       \* history: clock when it last compared

At(j, step) == j.steps # <<>> /\ Head(j.steps) = step
(* The action goes on as j2 with its next step, or is over. *)
Proceeds(c, j, j2) ==
  job' = [job EXCEPT ![c] = (@ \ {j}) \union
            (IF Tail(j2.steps) = <<>> THEN {} ELSE {[j2 EXCEPT !.steps = Tail(@)]})]
Throws(c, j) == job' = [job EXCEPT ![c] = @ \ {j}]

Init == /\ file = [c \in Creations |-> None] /\ rec = file
        /\ job = [c \in Creations |-> {}]
        /\ app = "up" /\ loaded = Creations /\ invalid = {}
        /\ dir = [c \in Creations |-> "none"]
        /\ manifest \in [Creations -> {NoEntry, [v |-> 1, by |-> "other"]}]
        /\ recent \in [Creations -> {NoEntry, [v |-> 1, by |-> "other"]}]
        /\ clock = 1 /\ edits = 0 /\ faults = 0
        /\ ended = [c \in Creations |-> "open"]
        /\ born = [c \in Creations |-> 0]
        /\ blind = [c \in Creations |-> FALSE]

-----------------------------------------------------------------------------
(* Others *)

others == <<file, rec, job, app, loaded, invalid, faults, history>>

EccBuilds(c) ==                \* `ecc init`, which may die half way
  /\ dir[c] \in {"none", "partial"} /\ file[c] # None
  /\ dir' = [dir EXCEPT ![c] = IF @ = "none" THEN "partial" ELSE "complete"]
  /\ UNCHANGED <<others, registrations, edits>>

UserWorks(c) ==                \* another Workspace revision
  /\ dir[c] = "complete"
  /\ dir' = [dir EXCEPT ![c] = "changed"]
  /\ UNCHANGED <<others, registrations, edits>>

Edited(e) == {NoEntry} \union {[v |-> clock + 1, by |-> "other"]}

ManifestEdited(c) ==
  /\ edits < MaxEdits /\ edits' = edits + 1 /\ clock' = clock + 1
  /\ \E e \in Edited(manifest[c]) : manifest' = [manifest EXCEPT ![c] = e]
  /\ UNCHANGED <<others, dir, recent>>

RecentEdited(c) ==             \* the renderer opens or forgets the Workspace
  /\ edits < MaxEdits /\ edits' = edits + 1 /\ clock' = clock + 1
  /\ \E e \in Edited(recent[c]) : recent' = [recent EXCEPT ![c] = e]
  /\ UNCHANGED <<others, dir, manifest>>

-----------------------------------------------------------------------------
(* The queue (serialize, enqueue) and the checks with which an action begins *)

(* Mistaken variant: actions of one Project are not queued. *)
NotQueued(c) == Cardinality(job[c]) < 2
Queued(c) == job[c] = {}

Accepts(c, o) ==
  CASE o = "begin" -> rec[c] = None /\ c \notin invalid  \* an id of its own
    [] o \in {"mark", "register", "complete", "unfinish"} ->
         rec[c] # None /\ rec[c].active           \* requireActiveCreationOwner
    [] o \in {"continue", "abandon"} ->
         rec[c] # None /\ ~rec[c].active          \* requireCreationRecovery

(* The calls the callers make: `ecc init` has returned before mark, mark     *)
(* before register; continue needs a complete Workspace of the same identity.*)
Timely(c, o) ==
  CASE o = "mark"     -> dir[c] = "complete"
    [] o = "register" -> rec[c].stage >= 1
    [] o = "continue" -> dir[c] = "complete" \/ (dir[c] = "changed" /\ ~rec[c].known)
    [] OTHER -> TRUE

Start(c, o) ==
  /\ app = "up" /\ ended[c] = "open" /\ Queued(c)
  /\ Accepts(c, o) /\ Timely(c, o)
  /\ job' = [job EXCEPT ![c] = @ \union
       {[op |-> o, steps |-> Steps(o), seen |-> 0, dropped |-> NoEntry, asof |-> 0,
         record |-> IF rec[c] = None THEN NoRecord ELSE rec[c]]}]
  /\ UNCHANGED <<file, rec, app, loaded, invalid, dir, registrations, edits, faults,
                 history>>

-----------------------------------------------------------------------------
(* Steps *)

surroundings == <<app, loaded, invalid, dir, edits>>

(* What inspectWorkspaceRegistration returns: an unreadable manifest counts  *)
(* as no evidence.                                                          *)
Inspected(c, sees) ==
  \/ sees = manifest[c] /\ UNCHANGED <<faults, blind>>
  \/ /\ sees = NoEntry /\ faults < MaxFaults
     /\ faults' = faults + 1 /\ blind' = [blind EXCEPT ![c] = TRUE]

Capture(c, j) ==               \* captureRegistrationOwnership
  /\ At(j, "capture")
  /\ \E sees \in {NoEntry, manifest[c]} :
       /\ Inspected(c, sees)
       /\ Proceeds(c, j, [j EXCEPT !.record = [NoRecord EXCEPT !.active = TRUE,
                            !.manifest = Unowned(sees), !.recent = Unowned(recent[c])]])
  /\ born' = [born EXCEPT ![c] = clock]
  /\ UNCHANGED <<file, rec, surroundings, registrations, ended>>

(* Mistaken variant: only the Map is updated. *)
WritesMap(c, r) == rec' = [rec EXCEPT ![c] = r] /\ UNCHANGED file
(* write, then records.set; the rename makes the file change at once. *)
Writes(c, r) == /\ file' = [file EXCEPT ![c] = r]
                /\ rec'  = [rec EXCEPT ![c] = r]

AtLeast(r, n) == IF r.stage < n THEN [r EXCEPT !.stage = n] ELSE r

(* begin, markWorkspaceCreated and updateUnfinished always write. *)
Save(c, j, step, r) ==
  /\ At(j, step)
  /\ Writes(c, r)
  /\ Proceeds(c, j, j)
  /\ UNCHANGED <<surroundings, registrations, faults, history>>

Journal(c, j)   == Save(c, j, "journal", j.record)
Created(c, j)   == Save(c, j, "created", AtLeast([j.record EXCEPT !.known = TRUE], 1))
Unfinished(c, j) == Save(c, j, "unfinish", [j.record EXCEPT !.active = FALSE])

Advance(c, j) ==               \* advance writes only a stage that is new
  \E n \in 2..4 :
    /\ At(j, CASE n = 2 -> "save2" [] n = 3 -> "save3" [] n = 4 -> "save4")
    /\ IF j.record.stage < n THEN Writes(c, AtLeast(j.record, n))
       ELSE UNCHANGED <<file, rec>>
    /\ Proceeds(c, j, [j EXCEPT !.record = AtLeast(@, n)])
    /\ UNCHANGED <<surroundings, registrations, faults, history>>

(* Mistaken variant: Continue only confirms what others have registered. *)
EnsuresNothing(j, step) == FALSE
Ensures(j, step) == j.op = "continue" \/ (j.op = "register" /\ step = "manifest")

(* confirmManifestRegistration and confirmApplicationRegistration: the entry *)
(* that results, if there is evidence or the action ensures it.              *)
Confirmed(e, j, step) ==
  IF e.v = 0 /\ Ensures(j, step) THEN [v |-> clock + 1, by |-> "journal"] ELSE e

(* Mistaken variant: the registration that was confirmed is not recorded. *)
OwnsUnrecorded(own, e) == own
Owns(own, e) == [own EXCEPT !.registered = e.v]

ConfirmManifest(c, j) ==
  LET e == Confirmed(manifest[c], j, "manifest")
  IN  /\ At(j, "manifest") /\ e.v # 0
      /\ manifest' = [manifest EXCEPT ![c] = e]
      /\ clock' = IF e = manifest[c] THEN clock ELSE clock + 1
      /\ Proceeds(c, j, [j EXCEPT !.record.manifest = Owns(@, e)])
      /\ UNCHANGED <<file, rec, surroundings, recent, faults, history>>

ConfirmRecent(c, j) ==
  LET e == Confirmed(recent[c], j, "recent")
  IN  /\ At(j, "recent") /\ e.v # 0
      /\ recent' = [recent EXCEPT ![c] = e]
      /\ clock' = IF e = recent[c] THEN clock ELSE clock + 1
      /\ Proceeds(c, j, [j EXCEPT !.record.recent = Owns(@, e)])
      /\ UNCHANGED <<file, rec, surroundings, manifest, faults, history>>

NoEvidence(c, j) ==            \* the action rejects; the record stays
  /\ \/ At(j, "manifest") /\ Confirmed(manifest[c], j, "manifest").v = 0
     \/ At(j, "recent") /\ Confirmed(recent[c], j, "recent").v = 0
  /\ Throws(c, j)
  /\ UNCHANGED <<file, rec, surroundings, registrations, faults, history>>

(* removeOwnedRegistrations: of each list an entry is read and compared, and  *)
(* removed in a later step, whatever it is by then.                          *)

(* Mistaken variant: an entry that was there before is considered, too. *)
CandidateAny(own, e) == e
(* Only what did not exist at begin is a candidate for removal. *)
Candidate(own, e) == IF own.before = 0 THEN e ELSE NoEntry
Disputed(own, e) == e.v # 0 /\ e.v # own.registered

InspectOwned(c, j) ==
  /\ At(j, "inspect")
  /\ \E sees \in {NoEntry, manifest[c]} :
       LET own == j.record.manifest
           e == Candidate(own, sees)
       IN  /\ Inspected(c, sees)
           /\ IF Disputed(own, e) THEN Throws(c, j)
              ELSE Proceeds(c, j, [j EXCEPT !.seen = e.v])
  /\ UNCHANGED <<file, rec, surroundings, registrations, ended, born>>

ForgetRecent(c, j) ==          \* the recent entries are read and compared
  LET own == j.record.recent
      e == Candidate(own, recent[c])
  IN  /\ At(j, "forget")
      /\ IF Disputed(own, e) THEN Throws(c, j)
         ELSE Proceeds(c, j, [j EXCEPT !.dropped = e, !.asof = clock])
      /\ UNCHANGED <<file, rec, surroundings, registrations, faults, history>>

DropRecent(c, j) ==            \* the list that was read is written without it
  /\ At(j, "unrecent")
  /\ recent' = IF j.dropped.v # 0 THEN [recent EXCEPT ![c] = NoEntry] ELSE recent
  /\ Proceeds(c, j, j)
  /\ UNCHANGED <<file, rec, surroundings, manifest, clock, faults, history>>

(* removeOwnedRegistrations fails at the manifest: the recent entries that    *)
(* were read are written back.                                              *)
PutBack(c, j) ==
  /\ Throws(c, j)
  /\ recent' = IF j.dropped.v # 0 THEN [recent EXCEPT ![c] = j.dropped] ELSE recent

Unregister(c, j) ==            \* removeWorkspaceRegistration looks again
  /\ At(j, "unregister")
  /\ IF j.seen # 0 /\ manifest[c].v # j.record.manifest.registered
     THEN PutBack(c, j)
     ELSE Proceeds(c, j, [j EXCEPT !.asof = clock]) /\ UNCHANGED recent
  /\ UNCHANGED <<file, rec, surroundings, manifest, clock, faults, history>>

(* ecc deletes by workspaceId: the entry that was compared, that entry as     *)
(* edited since, or none if the id is gone, which it may refuse.             *)
DeleteEntry(c, j) ==
  /\ At(j, "delete")
  /\ \/ /\ manifest' = IF j.seen # 0 THEN [manifest EXCEPT ![c] = NoEntry] ELSE manifest
        /\ Proceeds(c, j, j)
        /\ UNCHANGED recent
     \/ /\ j.seen # 0 /\ manifest[c].v # j.record.manifest.registered
        /\ PutBack(c, j)
        /\ UNCHANGED manifest
  /\ UNCHANGED <<file, rec, surroundings, clock, faults, history>>

Remove(c, j) ==                \* rm, then records.delete
  /\ At(j, "remove")
  /\ file' = [file EXCEPT ![c] = None] /\ rec' = [rec EXCEPT ![c] = None]
  /\ ended' = [ended EXCEPT ![c] = IF j.op = "abandon" THEN "abandoned"
                                   ELSE "completed"]
  /\ Proceeds(c, j, j)
  /\ UNCHANGED <<surroundings, registrations, faults, born, blind>>

StepFails(c, j) ==             \* a write, a CLI call, an unreadable manifest
  /\ j.steps # <<>> /\ faults < MaxFaults
  /\ faults' = faults + 1
  /\ IF At(j, "unregister") \/ At(j, "delete") THEN PutBack(c, j)
     ELSE Throws(c, j) /\ UNCHANGED recent
  /\ UNCHANGED <<file, rec, surroundings, manifest, clock, history>>

-----------------------------------------------------------------------------
(* Crash and restart *)

Crash ==
  /\ app # "down" /\ faults < MaxFaults
  /\ faults' = faults + 1
  /\ app' = "down" /\ loaded' = {} /\ invalid' = {}
  /\ rec' = [c \in Creations |-> None]
  /\ job' = [c \in Creations |-> {}]
  /\ UNCHANGED <<file, dir, registrations, edits, history>>

Restart == /\ app = "down" /\ app' = "loading"
           /\ UNCHANGED <<file, rec, job, loaded, invalid, dir, registrations, edits,
                          faults, history>>

(* isUnambiguouslyComplete and workspaceCreationIdentityMatches *)
Registered(own, e) == /\ e.v # 0
                      /\ IF own.registered # 0 THEN e.v = own.registered
                         ELSE own.before = 0
IsComplete(c, sees) ==
  /\ dir[c] = "complete" \/ (dir[c] = "changed" /\ ~file[c].known)
  /\ Registered(file[c].manifest, sees)
  /\ Registered(file[c].recent, recent[c])

Unread(c) == app = "loading" /\ c \notin loaded /\ file[c] # None

LoadRemoves(c) ==              \* of a recovered or completed creation
  /\ file' = [file EXCEPT ![c] = None]
  /\ ended' = [ended EXCEPT ![c] = "recovered"]
  /\ loaded' = loaded \union {c}
  /\ UNCHANGED rec

LoadKeeps(c) ==                \* as unfinished
  /\ rec' = [rec EXCEPT ![c] = file[c]]
  /\ loaded' = loaded \union {c}
  /\ UNCHANGED <<file, ended>>

LoadCompleted(c) ==
  /\ Unread(c) /\ file[c].stage = 4
  /\ LoadRemoves(c)
  /\ UNCHANGED <<job, app, invalid, dir, registrations, edits, faults, born, blind>>

LoadMarks(c) ==                \* Application exited during creation
  /\ Unread(c) /\ file[c].stage < 4 /\ file[c].active
  /\ file' = [file EXCEPT ![c].active = FALSE]
  /\ UNCHANGED <<rec, job, surroundings, registrations, faults, history>>

LoadDecides(c) ==
  /\ Unread(c) /\ file[c].stage < 4 /\ ~file[c].active
  /\ \/ \E sees \in {NoEntry, manifest[c]} :
          /\ Inspected(c, sees)
          /\ IF IsComplete(c, sees) THEN LoadRemoves(c) ELSE LoadKeeps(c)
     \/ /\ faults < MaxFaults /\ faults' = faults + 1    \* an inspection or the rm fails
        /\ LoadKeeps(c)
        /\ UNCHANGED blind
  /\ UNCHANGED <<job, app, invalid, dir, registrations, edits, born>>

(* The file cannot be read, authorized, written or removed: it stays as it    *)
(* is, and its creation is on the list of the invalid ones.                  *)
LoadFails(c) ==
  /\ Unread(c) /\ faults < MaxFaults
  /\ faults' = faults + 1
  /\ invalid' = invalid \union {c} /\ loaded' = loaded \union {c}
  /\ UNCHANGED <<file, rec, job, app, dir, registrations, edits, history>>

Initialized ==
  /\ app = "loading" /\ \A c \in Creations : ~Unread(c)
  /\ app' = "up"
  /\ loaded' = Creations
  /\ UNCHANGED <<file, rec, job, invalid, dir, registrations, edits, faults, history>>

-----------------------------------------------------------------------------
Step(c, j) == \/ Capture(c, j) \/ Journal(c, j) \/ Created(c, j) \/ Unfinished(c, j)
              \/ ConfirmManifest(c, j) \/ ConfirmRecent(c, j) \/ NoEvidence(c, j)
              \/ Advance(c, j) \/ InspectOwned(c, j) \/ ForgetRecent(c, j)
              \/ DropRecent(c, j) \/ Unregister(c, j) \/ DeleteEntry(c, j) \/ Remove(c, j)

Load(c) == LoadCompleted(c) \/ LoadMarks(c) \/ LoadDecides(c)

Next == \/ \E c \in Creations :
             \/ EccBuilds(c) \/ UserWorks(c) \/ ManifestEdited(c) \/ RecentEdited(c)
             \/ \E o \in Operations : Start(c, o)
             \/ \E j \in job[c] : Step(c, j) \/ StepFails(c, j)
             \/ Load(c) \/ LoadFails(c)
        \/ Crash \/ Restart \/ Initialized

Spec == Init /\ [][Next]_vars

(* The application is started again, loads its files and finishes what it    *)
(* starts; the user goes on choosing Continue where it is offered.           *)
LiveSpec == /\ Spec
            /\ WF_vars(Restart) /\ WF_vars(Initialized)
            /\ \A c \in Creations : /\ WF_vars(Load(c))
                                    /\ WF_vars(\E j \in job[c] : Step(c, j))
                                    /\ SF_vars(Start(c, "continue"))

-----------------------------------------------------------------------------
Records == Record \union {None}

(* The type invariant: every variable keeps its shape, and the evidence that  *)
(* isCreationJournalRecord demands at the next start is in every file.        *)
TypeOK == /\ file \in [Creations -> Records] /\ rec \in [Creations -> Records]
          /\ job \in [Creations -> SUBSET Job]
          /\ app \in {"down", "loading", "up"} /\ loaded \subseteq Creations
          /\ invalid \subseteq Creations
          /\ dir \in [Creations -> {"none", "partial", "complete", "changed"}]
          /\ manifest \in [Creations -> Entry] /\ recent \in [Creations -> Entry]
          /\ clock \in Nat /\ edits \in 0..MaxEdits /\ faults \in 0..MaxFaults
          /\ ended \in [Creations -> {"open", "completed", "recovered", "abandoned"}]
          /\ born \in [Creations -> Nat] /\ blind \in [Creations -> BOOLEAN]
          /\ \A c \in Creations : file[c] # None =>
               /\ file[c].stage >= 2 => file[c].manifest.registered # 0
               /\ file[c].stage >= 3 => file[c].recent.registered # 0

(* A crash at any moment loses nothing the journal knows: what the service    *)
(* holds in memory is what the file says, and once the service is up, every    *)
(* file is in memory or, if this start could not deal with it, on the list of  *)
(* the invalid ones, its content kept for the next start.                    *)
JournalIsDurable ==
  \A c \in Creations :
    /\ rec[c] # None => file[c] = rec[c]
    /\ app = "up" => (file[c] # None => rec[c] # None \/ c \in invalid)
    /\ c \in invalid => file[c] # None /\ rec[c] = None

(* A journal never falls behind: its stage never decreases, and a creation    *)
(* marked unfinished (crash, Force Quit) never becomes active again, whatever  *)
(* actions of the creating window were queued behind the mark.               *)
JournalNeverGoesBack ==
  [][\A c \in Creations :
       file[c] # None /\ file'[c] # None =>
         file[c].stage <= file'[c].stage /\ (file'[c].active => file[c].active)]_vars

(* Abandoning removes no entry that is older than the creation, and only the  *)
(* entry that the journal on disk recorded or one that replaced it between the *)
(* comparison and the removal, which the code does not tell apart.  Of the     *)
(* manifest this is not claimed if the journal could not read it when it began.*)
AbandonKeepsOlder ==
  [][\A c \in Creations : \A j \in job[c] \ job'[c] :
       /\ At(j, "delete") /\ manifest[c].v # 0 /\ manifest'[c].v = 0 /\ ~blind[c]
          => /\ manifest[c].v > born[c]
             /\ manifest[c].v = file[c].manifest.registered \/ manifest[c].v > j.asof
       /\ At(j, "unrecent") /\ recent[c].v # 0 /\ recent'[c].v = 0
          => /\ recent[c].v > born[c]
             /\ recent[c].v = file[c].recent.registered \/ recent[c].v > j.asof]_vars

(* Nothing is left over: when the journal of an abandoned creation is gone,   *)
(* so are the registrations it made, over every crash and retry on the way.   *)
AbandonCleans ==
  [][\A c \in Creations :
       ended[c] = "open" /\ ended'[c] = "abandoned" /\ ~blind[c] =>
         /\ file[c].manifest.before = 0 => manifest'[c].by # "journal"
         /\ file[c].recent.before = 0 => recent'[c].by # "journal"]_vars

(* An unfinished creation can always be finished: its user who keeps choosing *)
(* Continue gets it recovered, as long as the Workspace is not changed and no  *)
(* start fails to load its journal: after that it waits for the next start.    *)
ContinueRecovers ==
  \A c \in Creations :
    (file[c] # None /\ ~file[c].active /\ dir[c] = "complete")
      ~> (ended[c] # "open" \/ dir[c] = "changed" \/ c \in invalid)
=============================================================================
