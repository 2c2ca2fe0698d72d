---------------------------- MODULE ResourceFiles ----------------------------
(* One tool on disk, under ResourceManagerService: the archives it is         *)
(* downloaded to, the directory of each of its versions and its entry in the  *)
(* manifest.  An install (installTool) prepares and resumes a download,        *)
(* verifies and extracts it, replaces the directory with a rollback and        *)
(* registers it under the manifest lock.  An uninstall and an import may run   *)
(* beside it, the user may cancel it, and the application may crash between    *)
(* any two file operations.  ResourceInstall says who runs an install and      *)
(* when; here at most one runs, as runShared has it.                           *)
EXTENDS Naturals

CONSTANTS Versions,    \* versions of the tool in the registry, with their locks
          NoVersion,   \* no entry in the manifest
          External,    \* an entry for an imported directory, not managed
          MaxEvents    \* bound: faults, crashes, cancellations, uninstalls, imports

ASSUME FilesAssumption == /\ NoVersion \notin Versions
                          /\ External \notin Versions \union {NoVersion}
                          /\ MaxEvents \in Nat

VARIABLES
  dir,       \* dir[v]: what is in toolsDir/name/v
  entry,     \* manifest.installed[resourceId], as it is on disk
  part,      \* part[v]: the resumable download of v
  left,      \* left[v]: complete archives of v that earlier installs left behind
  op,        \* the install in progress
  un,        \* the version an uninstall is removing, with the manifest lock
  damaged,   \* history: versions whose directory a known weakness has hit
  events     \* how many events of the bound have happened

files == <<dir, entry, part, left>>
vars  == <<dir, entry, part, left, op, un, damaged, events>>

Directory == {"none", "torn", "good"}        \* torn: removed in part
Complete  == {"good", "bad"}                 \* bad: its checksum does not match
Archive   == {"none", "some", "mixed"} \union Complete  \* mixed: a wrong prefix
Entries   == Versions \union {NoVersion, External}

Steps == {"none", "prepare", "download", "verify", "extract", "staged",
          "moved", "placed", "locked", "written", "restoring", "undo", "undone"}
Install == [at : Steps,
            of : Versions \union {NoVersion},
            aborted : BOOLEAN,
            arch : Complete \union {"none"},  \* tempArchive
            had : BOOLEAN,                    \* hadPrevious
            backup : Directory,               \* backupPath, once previousMoved
            was : Entries]                    \* originalManifest

Idle == [at |-> "none", of |-> NoVersion, aborted |-> FALSE, arch |-> "none",
         had |-> FALSE, backup |-> "none", was |-> NoVersion]

Happens == /\ events < MaxEvents
           /\ events' = events + 1

(* The steps of replaceDirectoryWithRollback in which the directory of op.of  *)
(* is not, or may no longer be, what the manifest was told.                   *)
Replacing == {"moved", "placed", "locked", "written", "restoring", "undo", "undone"}

(* withManifestLock: who reads and writes the manifest shuts the others out.  *)
Locking == op.at \in {"locked", "written", "restoring"}

(* Mistaken variant: the lock is taken by installs only. *)
InstallsAreIdle == ~Locking
LockIsFree == un = NoVersion /\ ~Locking

Init == /\ dir = [v \in Versions |-> "none"]
        /\ entry = NoVersion
        /\ part = [v \in Versions |-> "none"]
        /\ left \in [Versions -> SUBSET Complete]   \* of older releases too
        /\ op = Idle
        /\ un = NoVersion
        /\ damaged = {}
        /\ events = 0

-----------------------------------------------------------------------------
(* The archive. *)

At(step) == op.at = step /\ ~op.aborted
Goes(step) == op' = [op EXCEPT !.at = step]

(* The finally block removes the archive; a removal that fails is ignored.    *)
Drops == IF op.arch = "none" THEN UNCHANGED left
         ELSE \E kept \in {{}, {op.arch}} : left' = [left EXCEPT ![op.of] = @ \union kept]

Begin(v) ==
  /\ op.at = "none"
  /\ op' = [Idle EXCEPT !.at = "prepare", !.of = v]
  /\ UNCHANGED <<files, un, damaged, events>>

(* Prepare: a download that was interrupted is resumed; else an archive that  *)
(* still matches the lock takes its place, unless it cannot be read or moved. *)
(* All other archives are removed, as far as they can be.                     *)
Resumed(v) ==
  IF part[v] # "none" THEN {part[v]}
  ELSE {"none"} \union (left[v] \intersect {"good"})

Prepare ==
  /\ At("prepare")
  /\ \E p \in Resumed(op.of), l \in SUBSET left[op.of] :
       /\ part' = [part EXCEPT ![op.of] = p]
       /\ left' = [left EXCEPT ![op.of] = l]
  /\ Goes("download")
  /\ UNCHANGED <<dir, entry, un, damaged, events>>

(* An attempt that succeeds: a complete file is answered with 416 and kept    *)
(* (the registry or the answer has its size); otherwise the rest is appended, *)
(* or all of it sent if the server ignores the range.                         *)
Completed(p) == IF p \in Complete THEN {p}
                ELSE IF p = "mixed" THEN {"bad", "good"} ELSE {"good"}

(* Mistaken variant: the archive is verified where it was downloaded. *)
TakeArchiveInPlace(v, a) ==
  /\ part' = [part EXCEPT ![v] = a]
  /\ op' = [op EXCEPT !.at = "verify", !.arch = a]

(* rename(partialArchive, tempArchive) follows at once: whatever the checksum *)
(* says of this archive, the next attempt does not meet it again.             *)
TakeArchive(v, a) ==
  /\ part' = [part EXCEPT ![v] = "none"]
  /\ op' = [op EXCEPT !.at = "verify", !.arch = a]

Downloaded ==
  /\ At("download")
  /\ \E a \in Completed(part[op.of]) : TakeArchive(op.of, a)
  /\ UNCHANGED <<dir, entry, left, un, damaged, events>>

(* The server sends something else than the lock was made for. *)
DownloadedWrong ==
  /\ At("download") /\ Happens
  /\ TakeArchive(op.of, "bad")
  /\ UNCHANGED <<dir, entry, left, un, damaged>>

-----------------------------------------------------------------------------
(* What an attempt that breaks off leaves to be resumed. *)
Broken(p) == CASE p \in Complete -> {p}
               [] p = "mixed"    -> Archive \ {"none"}
               [] OTHER          -> Archive     \* too long: as if it were "none"

BreaksOff ==                   \* the end of an install at any step
  IF op.at # "download" THEN UNCHANGED part
  ELSE \E p \in Broken(part[op.of]) : part' = [part EXCEPT ![op.of] = p]

(* Failed: everything the install made for itself is removed. *)
Fails ==
  /\ op' = Idle
  /\ Drops

(* The attempt is repeated, repeated from nothing at the mirror, or the last. *)
DownloadBreaks ==
  /\ At("download") /\ Happens
  /\ \E p \in Broken(part[op.of]) \union {"none"} :
       part' = [part EXCEPT ![op.of] = p]
  /\ Fails \/ UNCHANGED <<op, left>>
  /\ UNCHANGED <<dir, entry, un, damaged>>

Verified ==
  /\ At("verify") /\ op.arch = "good"
  /\ Goes("extract")
  /\ UNCHANGED <<files, un, damaged, events>>

VerificationFails ==
  /\ At("verify") /\ op.arch = "bad"
  /\ Fails
  /\ UNCHANGED <<dir, entry, part, un, damaged, events>>

Extracted ==                   \* hadPrevious is read here
  /\ At("extract")
  /\ op' = [op EXCEPT !.at = "staged", !.had = dir[op.of] # "none"]
  /\ UNCHANGED <<files, un, damaged, events>>

(* Extraction or the health check of the tool fails. *)
ExtractionFails ==
  /\ At("extract") /\ Happens
  /\ Fails
  /\ UNCHANGED <<dir, entry, part, un, damaged>>

(* Every await before the replacement is followed by throwIfAborted. *)
AbortsEarly ==
  /\ op.aborted /\ op.at \in {"prepare", "download", "verify", "extract", "staged"}
  /\ BreaksOff
  /\ Fails
  /\ UNCHANGED <<dir, entry, un, damaged, events>>

-----------------------------------------------------------------------------
(* The directory: replaceDirectoryWithRollback. *)

(* An uninstall that removes the directory while it is replaced. *)
Hits(v, s) == IF un = v /\ s \in Replacing THEN {v} ELSE {}

MovePrevious ==
  /\ At("staged") /\ op.had /\ dir[op.of] # "none"
  /\ dir' = [dir EXCEPT ![op.of] = "none"]
  /\ op' = [op EXCEPT !.at = "moved", !.backup = dir[op.of]]
  /\ damaged' = damaged \union Hits(op.of, "moved")
  /\ UNCHANGED <<entry, part, left, un, events>>

PreviousIsGone ==              \* the rename fails: it was uninstalled meanwhile
  /\ At("staged") /\ op.had /\ dir[op.of] = "none"
  /\ Fails
  /\ UNCHANGED <<dir, entry, part, un, damaged, events>>

Place ==
  /\ At("moved") \/ (At("staged") /\ ~op.had)
  /\ dir' = [dir EXCEPT ![op.of] = "good"]
  /\ Goes("placed")
  /\ damaged' = damaged \union Hits(op.of, "placed")
  /\ UNCHANGED <<entry, part, left, un, events>>

ReplaceFails ==                \* a rename fails
  /\ At("moved") \/ At("staged")
  /\ Happens
  /\ Goes("undone")
  /\ UNCHANGED <<files, un, damaged>>

(* mutateManifest: the lock, the manifest as it is, and the new one. *)
LockManifest ==
  /\ At("placed") /\ LockIsFree
  /\ op' = [op EXCEPT !.at = "locked", !.was = entry]
  /\ UNCHANGED <<files, un, damaged, events>>

WriteManifest ==
  /\ At("locked")
  /\ entry' = op.of
  /\ Goes("written")
  /\ UNCHANGED <<dir, part, left, un, damaged, events>>

WriteFails ==
  /\ At("locked") /\ Happens
  /\ Goes("undo")
  /\ UNCHANGED <<files, un, damaged>>

Committed ==
  /\ At("written")
  /\ op' = Idle
  /\ Drops
  /\ UNCHANGED <<dir, entry, part, un, damaged, events>>

AbortsInPlace ==
  /\ op.aborted
  /\ \/ op.at = "moved" /\ Goes("undone")
     \/ op.at \in {"placed", "locked"} /\ Goes("undo")
     \/ op.at = "written" /\ Goes("restoring")
  /\ UNCHANGED <<files, un, damaged, events>>

RestoreManifest ==
  /\ op.at = "restoring"
  /\ entry' = op.was
  /\ Goes("undo")
  /\ UNCHANGED <<dir, part, left, un, damaged, events>>

(* Mistaken variant: this error is rolled back like any other. *)
UndoPlaced == Goes("undo") /\ UNCHANGED <<files, un, damaged>>

(* ResourceMetadataRestoreError: the entry stays, and so does the directory.  *)
KeepPlaced == Fails /\ UNCHANGED <<dir, entry, part, un, damaged>>

RestoreFails ==
  /\ op.at = "restoring" /\ Happens
  /\ KeepPlaced

RemovePlaced ==
  /\ op.at = "undo"
  /\ dir' = [dir EXCEPT ![op.of] = "none"]
  /\ Goes("undone")
  /\ UNCHANGED <<entry, part, left, un, damaged, events>>

RestorePrevious ==
  /\ op.at = "undone"
  /\ IF op.backup = "none" THEN UNCHANGED dir
     ELSE dir' = [dir EXCEPT ![op.of] = op.backup]
  /\ Fails
  /\ UNCHANGED <<entry, part, un, damaged, events>>

RollbackFails ==
  /\ op.at \in {"undo", "undone"} /\ Happens
  /\ \/ op.at = "undone" /\ UNCHANGED dir
     \/ op.at = "undo" /\ dir' = [dir EXCEPT ![op.of] = "torn"]
  /\ damaged' = damaged \union {op.of}
  /\ Fails
  /\ UNCHANGED <<entry, part, un>>

-----------------------------------------------------------------------------
(* The others. *)

Cancel ==                      \* too late once it is committed
  /\ op.at # "none" /\ ~op.aborted /\ Happens
  /\ op' = [op EXCEPT !.aborted = TRUE]
  /\ UNCHANGED <<files, un, damaged>>

Import ==                      \* importToolPath
  /\ LockIsFree /\ Happens
  /\ entry' = External
  /\ UNCHANGED <<dir, part, left, op, un, damaged>>

Forget ==                      \* uninstall of what is not managed
  /\ entry = External /\ LockIsFree /\ Happens
  /\ entry' = NoVersion
  /\ UNCHANGED <<dir, part, left, op, un, damaged>>

BeginUninstall(v) ==           \* rm, under the manifest lock
  /\ entry = v /\ LockIsFree /\ Happens
  /\ un' = v
  /\ dir' = [dir EXCEPT ![v] = IF @ = "none" THEN "none" ELSE "torn"]
  /\ damaged' = damaged \union (IF op.at \in Replacing THEN {op.of} \intersect {v}
                                ELSE {})
  /\ UNCHANGED <<entry, part, left, op>>

FinishUninstall ==
  /\ un # NoVersion
  /\ \E d \in IF dir[un] = "good" THEN Directory ELSE {"none"} :
       dir' = [dir EXCEPT ![un] = d]
  /\ entry' = NoVersion
  /\ un' = NoVersion
  /\ UNCHANGED <<part, left, op, damaged, events>>

UninstallFails ==              \* the removal or the write of the manifest
  /\ un # NoVersion /\ Happens
  /\ damaged' = damaged \union {un}
  /\ un' = NoVersion
  /\ UNCHANGED <<files, op>>

(* A crash leaves the archive and the partial download to the next install;   *)
(* the backup and the staged directory are never looked at again.             *)
Crash ==
  /\ op.at # "none" \/ un # NoVersion
  /\ Happens
  /\ op' = Idle
  /\ un' = NoVersion
  /\ left' = IF op.arch = "none" THEN left
             ELSE [left EXCEPT ![op.of] = @ \union {op.arch}]
  /\ BreaksOff
  /\ damaged' = damaged \union ({un} \ {NoVersion})
       \union (IF op.at \in {"moved", "undo", "undone"} THEN {op.of} ELSE {})
  /\ UNCHANGED <<dir, entry>>

-----------------------------------------------------------------------------
InstallStep == \/ Prepare \/ Downloaded \/ Verified \/ VerificationFails
               \/ Extracted \/ AbortsEarly \/ MovePrevious \/ PreviousIsGone
               \/ Place \/ LockManifest \/ WriteManifest \/ Committed
               \/ AbortsInPlace \/ RestoreManifest \/ RemovePlaced
               \/ RestorePrevious

Fault == \/ DownloadedWrong \/ DownloadBreaks \/ ExtractionFails \/ ReplaceFails
         \/ WriteFails \/ RestoreFails \/ RollbackFails \/ UninstallFails \/ Crash

Next == \/ InstallStep \/ Fault \/ Cancel \/ Import \/ Forget \/ FinishUninstall
        \/ \E v \in Versions : Begin(v) \/ BeginUninstall(v)

Spec == Init /\ [][Next]_vars

(* File operations and requests end; the user installs each version again     *)
(* and again.                                                                 *)
LiveSpec == /\ Spec
            /\ WF_vars(InstallStep)
            /\ WF_vars(FinishUninstall)
            /\ \A v \in Versions : SF_vars(Begin(v))

-----------------------------------------------------------------------------
(* The type invariant: every variable keeps its shape, and the lock has one   *)
(* holder.                                                                    *)
TypeOK == /\ dir \in [Versions -> Directory]
          /\ entry \in Entries
          /\ part \in [Versions -> Archive]
          /\ left \in [Versions -> SUBSET Complete]
          /\ op \in Install
          /\ un \in Versions \union {NoVersion}
          /\ Locking => un = NoVersion
          /\ damaged \subseteq Versions
          /\ events \in 0..MaxEvents

(* A version that the manifest registers is there in full, verified against   *)
(* its lock, through cancellations, failed writes and their rollbacks, and     *)
(* crashes; while its directory is being replaced the previous one is kept to  *)
(* be put back.  (Not claimed from a crash between the two renames, a rollback *)
(* or an uninstall that failed half-way, or an uninstall during a replacement.) *)
RegisteredIsInPlace ==
  entry \in Versions \ damaged =>
    \/ dir[entry] = "good"
    \/ un = entry
    \/ op.of = entry /\ op.at \in {"moved", "undone"} /\ op.backup = "good"

(* Nothing an interrupted, cancelled or failed install leaves behind keeps     *)
(* later ones from succeeding: who goes on asking for a version gets it.       *)
RetryInstalls ==
  \A v \in Versions : []<>(entry = v /\ dir[v] = "good")
=============================================================================
