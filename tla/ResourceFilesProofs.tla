-------------------------- MODULE ResourceFilesProofs --------------------------
(***************************************************************************)
(* Proofs about ResourceFiles, for any number of versions, faults, crashes *)
(* and uninstalls: what the manifest registers is in place or is kept to   *)
(* be put back, only what was verified is placed, and a retry does not     *)
(* resume what failed.                                                     *)
(***************************************************************************)
EXTENDS ResourceFiles, TLAPS

Early    == {"prepare", "download", "verify", "extract", "staged"}
Standing == {"placed", "locked", "written", "restoring", "undo"}
Owned    == op.of \notin damaged          \* nothing has hit the directory of op.of
Again(e) == e = op.of /\ Owned            \* e is the version being installed

InstallIsNamed == /\ op.at # "none" => op.of \in Versions
                  /\ op.at \in Early => op.backup = "none"

(* Who removes a version holds the lock, so it stays registered until then. *)
UninstallsEntry == un # NoVersion => entry = un

(* What has been put in place stays there until it is removed.              *)
PlacedIsGood ==
  /\ op.at \in Standing /\ Owned => dir[op.of] = "good"
  /\ op.at \in Standing \union {"moved"} /\ Owned => un # op.of

(* A version that is installed again has its previous directory as backup;  *)
(* it had none only if an uninstall has taken it.                           *)
BackupIsKept ==
  /\ op.at = "staged" /\ ~op.had /\ Again(entry) => un = op.of
  /\ op.at \in {"moved", "placed", "locked", "undo"} /\ Again(entry) => op.backup = "good"
  /\ op.at = "undone" /\ Again(entry) => op.backup \in {"none", "good"}
  /\ Locking /\ Again(op.was) => op.backup = "good"

(* The entry that would be restored is in place too.                        *)
FormerIsGood ==
  Locking /\ op.was \in Versions \ (damaged \union {op.of}) => dir[op.was] = "good"

Kept == /\ InstallIsNamed /\ UninstallsEntry /\ PlacedIsGood /\ BackupIsKept
        /\ FormerIsGood /\ RegisteredIsInPlace
IInv == TypeOK /\ Kept

-----------------------------------------------------------------------------
LEMMA InitIInv == Init => IInv
  <1> SUFFICES ASSUME Init PROVE IInv  OBVIOUS
  <1>1. TypeOK
    BY FilesAssumption DEF Init, TypeOK, Idle, Install, Steps, Entries, Directory, Complete,
       Archive, Locking
  <1>2. Kept
    BY FilesAssumption DEF Init, Idle, Kept, InstallIsNamed, UninstallsEntry, PlacedIsGood,
       BackupIsKept, FormerIsGood, RegisteredIsInPlace, Locking, Early, Standing
  <1> QED  BY <1>1, <1>2 DEF IInv

LEMMA DropsType == TypeOK /\ Drops => left' \in [Versions -> SUBSET Complete]
  BY DEF TypeOK, Drops, Install

LEMMA BreaksOffType == TypeOK /\ BreaksOff => part' \in [Versions -> Archive]
  BY DEF TypeOK, BreaksOff, Broken, Archive, Complete

(* What the steps of an install make of the record op.                      *)
LEMMA GoesType ==
  ASSUME TypeOK, NEW s \in Steps, op' = [op EXCEPT !.at = s]
  PROVE  op' \in Install /\ op'.at = s /\ op'.of = op.of /\ op'.backup = op.backup
  BY DEF TypeOK, Install

LEMMA IdleType == Idle \in Install
  BY DEF Idle, Install, Steps, Entries, Complete, Directory

LEMMA ArchiveTypes ==
  /\ Complete \subseteq Archive /\ "none" \in Archive
  /\ \A p \in Archive : Completed(p) \subseteq Complete /\ Broken(p) \subseteq Archive
  BY DEF Complete, Archive, Completed, Broken

LEMMA EventsType ==
  /\ TypeOK /\ Happens => events' \in 0..MaxEvents
  /\ TypeOK /\ UNCHANGED events => events' \in 0..MaxEvents
  BY FilesAssumption DEF TypeOK, Happens

-----------------------------------------------------------------------------
(* Up to the staged directory: the archive *)

Waiting == {"prepare", "download", "verify", "extract"}

(* Until a directory is staged an install touches nothing that is registered. *)
LEMMA ArchiveStep ==
  ASSUME IInv, op.at \in Early \union {"none"}, UNCHANGED <<dir, entry, un, damaged>>,
         op' \in Install,
         op' = Idle \/ (op'.at \in Waiting /\ op'.of \in Versions /\ op'.backup = "none"),
         part' \in [Versions -> Archive], left' \in [Versions -> SUBSET Complete],
         Happens \/ UNCHANGED events
  PROVE  IInv'
  <1>1. TypeOK'
    BY EventsType DEF IInv, TypeOK, Locking, Waiting, Idle
  <1>2. Kept'
    BY DEF IInv, Kept, InstallIsNamed, UninstallsEntry, PlacedIsGood, BackupIsKept,
       FormerIsGood, RegisteredIsInPlace, Early, Standing, Locking, Waiting, Idle
  <1> QED  BY <1>1, <1>2 DEF IInv

LEMMA BeginIInv ==
  ASSUME IInv, NEW v \in Versions, Begin(v)
  PROVE  IInv'
  <1>1. op' \in Install /\ op'.at = "prepare" /\ op'.of = v /\ op'.backup = "none"
    BY IdleType DEF Begin, Idle, Install, Steps
  <1> QED  BY <1>1, ArchiveStep DEF IInv, TypeOK, Begin, files, Waiting

LEMMA PrepareIInv ==
  ASSUME IInv, Prepare
  PROVE  IInv'
  <1>1. PICK p \in Resumed(op.of), l \in SUBSET left[op.of] :
           /\ part' = [part EXCEPT ![op.of] = p]
           /\ left' = [left EXCEPT ![op.of] = l]
    BY DEF Prepare
  <1>2. op.at = "prepare" /\ op.of \in Versions /\ op.backup = "none" /\ TypeOK
    BY DEF IInv, Prepare, At, Kept, InstallIsNamed, Early
  <1>3. part' \in [Versions -> Archive] /\ left' \in [Versions -> SUBSET Complete]
    BY <1>1, <1>2, ArchiveTypes DEF Resumed, TypeOK
  <1>4. op' \in Install /\ op'.at = "download" /\ op'.of = op.of /\ op'.backup = op.backup
    BY <1>2, GoesType DEF Prepare, Goes, Steps
  <1> QED  BY <1>2, <1>3, <1>4, ArchiveStep DEF Prepare, Early, Waiting

LEMMA DownloadedIInv ==
  ASSUME IInv, Downloaded \/ DownloadedWrong
  PROVE  IInv'
  <1>1. op.at = "download" /\ op.of \in Versions /\ op.backup = "none" /\ TypeOK
    BY DEF IInv, Downloaded, DownloadedWrong, At, Kept, InstallIsNamed, Early
  <1>2. PICK a \in Complete : TakeArchive(op.of, a)
    BY <1>1, ArchiveTypes DEF Downloaded, DownloadedWrong, TypeOK, Complete
  <1>3. /\ part' \in [Versions -> Archive]
        /\ op' \in Install /\ op'.at = "verify" /\ op'.of = op.of /\ op'.backup = op.backup
    BY <1>1, <1>2, ArchiveTypes DEF TakeArchive, TypeOK, Install, Steps
  <1>4. UNCHANGED <<dir, entry, left, un, damaged>> /\ (Happens \/ UNCHANGED events)
    BY DEF Downloaded, DownloadedWrong
  <1> QED  BY <1>1, <1>3, <1>4, ArchiveStep DEF Early, Waiting, TypeOK

LEMMA DownloadBreaksIInv ==
  ASSUME IInv, DownloadBreaks
  PROVE  IInv'
  <1>1. op.at = "download" /\ op.of \in Versions /\ op.backup = "none" /\ TypeOK
    BY DEF IInv, DownloadBreaks, At, Kept, InstallIsNamed, Early
  <1>2. PICK p \in Broken(part[op.of]) \union {"none"} : part' = [part EXCEPT ![op.of] = p]
    BY DEF DownloadBreaks
  <1>3. part' \in [Versions -> Archive]
    BY <1>1, <1>2, ArchiveTypes DEF TypeOK
  <1>4. op' \in Install /\ left' \in [Versions -> SUBSET Complete] /\ (op' = Idle \/ op' = op)
    BY <1>1, DropsType, IdleType DEF DownloadBreaks, Fails, TypeOK
  <1> QED  BY <1>1, <1>3, <1>4, ArchiveStep DEF DownloadBreaks, Early, Waiting

LEMMA VerifiedIInv ==
  ASSUME IInv, Verified
  PROVE  IInv'
  <1>1. op.at = "verify" /\ op.of \in Versions /\ op.backup = "none" /\ TypeOK
    BY DEF IInv, Verified, At, Kept, InstallIsNamed, Early
  <1>2. op' \in Install /\ op'.at = "extract" /\ op'.of = op.of /\ op'.backup = op.backup
    BY <1>1, GoesType DEF Verified, Goes, Steps
  <1> QED  BY <1>1, <1>2, ArchiveStep DEF Verified, files, TypeOK, Early, Waiting

(* An install that ends before the replacement leaves at most archives.     *)
LEMMA FailsEarlyIInv ==
  ASSUME IInv, VerificationFails \/ ExtractionFails \/ AbortsEarly \/ PreviousIsGone
  PROVE  IInv'
  <1>1. /\ TypeOK /\ op.at \in Early /\ op' = Idle /\ Drops
        /\ UNCHANGED <<dir, entry, un, damaged>> /\ (Happens \/ UNCHANGED events)
    BY DEF IInv, VerificationFails, ExtractionFails, AbortsEarly, PreviousIsGone, At, Early, Fails
  <1>2. part' \in [Versions -> Archive]
    BY <1>1, BreaksOffType
    DEF VerificationFails, ExtractionFails, AbortsEarly, PreviousIsGone, TypeOK
  <1> QED  BY <1>1, <1>2, DropsType, IdleType, ArchiveStep

-----------------------------------------------------------------------------
(* The replacement *)

LEMMA ExtractedIInv ==
  ASSUME IInv, Extracted
  PROVE  IInv'
  <1>1. TypeOK'
    BY DEF IInv, Extracted, TypeOK, Install, Steps, Locking, At, files
  <1>2. Kept'
    BY DEF IInv, Extracted, Kept, InstallIsNamed, UninstallsEntry, PlacedIsGood,
       BackupIsKept, FormerIsGood, RegisteredIsInPlace, Early, Standing, Owned, Again,
       Locking, At, files, TypeOK, Install
  <1> QED  BY <1>1, <1>2 DEF IInv

LEMMA MovePreviousIInv ==
  ASSUME IInv, MovePrevious
  PROVE  IInv'
  <1>1. TypeOK'
    <2>1. TypeOK /\ op.of \in Versions /\ dir[op.of] \in Directory
      BY DEF IInv, MovePrevious, At, Kept, InstallIsNamed, TypeOK
    <2>2. op' \in Install /\ op'.at = "moved"
      BY <2>1 DEF MovePrevious, TypeOK, Install, Steps
    <2>3. dir' \in [Versions -> Directory] /\ damaged' \subseteq Versions
      BY <2>1 DEF MovePrevious, TypeOK, Directory, Hits
    <2> QED  BY <2>1, <2>2, <2>3 DEF MovePrevious, TypeOK, Locking
  <1>2. Kept'
    BY DEF IInv, MovePrevious, Kept, InstallIsNamed, UninstallsEntry, PlacedIsGood,
       BackupIsKept, FormerIsGood, RegisteredIsInPlace, Early, Standing, Owned, Again,
       Locking, Replacing, Hits, At, TypeOK, Install
  <1> QED  BY <1>1, <1>2 DEF IInv

LEMMA PlaceIInv ==
  ASSUME IInv, Place
  PROVE  IInv'
  <1>1. TypeOK'
    <2>1. TypeOK /\ op.of \in Versions
      BY DEF IInv, Place, At, Kept, InstallIsNamed
    <2>2. op' \in Install /\ op'.at = "placed"
      BY <2>1, GoesType DEF Place, Goes, Steps
    <2>3. dir' \in [Versions -> Directory] /\ damaged' \subseteq Versions
      BY <2>1 DEF Place, TypeOK, Directory, Hits
    <2> QED  BY <2>1, <2>2, <2>3 DEF Place, TypeOK, Locking
  <1>2. Kept'
    BY DEF IInv, Place, Kept, InstallIsNamed, UninstallsEntry, PlacedIsGood,
       BackupIsKept, FormerIsGood, RegisteredIsInPlace, Early, Standing, Owned, Again,
       Locking, Replacing, Hits, At, Goes, TypeOK, Install
  <1> QED  BY <1>1, <1>2 DEF IInv

LEMMA ReplaceFailsIInv ==
  ASSUME IInv, ReplaceFails
  PROVE  IInv'
  <1>1. TypeOK'
    BY FilesAssumption DEF IInv, ReplaceFails, TypeOK, Install, Steps, Entries,
       Directory, Complete, Locking, At, Goes, Happens, files
  <1>2. Kept'
    BY DEF IInv, ReplaceFails, Kept, InstallIsNamed, UninstallsEntry, PlacedIsGood,
       BackupIsKept, FormerIsGood, RegisteredIsInPlace, Early, Standing, Owned, Again,
       Locking, At, Goes, files, TypeOK, Install
  <1> QED  BY <1>1, <1>2 DEF IInv

LEMMA LockManifestIInv ==
  ASSUME IInv, LockManifest
  PROVE  IInv'
  <1>1. TypeOK'
    BY DEF IInv, LockManifest, TypeOK, Install, Steps, Locking, At, files, LockIsFree
  <1>2. Kept'
    BY FilesAssumption DEF IInv, LockManifest, Kept, InstallIsNamed, UninstallsEntry,
       PlacedIsGood, BackupIsKept, FormerIsGood, RegisteredIsInPlace, Early, Standing,
       Owned, Again, Locking, At, files, LockIsFree, TypeOK, Install, Entries, Directory
  <1> QED  BY <1>1, <1>2 DEF IInv

LEMMA WriteManifestIInv ==
  ASSUME IInv, WriteManifest
  PROVE  IInv'
  <1>1. TypeOK'
    BY FilesAssumption DEF IInv, WriteManifest, TypeOK, Install, Steps, Entries,
       Directory, Complete, Locking, At, Goes
  <1>2. Kept'
    BY DEF IInv, WriteManifest, Kept, InstallIsNamed, UninstallsEntry, PlacedIsGood,
       BackupIsKept, FormerIsGood, RegisteredIsInPlace, Early, Standing, Owned, Again,
       Locking, At, Goes, TypeOK, Install
  <1> QED  BY <1>1, <1>2 DEF IInv

LEMMA WriteFailsIInv ==
  ASSUME IInv, WriteFails
  PROVE  IInv'
  <1>1. TypeOK'
    BY FilesAssumption DEF IInv, WriteFails, TypeOK, Install, Steps, Entries, Directory,
       Complete, Locking, At, Goes, Happens, files
  <1>2. Kept'
    BY DEF IInv, WriteFails, Kept, InstallIsNamed, UninstallsEntry, PlacedIsGood,
       BackupIsKept, FormerIsGood, RegisteredIsInPlace, Early, Standing, Owned, Again,
       Locking, At, Goes, files, TypeOK, Install
  <1> QED  BY <1>1, <1>2 DEF IInv

LEMMA CommittedIInv ==
  ASSUME IInv, Committed
  PROVE  IInv'
  <1>1. TypeOK'
    BY DropsType DEF IInv, Committed, TypeOK, Install, Steps, Idle, Entries, Directory,
       Complete, Locking, At
  <1>2. Kept'
    BY DEF IInv, Committed, Kept, InstallIsNamed, UninstallsEntry, PlacedIsGood,
       BackupIsKept, FormerIsGood, RegisteredIsInPlace, Early, Standing, Owned, Again,
       Locking, At, Idle, TypeOK, Install
  <1> QED  BY <1>1, <1>2 DEF IInv

LEMMA AbortsInPlaceIInv ==
  ASSUME IInv, AbortsInPlace
  PROVE  IInv'
  <1>1. TypeOK'
    BY DEF IInv, AbortsInPlace, TypeOK, Install, Steps, Locking, Goes, files
  <1>2. Kept'
    BY DEF IInv, AbortsInPlace, Kept, InstallIsNamed, UninstallsEntry, PlacedIsGood,
       BackupIsKept, FormerIsGood, RegisteredIsInPlace, Early, Standing, Owned, Again,
       Locking, Goes, files, TypeOK, Install
  <1> QED  BY <1>1, <1>2 DEF IInv

LEMMA RestoreManifestIInv ==
  ASSUME IInv, RestoreManifest
  PROVE  IInv'
  <1>1. TypeOK'
    BY DEF IInv, RestoreManifest, TypeOK, Install, Steps, Locking, Goes
  <1>2. Kept'
    BY DEF IInv, RestoreManifest, Kept, InstallIsNamed, UninstallsEntry, PlacedIsGood,
       BackupIsKept, FormerIsGood, RegisteredIsInPlace, Early, Standing, Owned, Again,
       Locking, Goes, TypeOK, Install
  <1> QED  BY <1>1, <1>2 DEF IInv

LEMMA RestoreFailsIInv ==
  ASSUME IInv, RestoreFails
  PROVE  IInv'
  <1>1. TypeOK'
    BY FilesAssumption, DropsType DEF IInv, RestoreFails, TypeOK, Install, Steps, Idle,
       Entries, Directory, Complete, Locking, Fails, Happens, KeepPlaced
  <1>2. Kept'
    BY DEF IInv, RestoreFails, Kept, InstallIsNamed, UninstallsEntry, PlacedIsGood,
       BackupIsKept, FormerIsGood, RegisteredIsInPlace, Early, Standing, Owned, Again,
       Locking, Fails, KeepPlaced, Idle, TypeOK, Install
  <1> QED  BY <1>1, <1>2 DEF IInv

LEMMA RemovePlacedIInv ==
  ASSUME IInv, RemovePlaced
  PROVE  IInv'
  <1>1. TypeOK'
    BY FilesAssumption DEF IInv, RemovePlaced, TypeOK, Install, Steps, Entries,
       Directory, Complete, Locking, Goes
  <1>2. Kept'
    BY DEF IInv, RemovePlaced, Kept, InstallIsNamed, UninstallsEntry, PlacedIsGood,
       BackupIsKept, FormerIsGood, RegisteredIsInPlace, Early, Standing, Owned, Again,
       Locking, Goes, TypeOK, Install
  <1> QED  BY <1>1, <1>2 DEF IInv

LEMMA RestorePreviousIInv ==
  ASSUME IInv, RestorePrevious
  PROVE  IInv'
  <1>1. TypeOK'
    BY DropsType DEF IInv, RestorePrevious, TypeOK, Install, Steps, Idle, Entries,
       Directory, Complete, Locking, Fails
  <1>2. Kept'
    BY DEF IInv, RestorePrevious, Kept, InstallIsNamed, UninstallsEntry, PlacedIsGood,
       BackupIsKept, FormerIsGood, RegisteredIsInPlace, Early, Standing, Owned, Again,
       Locking, Fails, Idle, TypeOK, Install
  <1> QED  BY <1>1, <1>2 DEF IInv

LEMMA RollbackFailsIInv ==
  ASSUME IInv, RollbackFails
  PROVE  IInv'
  <1>1. TypeOK'
    <2>1. TypeOK /\ op.of \in Versions
      BY DEF IInv, RollbackFails, Kept, InstallIsNamed
    <2>2. left' \in [Versions -> SUBSET Complete] /\ op' = Idle /\ op' \in Install
      BY <2>1, DropsType, IdleType DEF RollbackFails, Fails
    <2>3. dir' \in [Versions -> Directory] /\ damaged' \subseteq Versions
      BY <2>1 DEF RollbackFails, TypeOK, Directory
    <2> QED  BY <2>1, <2>2, <2>3, EventsType DEF RollbackFails, TypeOK, Locking, Idle
  <1>2. Kept'
    BY DEF IInv, RollbackFails, Kept, InstallIsNamed, UninstallsEntry, PlacedIsGood,
       BackupIsKept, FormerIsGood, RegisteredIsInPlace, Early, Standing, Owned, Again,
       Locking, Fails, Idle, TypeOK, Install
  <1> QED  BY <1>1, <1>2 DEF IInv

-----------------------------------------------------------------------------
(* The others *)

LEMMA CancelIInv ==
  ASSUME IInv, Cancel
  PROVE  IInv'
  <1>1. TypeOK'
    <2>1. TypeOK /\ op' \in Install /\ op'.at = op.at
      BY DEF IInv, Cancel, TypeOK, Install
    <2> QED  BY <2>1, EventsType DEF Cancel, files, TypeOK, Locking
  <1>2. Kept'
    BY DEF IInv, Cancel, Kept, InstallIsNamed, UninstallsEntry, PlacedIsGood,
       BackupIsKept, FormerIsGood, RegisteredIsInPlace, Early, Standing, Owned, Again,
       Locking, files, TypeOK, Install
  <1> QED  BY <1>1, <1>2 DEF IInv

LEMMA ImportIInv ==
  ASSUME IInv, Import
  PROVE  IInv'
  <1>1. TypeOK'
    BY FilesAssumption DEF IInv, Import, TypeOK, Install, Steps, Entries, Directory,
       Complete, Locking, Happens, LockIsFree
  <1>2. Kept'
    BY FilesAssumption DEF IInv, Import, Kept, InstallIsNamed, UninstallsEntry,
       PlacedIsGood, BackupIsKept, FormerIsGood, RegisteredIsInPlace, Early, Standing,
       Owned, Again, Locking, LockIsFree, TypeOK, Install, Entries, Directory
  <1> QED  BY <1>1, <1>2 DEF IInv

LEMMA ForgetIInv ==
  ASSUME IInv, Forget
  PROVE  IInv'
  <1>1. TypeOK'
    BY FilesAssumption DEF IInv, Forget, TypeOK, Install, Steps, Entries, Directory,
       Complete, Locking, Happens, LockIsFree
  <1>2. Kept'
    BY FilesAssumption DEF IInv, Forget, Kept, InstallIsNamed, UninstallsEntry,
       PlacedIsGood, BackupIsKept, FormerIsGood, RegisteredIsInPlace, Early, Standing,
       Owned, Again, Locking, LockIsFree, TypeOK, Install, Entries, Directory
  <1> QED  BY <1>1, <1>2 DEF IInv

LEMMA BeginUninstallIInv ==
  ASSUME IInv, NEW v \in Versions, BeginUninstall(v)
  PROVE  IInv'
  <1>1. TypeOK'
    BY FilesAssumption DEF IInv, BeginUninstall, TypeOK, Install, Steps, Entries,
       Directory, Complete, Locking, Happens, LockIsFree
  <1>2. Kept'
    BY DEF IInv, BeginUninstall, Kept, InstallIsNamed, UninstallsEntry, PlacedIsGood,
       BackupIsKept, FormerIsGood, RegisteredIsInPlace, Early, Standing, Owned, Again,
       Locking, Replacing, LockIsFree, TypeOK, Install
  <1> QED  BY <1>1, <1>2 DEF IInv

LEMMA FinishUninstallIInv ==
  ASSUME IInv, FinishUninstall
  PROVE  IInv'
  <1>1. TypeOK'
    BY FilesAssumption DEF IInv, FinishUninstall, TypeOK, Install, Steps, Entries,
       Directory, Complete, Locking
  <1>2. Kept'
    BY FilesAssumption DEF IInv, FinishUninstall, Kept, InstallIsNamed, UninstallsEntry,
       PlacedIsGood, BackupIsKept, FormerIsGood, RegisteredIsInPlace, Early, Standing,
       Owned, Again, Locking, TypeOK, Install, Entries, Directory
  <1> QED  BY <1>1, <1>2 DEF IInv

LEMMA UninstallFailsIInv ==
  ASSUME IInv, UninstallFails
  PROVE  IInv'
  <1>1. TypeOK'
    BY FilesAssumption DEF IInv, UninstallFails, TypeOK, Install, Steps, Entries,
       Directory, Complete, Locking, Happens, files
  <1>2. Kept'
    BY FilesAssumption DEF IInv, UninstallFails, Kept, InstallIsNamed, UninstallsEntry,
       PlacedIsGood, BackupIsKept, FormerIsGood, RegisteredIsInPlace, Early, Standing,
       Owned, Again, Locking, files, TypeOK, Install, Entries, Directory
  <1> QED  BY <1>1, <1>2 DEF IInv

LEMMA CrashIInv ==
  ASSUME IInv, Crash
  PROVE  IInv'
  <1>1. TypeOK'
    <2>1. TypeOK /\ op' = Idle /\ op' \in Install /\ un' = NoVersion
      BY IdleType DEF IInv, Crash
    <2>2. op.at # "none" => op.of \in Versions
      BY DEF IInv, Kept, InstallIsNamed
    <2>3. left' \in [Versions -> SUBSET Complete]
      BY <2>1 DEF Crash, TypeOK, Install
    <2>4. damaged' \subseteq Versions
      BY <2>1, <2>2 DEF Crash, TypeOK
    <2> QED  BY <2>1, <2>3, <2>4, BreaksOffType, EventsType DEF Crash, TypeOK, Locking, Idle
  <1>2. Kept'
    BY DEF IInv, Crash, Kept, InstallIsNamed, UninstallsEntry, PlacedIsGood,
       BackupIsKept, FormerIsGood, RegisteredIsInPlace, Early, Standing, Owned, Again,
       Locking, Idle, TypeOK, Install
  <1> QED  BY <1>1, <1>2 DEF IInv

-----------------------------------------------------------------------------
(* Every step *)

LEMMA NextIInv ==
  ASSUME IInv, [Next]_vars
  PROVE  IInv'
  <1>1. CASE InstallStep
    BY <1>1, PrepareIInv, DownloadedIInv, VerifiedIInv, FailsEarlyIInv, ExtractedIInv,
       MovePreviousIInv, PlaceIInv, LockManifestIInv, WriteManifestIInv, CommittedIInv,
       AbortsInPlaceIInv, RestoreManifestIInv, RemovePlacedIInv, RestorePreviousIInv
    DEF InstallStep
  <1>2. CASE Fault
    BY <1>2, DownloadedIInv, DownloadBreaksIInv, FailsEarlyIInv, ReplaceFailsIInv,
       WriteFailsIInv, RestoreFailsIInv, RollbackFailsIInv, UninstallFailsIInv, CrashIInv
    DEF Fault
  <1>3. CASE Cancel \/ Import \/ Forget \/ FinishUninstall
    BY <1>3, CancelIInv, ImportIInv, ForgetIInv, FinishUninstallIInv
  <1>4. CASE \E v \in Versions : Begin(v) \/ BeginUninstall(v)
    BY <1>4, BeginIInv, BeginUninstallIInv
  <1>5. CASE UNCHANGED vars
    BY <1>5 DEF vars, IInv, TypeOK, Kept, InstallIsNamed, UninstallsEntry, PlacedIsGood,
       BackupIsKept, FormerIsGood, RegisteredIsInPlace, Locking, Owned, Again
  <1> QED  BY <1>1, <1>2, <1>3, <1>4, <1>5 DEF Next

(* The variables keep their shape, and the manifest lock has one holder.    *)
THEOREM TypeCorrect == Spec => []TypeOK
  <1>1. Init => IInv
    BY InitIInv
  <1>2. IInv /\ [Next]_vars => IInv'
    BY NextIInv
  <1>3. IInv => TypeOK
    BY DEF IInv
  <1> QED  BY <1>1, <1>2, <1>3, PTL DEF Spec

(* What the manifest registers is on disk in full, or is kept as a backup    *)
(* that is about to be put back, whatever fails, is cancelled or crashes,     *)
(* but for the weaknesses that RegisteredIsInPlace names.                     *)
THEOREM RegisteredStaysInPlace == Spec => []RegisteredIsInPlace
  <1>1. Init => IInv
    BY InitIInv
  <1>2. IInv /\ [Next]_vars => IInv'
    BY NextIInv
  <1>3. IInv => RegisteredIsInPlace
    BY DEF IInv, Kept
  <1> QED  BY <1>1, <1>2, <1>3, PTL DEF Spec

-----------------------------------------------------------------------------
(* What is put in place *)

Fetching == {"none", "prepare", "download"}

(* An install has an archive from the download on and never the download it   *)
(* came from: what is extracted, placed and registered has matched its lock,  *)
(* and an archive that does not match is never resumed.                      *)
ArchivesAreVerified ==
  /\ op.at \in Fetching => op.arch = "none"
  /\ op.at \notin Fetching => op.arch \in Complete /\ part[op.of] = "none"
  /\ op.at \notin Fetching \union {"verify"} => op.arch = "good"

(* Of an attempt that does not pass the verification nothing is left to be     *)
(* resumed, and what earlier installs left behind is resumed only if it       *)
(* matches the lock: a wrong archive that is to be resumed was left there by   *)
(* a download that broke off.                                                *)
RetriesStartAfresh ==
  [][/\ op.at = "verify" /\ op'.at = "none" => part'[op.of] = "none"
     /\ \A v \in Versions : part'[v] \in {"bad", "mixed"} \ {part[v]}
                              => op.at = "download" /\ op.of = v]_vars

(* What a step does to the archive: it ends the install, is before or at the   *)
(* download, takes what was downloaded, goes on with what was verified, or is *)
(* of something else.                                                         *)
Alone   == \A v \in Versions \ {op.of} : part'[v] = part[v]
Ends    == op' = Idle /\ (UNCHANGED part \/ (op.at = "download" /\ Alone))
Fetches == \/ /\ op'.at \in {"prepare", "download"} /\ op'.arch = "none"
              /\ \A v \in Versions : part'[v] \in {part[v], "none", "good"}
           \/ op.at = "download" /\ op' = op /\ Alone
Takes   == /\ op.at = "download" /\ op'.at = "verify" /\ op'.arch \in Complete
           /\ op'.of = op.of /\ part'[op.of] = "none" /\ Alone
GoesOn  == /\ op.at \notin Fetching /\ op'.at \notin Fetching \union {"verify"}
           /\ op.at = "verify" => op.arch = "good"
           /\ op'.arch = op.arch /\ op'.of = op.of /\ UNCHANGED part
Stays   == op'.at = op.at /\ op'.arch = op.arch /\ op'.of = op.of /\ UNCHANGED part

LEMMA OfInstall ==
  ASSUME IInv
  PROVE  op \in Install /\ part \in [Versions -> Archive] /\ (op.at # "none" => op.of \in Versions)
  BY DEF IInv, TypeOK, Kept, InstallIsNamed

LEMMA EarlySteps ==
  ASSUME IInv, ArchivesAreVerified,
         (\E v \in Versions : Begin(v)) \/ Prepare \/ Downloaded \/ DownloadedWrong
  PROVE  Fetches \/ Takes
  <1>1. CASE \E v \in Versions : Begin(v)
    BY <1>1 DEF Begin, Fetches, files, Idle
  <1>2. CASE Prepare
    <2>1. op \in Install /\ op.of \in Versions /\ op.at = "prepare"
      BY <1>2, OfInstall DEF Prepare, At
    <2>2. PICK p \in Resumed(op.of) : part' = [part EXCEPT ![op.of] = p]
      BY <1>2 DEF Prepare
    <2>3. p \in {part[op.of], "none", "good"}
      BY <2>2 DEF Resumed
    <2>4. \A v \in Versions : part'[v] \in {part[v], "none", "good"}
      BY <2>1, <2>2, <2>3, OfInstall
    <2>5. op'.at = "download" /\ op'.arch = "none"
      BY <1>2, <2>1 DEF Prepare, Goes, Install, ArchivesAreVerified, Fetching
    <2> QED  BY <2>4, <2>5 DEF Fetches
  <1>3. CASE Downloaded \/ DownloadedWrong
    <2>1. op \in Install /\ op.of \in Versions /\ op.at = "download"
      BY <1>3, OfInstall DEF Downloaded, DownloadedWrong, At
    <2>2. PICK a \in Complete : TakeArchive(op.of, a)
      BY <1>3, <2>1, OfInstall, ArchiveTypes DEF Downloaded, DownloadedWrong, Complete
    <2>3. part'[op.of] = "none" /\ Alone
      BY <2>1, <2>2, OfInstall DEF TakeArchive, Alone
    <2>4. op'.at = "verify" /\ op'.arch = a /\ op'.of = op.of
      BY <2>1, <2>2 DEF TakeArchive, Install
    <2> QED  BY <2>1, <2>2, <2>3, <2>4 DEF Takes
  <1> QED  BY <1>1, <1>2, <1>3

LEMMA BreaksOffAlone ==
  ASSUME IInv, BreaksOff
  PROVE  UNCHANGED part \/ (op.at = "download" /\ Alone)
  BY OfInstall DEF BreaksOff, Alone

LEMMA EndingSteps ==
  ASSUME IInv,
         \/ DownloadBreaks \/ VerificationFails \/ ExtractionFails \/ AbortsEarly
         \/ PreviousIsGone \/ Committed \/ RestoreFails \/ RestorePrevious
         \/ RollbackFails \/ Crash
  PROVE  Ends \/ Fetches
  <1>1. CASE DownloadBreaks
    <2>1. op.at = "download" /\ op.of \in Versions
      BY <1>1, OfInstall DEF DownloadBreaks, At
    <2>2. Alone
      BY <1>1, <2>1, OfInstall DEF DownloadBreaks, Alone
    <2> QED  BY <1>1, <2>1, <2>2 DEF DownloadBreaks, Fails, Ends, Fetches
  <1>2. CASE AbortsEarly \/ Crash
    BY <1>2, BreaksOffAlone DEF AbortsEarly, Crash, Fails, Ends
  <1>3. CASE \/ VerificationFails \/ ExtractionFails \/ PreviousIsGone \/ Committed
             \/ RestoreFails \/ RestorePrevious \/ RollbackFails
    BY <1>3 DEF VerificationFails, ExtractionFails, PreviousIsGone, Committed, RestoreFails,
       KeepPlaced, RestorePrevious, RollbackFails, Fails, Ends
  <1> QED  BY <1>1, <1>2, <1>3

LEMMA LaterSteps ==
  ASSUME IInv,
         \/ Verified \/ Extracted \/ MovePrevious \/ Place \/ ReplaceFails
         \/ LockManifest \/ WriteManifest \/ WriteFails \/ AbortsInPlace
         \/ RestoreManifest \/ RemovePlaced
  PROVE  GoesOn
  <1>1. op \in Install
    BY OfInstall
  <1>2. CASE Verified \/ Extracted \/ MovePrevious \/ Place \/ ReplaceFails
    BY <1>1, <1>2 DEF Verified, Extracted, MovePrevious, Place, ReplaceFails, At, Goes, files,
       GoesOn, Fetching, Install
  <1>3. CASE LockManifest \/ WriteManifest \/ WriteFails \/ AbortsInPlace
             \/ RestoreManifest \/ RemovePlaced
    BY <1>1, <1>3 DEF LockManifest, WriteManifest, WriteFails, AbortsInPlace, RestoreManifest,
       RemovePlaced, At, Goes, files, GoesOn, Fetching, Install
  <1> QED  BY <1>2, <1>3

LEMMA OtherSteps ==
  ASSUME IInv,
         \/ Cancel \/ Import \/ Forget \/ FinishUninstall \/ UninstallFails
         \/ (\E v \in Versions : BeginUninstall(v)) \/ UNCHANGED vars
  PROVE  Stays
  BY OfInstall DEF Cancel, Import, Forget, FinishUninstall, UninstallFails, BeginUninstall,
     vars, files, Stays, Install

LEMMA StepKinds ==
  ASSUME IInv, ArchivesAreVerified, [Next]_vars
  PROVE  Ends \/ Fetches \/ Takes \/ GoesOn \/ Stays
  <1>1. CASE InstallStep
    BY <1>1, EarlySteps, EndingSteps, LaterSteps DEF InstallStep
  <1>2. CASE Fault
    BY <1>2, EarlySteps, EndingSteps, LaterSteps, OtherSteps DEF Fault
  <1>3. CASE ~InstallStep /\ ~Fault
    BY <1>3, EarlySteps, OtherSteps DEF Next
  <1> QED  BY <1>1, <1>2, <1>3

LEMMA VerifiedStep ==
  ASSUME IInv, ArchivesAreVerified, [Next]_vars
  PROVE  ArchivesAreVerified'
  <1>1. op \in Install /\ (op.at # "none" => op.of \in Versions)
    BY OfInstall
  <1>2. CASE Ends
    BY <1>2 DEF Ends, Idle, ArchivesAreVerified, Fetching
  <1>3. CASE Fetches
    BY <1>3 DEF Fetches, ArchivesAreVerified, Fetching
  <1>4. CASE Takes
    BY <1>4 DEF Takes, ArchivesAreVerified, Fetching
  <1>5. CASE GoesOn
    BY <1>5 DEF GoesOn, ArchivesAreVerified, Fetching
  <1>6. CASE Stays
    BY <1>6 DEF Stays, ArchivesAreVerified, Fetching
  <1> QED  BY <1>2, <1>3, <1>4, <1>5, <1>6, StepKinds

(* Nothing is extracted, put in place or registered that was not downloaded in *)
(* full and found to match its lock, whatever is resumed, breaks off, is       *)
(* cancelled or crashes (the order of download, verification and replacement   *)
(* in installTool).                                                            *)
THEOREM OnlyVerifiedIsPlaced == Spec => []ArchivesAreVerified
  <1>1. Init => IInv /\ ArchivesAreVerified
    BY InitIInv DEF Init, Idle, ArchivesAreVerified, Fetching
  <1>2. IInv /\ ArchivesAreVerified /\ [Next]_vars => (IInv /\ ArchivesAreVerified)'
    BY NextIInv, VerifiedStep
  <1> QED  BY <1>1, <1>2, PTL DEF Spec

(* A retry does not resume what has failed the verification (the archive is    *)
(* renamed before it is verified), and a wrong archive to be resumed is only   *)
(* ever left by a download of that version that broke off.                     *)
THEOREM RetriesAreFresh == Spec => RetriesStartAfresh
  <1>1. Init => IInv /\ ArchivesAreVerified
    BY InitIInv DEF Init, Idle, ArchivesAreVerified, Fetching
  <1>2. IInv /\ ArchivesAreVerified /\ [Next]_vars => (IInv /\ ArchivesAreVerified)'
    BY NextIInv, VerifiedStep
  <1>3. ASSUME IInv, ArchivesAreVerified, [Next]_vars
        PROVE  /\ op.at = "verify" /\ op'.at = "none" => part'[op.of] = "none"
               /\ \A v \in Versions : part'[v] \in {"bad", "mixed"} \ {part[v]}
                                        => op.at = "download" /\ op.of = v
    <2>1. op.at = "verify" => part[op.of] = "none"
      BY <1>3 DEF ArchivesAreVerified, Fetching
    <2>2. Ends \/ Fetches \/ Takes \/ GoesOn \/ Stays
      BY <1>3, StepKinds
    <2>3. op.at = "verify" /\ op'.at = "none" => UNCHANGED part
      BY <2>2 DEF Ends, Fetches, Takes, GoesOn, Stays, Fetching
    <2>4. ASSUME NEW v \in Versions, part'[v] \in {"bad", "mixed"} \ {part[v]}
          PROVE  op.at = "download" /\ op.of = v
      BY <2>2, <2>4 DEF Ends, Fetches, Takes, GoesOn, Stays, Alone
    <2> QED  BY <2>1, <2>3, <2>4
  <1> QED  BY <1>1, <1>2, <1>3, PTL DEF Spec, RetriesStartAfresh
=============================================================================
