-------------------------- MODULE OperationsProofs --------------------------
(***************************************************************************)
(* Proofs about Operations.  Backups, for any attachments, retention and   *)
(* number of backups: uploads, backups, cleanups and restores go on beside *)
(* each other, and any script may stop anywhere.  ServerRuntime, for any   *)
(* workers, containers and number of changes.                              *)
(***************************************************************************)
EXTENDS Operations, FiniteSetTheorems, TLAPS

\* Attachments that are on the media volume, or that a restore took off it.
Placed == files \cup cleared

\* Rows name what is placed, in the database and in every dump, and the archives
\* hold no more than that.
NamesPlaced ==
  /\ rows \cup writing \subseteq Placed
  /\ \A i \in 1..Len(dirs) : dirs[i].named \cup dirs[i].held \subseteq Placed

\* An archive holds what the dump beside it names.
Whole == \A i \in 1..Len(dirs) : "media" \in dirs[i].has => dirs[i].named \subseteq dirs[i].held \cup cleared

\* The newest directory is never being removed; a running backup writes to it,
\* the database first and the checksums last.
NewestKept ==
  /\ Len(dirs) \notin cleaning
  /\ backup # 0 => /\ Len(dirs) > 0 /\ dirs[Len(dirs)] # Removed
                   /\ "sums" \notin dirs[Len(dirs)].has
                   /\ backup = 1 => "media" \notin dirs[Len(dirs)].has

\* A restore reads the directory it verified, or finds it removed; without uploads
\* the database and the volume are as its steps left them.
RestoreKnown ==
  /\ restore.pc = "idle" => restore = NoRestore
  /\ restore.pc # "idle" =>
       /\ restore.from \in 1..Len(dirs) /\ dirs[restore.from] \in {chosen, Removed}
       /\ Verifies(chosen)
  /\ ~ touched /\ restore.pc \in {"volume", "unpack", "env"} => rows = chosen.named
  /\ ~ touched /\ restore.pc = "env" => chosen.held \subseteq files

BackupInv == BackupTypeOK /\ NamesPlaced /\ Whole /\ NewestKept /\ RestoreKnown

-----------------------------------------------------------------------------
LEMMA ArtifactsAre ==
  /\ Len(Artifacts) = 5 /\ DOMAIN Artifacts = 1..5
  /\ Artifacts[1] = "db" /\ Artifacts[2] = "media" /\ Artifacts[3] = "env"
  /\ Artifacts[4] = "meta" /\ Artifacts[5] = "sums"
BY DEF Artifacts

\* What an empty and a removed directory have.
LEMMA BareDirectories ==
  /\ Empty \in Directory /\ Empty.has = {} /\ Empty.named = {} /\ Empty.held = {}
  /\ Removed.has = {"removed"} /\ Removed.named = {} /\ Removed.held = {}
  /\ Empty # Removed
BY DEF Empty, Removed, Directory

LEMMA DirectoryTyped ==
  ASSUME BackupTypeOK
  PROVE  /\ Len(dirs) \in Nat /\ DOMAIN dirs = 1..Len(dirs)
         /\ \A i \in 1..Len(dirs) : dirs[i] \in Directory \cup {Removed}
BY DEF BackupTypeOK

\* The newest directory has no newer one.
LEMMA NewestStays ==
  ASSUME BackupTypeOK, StartCleanup
  PROVE  Len(dirs) \notin cleaning'
PROOF
<1>1. {j \in Present : j > Len(dirs)} = {}
  BY DirectoryTyped DEF Present
<1>2. Newer(Len(dirs)) = 0
  BY <1>1, FS_EmptySet DEF Newer
<1> QED
  BY <1>2, BackupsAssumption DEF StartCleanup

\* Uploads leave the directories alone and are noted by a restore.
LEMMA UploadInv ==
  ASSUME BackupInv, Uploading
  PROVE  BackupInv'
PROOF
<1>1. UNCHANGED <<dirs, backup, cleaning, restore, chosen, cleared>> /\ touched' = (restore # NoRestore)
  BY DEF Uploading, WriteFile, EndUpload, Touches
<1>2. BackupTypeOK' /\ files \subseteq files' /\ (rows \cup writing \subseteq Placed)'
  BY <1>1 DEF Uploading, WriteFile, EndUpload, BackupInv, BackupTypeOK, NamesPlaced, Placed
<1>3. NamesPlaced' /\ Whole' /\ NewestKept'
  BY <1>1, <1>2 DEF BackupInv, NamesPlaced, Whole, NewestKept, Placed
<1>4. RestoreKnown'
  <2>1. NoRestore.pc = "idle"
    BY DEF NoRestore
  <2>2. restore.pc # "idle" => touched'
    BY <1>1, <2>1
  <2> QED
    BY <1>1, <2>2 DEF BackupInv, RestoreKnown
<1> QED
  BY <1>2, <1>3, <1>4 DEF BackupInv

LEMMA StartBackupInv ==
  ASSUME BackupInv, StartBackup
  PROVE  BackupInv'
PROOF
<1>1. dirs' = Append(dirs, Empty) /\ backup' = 1
      /\ UNCHANGED <<used, rows, files, writing, cleaning, restore, chosen, touched, cleared>>
  BY DEF StartBackup, restoreVars
<1>2. dirs \in Seq(Directory \cup {Removed})
  BY DEF BackupInv, BackupTypeOK
<1>3. /\ Len(dirs) \in Nat /\ Len(dirs') = Len(dirs) + 1
      /\ dirs' \in Seq(Directory \cup {Removed})
      /\ dirs'[Len(dirs) + 1] = Empty /\ \A i \in 1..Len(dirs) : dirs'[i] = dirs[i]
  BY <1>1, <1>2, BareDirectories
<1>4. BackupTypeOK'
  BY <1>1, <1>3, ArtifactsAre DEF BackupInv, BackupTypeOK
<1>5. NamesPlaced' /\ Whole'
  BY <1>1, <1>3, BareDirectories DEF BackupInv, NamesPlaced, Whole, Placed
<1>6. NewestKept'
  BY <1>1, <1>3, BareDirectories DEF BackupInv, BackupTypeOK, NewestKept
<1>7. RestoreKnown'
  BY <1>1, <1>3 DEF BackupInv, RestoreKnown
<1> QED
  BY <1>4, <1>5, <1>6, <1>7 DEF BackupInv

\* The dump names what is placed by then; the archive, written after it, holds
\* what is on the volume, so together they lose only what a restore took off it.
LEMMA WriteArtifactInv ==
  ASSUME BackupInv, WriteArtifact
  PROVE  BackupInv'
PROOF
<1> DEFINE last == Len(dirs)
           artifact == Artifacts[backup]
           written == [has |-> dirs[last].has \cup {artifact},
                       named |-> IF artifact = "db" THEN rows ELSE dirs[last].named,
                       held |-> IF artifact = "media" THEN files ELSE dirs[last].held]
<1>1. backup \in 1..5 /\ backup' = (IF backup = 5 THEN 0 ELSE backup + 1)
      /\ dirs' = [dirs EXCEPT ![last] = written]
      /\ UNCHANGED <<used, rows, files, writing, cleaning, restore, chosen, touched, cleared>>
  BY ArtifactsAre DEF WriteArtifact, restoreVars
<1>2. last \in 1..Len(dirs) /\ dirs[last] # Removed /\ dirs[last] \in Directory
      /\ "sums" \notin dirs[last].has /\ (backup = 1 => "media" \notin dirs[last].has)
      /\ last \notin cleaning
  BY <1>1, DirectoryTyped DEF BackupInv, NewestKept
<1>3. artifact \in {"db", "media", "env", "meta", "sums"}
      /\ (artifact = "db" <=> backup = 1) /\ (artifact = "media" <=> backup = 2)
      /\ (artifact = "sums" <=> backup = 5)
  <2>1. backup = 1 \/ backup = 2 \/ backup = 3 \/ backup = 4 \/ backup = 5
    BY <1>1
  <2> QED
    BY <2>1, ArtifactsAre
<1> HIDE DEF artifact
<1>4. rows \subseteq Attachment /\ files \subseteq Attachment
  BY DEF BackupInv, BackupTypeOK
<1>5. written \in Directory /\ written.has = dirs[last].has \cup {artifact} /\ written # Removed
      /\ written.named = (IF artifact = "db" THEN rows ELSE dirs[last].named)
      /\ written.held = (IF artifact = "media" THEN files ELSE dirs[last].held)
  BY <1>2, <1>3, <1>4, BareDirectories DEF Directory
<1> HIDE DEF written
<1>6. dirs \in Seq(Directory \cup {Removed})
  BY DEF BackupInv, BackupTypeOK
<1>7. dirs' \in Seq(Directory \cup {Removed}) /\ Len(dirs') = Len(dirs)
      /\ \A i \in 1..Len(dirs) : dirs'[i] = IF i = last THEN written ELSE dirs[i]
  BY <1>1, <1>2, <1>5, <1>6
<1> HIDE DEF last
<1>8. BackupTypeOK'
  BY <1>1, <1>7, ArtifactsAre DEF BackupInv, BackupTypeOK
<1>9. NamesPlaced'
  BY <1>1, <1>2, <1>5, <1>7 DEF BackupInv, NamesPlaced, Placed
<1>10. Whole'
  <2>1. dirs[last].named \subseteq Placed
        /\ ("media" \in dirs[last].has => dirs[last].named \subseteq dirs[last].held \cup cleared)
    BY <1>2 DEF BackupInv, NamesPlaced, Whole
  <2>2. "media" \in written.has => written.named \subseteq written.held \cup cleared
    BY <1>2, <1>3, <1>5, <2>1 DEF Placed
  <2> QED
    BY <1>1, <1>7, <2>2 DEF BackupInv, Whole
<1>11. NewestKept'
  BY <1>1, <1>2, <1>3, <1>5, <1>7 DEF NewestKept, last
<1>12. RestoreKnown'
  <2>1. restore.pc # "idle" => restore.from # last
    BY <1>2 DEF BackupInv, RestoreKnown, Verifies
  <2> QED
    BY <1>1, <1>7, <2>1 DEF BackupInv, RestoreKnown
<1> QED
  BY <1>8, <1>9, <1>10, <1>11, <1>12 DEF BackupInv

LEMMA StopsInv ==
  ASSUME BackupInv, BackupStops
  PROVE  BackupInv'
BY ArtifactsAre DEF BackupStops, restoreVars, BackupInv, BackupTypeOK, NamesPlaced, Placed, Whole,
   NewestKept, RestoreKnown

LEMMA StartCleanupInv ==
  ASSUME BackupInv, StartCleanup
  PROVE  BackupInv'
PROOF
<1>1. UNCHANGED <<used, rows, files, writing, dirs, backup, restore, chosen, touched, cleared>>
      /\ cleaning' \subseteq Present
  BY DEF StartCleanup, restoreVars
<1>2. BackupTypeOK'
  BY <1>1 DEF BackupInv, BackupTypeOK, Present
<1>3. NewestKept'
  BY <1>1, NewestStays DEF BackupInv, NewestKept
<1> QED
  BY <1>1, <1>2, <1>3 DEF BackupInv, NamesPlaced, Placed, Whole, RestoreKnown

LEMMA RemoveDirectoryInv ==
  ASSUME BackupInv, NEW d \in cleaning, RemoveDirectory(d)
  PROVE  BackupInv'
PROOF
<1>1. dirs' = [dirs EXCEPT ![d] = Removed] /\ cleaning' = cleaning \ {d}
      /\ UNCHANGED <<used, rows, files, writing, backup, restore, chosen, touched, cleared>>
  BY DEF RemoveDirectory, restoreVars
<1>2. d \in 1..Len(dirs) /\ dirs \in Seq(Directory \cup {Removed})
  BY DEF BackupInv, BackupTypeOK
<1>3. dirs' \in Seq(Directory \cup {Removed}) /\ Len(dirs') = Len(dirs)
      /\ \A i \in 1..Len(dirs) : dirs'[i] = IF i = d THEN Removed ELSE dirs[i]
  BY <1>1, <1>2
<1>4. BackupTypeOK'
  BY <1>1, <1>3 DEF BackupInv, BackupTypeOK
<1>5. NamesPlaced' /\ Whole'
  BY <1>1, <1>3, BareDirectories DEF BackupInv, NamesPlaced, Whole, Placed
<1>6. NewestKept'
  BY <1>1, <1>2, <1>3 DEF BackupInv, NewestKept
<1>7. RestoreKnown'
  BY <1>1, <1>3 DEF BackupInv, RestoreKnown
<1> QED
  BY <1>4, <1>5, <1>6, <1>7 DEF BackupInv

-----------------------------------------------------------------------------
LEMMA StartRestoreInv ==
  ASSUME BackupInv, NEW d \in 1..Len(dirs), StartRestore(d)
  PROVE  BackupInv'
PROOF
<1>1. restore' = [pc |-> "schema", from |-> d] /\ chosen' = dirs[d] /\ touched' = FALSE
      /\ UNCHANGED <<used, rows, files, writing, dirs, backup, cleaning, cleared>>
      /\ dirs[d] # Removed /\ Verifies(dirs[d])
  BY DEF StartRestore, Present
<1>2. dirs[d] \in Directory /\ d \in 0..Len(dirs)
  BY <1>1, DirectoryTyped DEF BackupInv
<1>3. BackupTypeOK'
  BY <1>1, <1>2 DEF BackupInv, BackupTypeOK
<1>4. RestoreKnown'
  BY <1>1 DEF RestoreKnown, Verifies
<1> QED
  BY <1>1, <1>3, <1>4 DEF BackupInv, NamesPlaced, Placed, Whole, NewestKept

\* The part of a step of a restore that RestoreGoes gives.
LEMMA RestoreGoesOn ==
  ASSUME BackupInv, NEW pc \in {"idle", "load", "volume", "unpack", "env"}, RestoreGoes(pc)
  PROVE  /\ UNCHANGED <<used, writing, dirs, backup, cleaning>>
         /\ restore'.pc = pc /\ (pc = "idle" => restore' = NoRestore)
         /\ pc # "idle" => /\ restore'.from = restore.from /\ chosen' = chosen
                           /\ touched' = touched
         /\ restore' \in [pc : {"idle", "schema", "load", "volume", "unpack", "env"}, from : 0..Len(dirs)]
         /\ chosen' \in Directory /\ touched' \in BOOLEAN
PROOF
<1>1. restore \in [pc : {"idle", "schema", "load", "volume", "unpack", "env"}, from : 0..Len(dirs)]
      /\ chosen \in Directory /\ touched \in BOOLEAN /\ Len(dirs) \in Nat
  BY DirectoryTyped DEF BackupInv, BackupTypeOK
<1>2. CASE pc = "idle"
  BY <1>1, <1>2, BareDirectories DEF RestoreGoes, NoRestore
<1>3. CASE pc # "idle"
  BY <1>1, <1>3 DEF RestoreGoes
<1> QED
  BY <1>2, <1>3

\* Such a step, by what it does to the database and the volume.
LEMMA RestoreStepInv ==
  ASSUME BackupInv, NEW pc \in {"idle", "load", "volume", "unpack", "env"}, RestoreGoes(pc),
         restore.pc # "idle",
         rows' \subseteq Placed, files' \subseteq Placed \cap used, cleared' \subseteq Placed,
         rows' \subseteq used, Placed \subseteq Placed', cleared \subseteq cleared',
         ~ touched /\ pc \in {"volume", "unpack", "env"} => rows' = chosen.named,
         ~ touched /\ pc = "env" => chosen.held \subseteq files'
  PROVE  BackupInv'
PROOF
<1>1. /\ UNCHANGED <<used, writing, dirs, backup, cleaning>>
      /\ restore'.pc = pc /\ (pc = "idle" => restore' = NoRestore)
      /\ pc # "idle" => /\ restore'.from = restore.from /\ chosen' = chosen
                        /\ touched' = touched
      /\ restore' \in [pc : {"idle", "schema", "load", "volume", "unpack", "env"}, from : 0..Len(dirs)]
      /\ chosen' \in Directory /\ touched' \in BOOLEAN
  BY RestoreGoesOn
<1>2. BackupTypeOK'
  BY <1>1 DEF BackupInv, BackupTypeOK, Placed
<1>3. NamesPlaced' /\ Whole' /\ NewestKept'
  BY <1>1 DEF BackupInv, NamesPlaced, Whole, NewestKept
<1>4. RestoreKnown'
  BY <1>1 DEF BackupInv, RestoreKnown
<1> QED
  BY <1>2, <1>3, <1>4 DEF BackupInv

\* The steps of a restore, one by one.
LEMMA RestoringInv ==
  ASSUME BackupInv, Restoring
  PROVE  BackupInv'
PROOF
<1>1. rows \subseteq Placed /\ files \subseteq Placed \cap used /\ cleared \subseteq Placed /\ rows \subseteq used
      /\ Placed \subseteq used
  BY DEF BackupInv, BackupTypeOK, NamesPlaced, Placed
<1>2. restore.pc # "idle" =>
        /\ restore.from \in 1..Len(dirs) /\ dirs[restore.from] \in {chosen, Removed}
        /\ dirs[restore.from].named \cup dirs[restore.from].held \subseteq Placed
  BY DEF BackupInv, RestoreKnown, NamesPlaced
<1>3. ASSUME DropSchema PROVE BackupInv'
  <2>1. restore.pc = "schema" /\ RestoreGoes("load") /\ rows' = {} /\ UNCHANGED <<files, cleared>>
    BY <1>3 DEF DropSchema
  <2>2. Placed' = Placed
    BY <2>1 DEF Placed
  <2> QED
    BY <1>1, <2>1, <2>2, RestoreStepInv
<1>4. ASSUME LoadDump PROVE BackupInv'
  <2>1. restore.pc = "load" /\ RestoreGoes("volume") /\ "db" \in dirs[restore.from].has
        /\ rows' = dirs[restore.from].named /\ UNCHANGED <<files, cleared>>
    BY <1>4 DEF LoadDump
  <2>2. Placed' = Placed
    BY <2>1 DEF Placed
  <2>3. dirs[restore.from] = chosen
    BY <1>2, <2>1, BareDirectories
  <2> QED
    BY <1>1, <1>2, <2>1, <2>2, <2>3, RestoreStepInv
<1>5. ASSUME ClearVolume PROVE BackupInv'
  <2>1. restore.pc = "volume" /\ RestoreGoes("unpack") /\ files' = {} /\ cleared' = cleared \cup files
        /\ rows' = rows
    BY <1>5 DEF ClearVolume
  <2>2. Placed' = Placed /\ cleared' \subseteq Placed
    BY <2>1 DEF Placed
  <2>3. ~ touched => rows' = chosen.named
    BY <2>1 DEF BackupInv, RestoreKnown
  <2> QED
    BY <1>1, <2>1, <2>2, <2>3, RestoreStepInv
<1>6. ASSUME UnpackMedia PROVE BackupInv'
  <2>1. restore.pc = "unpack" /\ RestoreGoes("env") /\ "media" \in dirs[restore.from].has
        /\ files' = files \cup dirs[restore.from].held /\ UNCHANGED <<rows, cleared>>
    BY <1>6 DEF UnpackMedia
  <2>2. files' \subseteq Placed \cap used /\ Placed \subseteq Placed'
    BY <1>1, <1>2, <2>1 DEF Placed
  <2>3. dirs[restore.from] = chosen
    BY <1>2, <2>1, BareDirectories
  <2>4. ~ touched => rows' = chosen.named
    BY <2>1 DEF BackupInv, RestoreKnown
  <2> QED
    BY <1>1, <2>1, <2>2, <2>3, <2>4, RestoreStepInv
<1>7. ASSUME FinishRestore \/ RestoreStops PROVE BackupInv'
  <2>1. restore.pc # "idle" /\ RestoreGoes("idle") /\ UNCHANGED <<rows, files, cleared>>
    BY <1>7 DEF FinishRestore, RestoreStops, BackupInv, RestoreKnown
  <2>2. Placed' = Placed
    BY <2>1 DEF Placed
  <2> QED
    BY <1>1, <2>1, <2>2, RestoreStepInv
<1> QED
  BY <1>3, <1>4, <1>5, <1>6, <1>7, StartRestoreInv DEF Restoring

-----------------------------------------------------------------------------
LEMMA StepInv ==
  ASSUME BackupInv, [Next]_vars
  PROVE  BackupInv'
PROOF
<1>1. CASE UNCHANGED backupVars
  BY <1>1 DEF backupVars, BackupInv, BackupTypeOK, NamesPlaced, Placed, Whole, NewestKept, RestoreKnown
<1>2. CASE BackupNext
  BY <1>2, UploadInv, StartBackupInv, WriteArtifactInv, StopsInv, StartCleanupInv,
     RemoveDirectoryInv, RestoringInv DEF BackupNext, BackingUp, Cleaning
<1> QED
  BY <1>1, <1>2 DEF Next, vars

LEMMA InitialInv == Init => BackupInv
PROOF
<1> SUFFICES ASSUME BackupInit PROVE BackupInv
  BY DEF Init
<1>1. Len(dirs) = 0 /\ dirs \in Seq(Directory \cup {Removed})
  BY DEF BackupInit
<1>2. NoRestore \in [pc : {"idle", "schema", "load", "volume", "unpack", "env"}, from : 0..Len(dirs)]
      /\ NoRestore.pc = "idle"
  BY <1>1 DEF NoRestore
<1>3. BackupTypeOK
  <2>1. backup \in 0..Len(Artifacts)
    BY ArtifactsAre DEF BackupInit
  <2>2. cleaning \subseteq 1..Len(dirs) /\ chosen \in Directory /\ touched \in BOOLEAN
    BY BareDirectories DEF BackupInit
  <2>3. restore \in [pc : {"idle", "schema", "load", "volume", "unpack", "env"}, from : 0..Len(dirs)]
    BY <1>2 DEF BackupInit
  <2>4. /\ used \subseteq Attachment /\ rows \subseteq used /\ files \subseteq used
        /\ writing \subseteq used /\ cleared \subseteq used
    BY DEF BackupInit
  <2> QED
    BY <1>1, <2>1, <2>2, <2>3, <2>4 DEF BackupTypeOK
<1> QED
  BY <1>1, <1>2, <1>3 DEF BackupInit, BackupInv, NamesPlaced, Placed, Whole, NewestKept, RestoreKnown

LEMMA AlwaysInv == Spec => []BackupInv
BY InitialInv, StepInv, PTL DEF Spec

\* A backup that verifies holds every attachment its database names, but for those
\* a restore had taken off the volume.
THEOREM VerifiedAlwaysWhole == Spec => []VerifiedIsWhole
PROOF
<1>1. BackupInv => VerifiedIsWhole
  BY DEF BackupInv, Whole, VerifiedIsWhole, Verifies, Present
<1> QED
  BY <1>1, AlwaysInv, PTL

\* A restore that completes has restored what it verified, cleanups or not, unless
\* uploads went on.
THEOREM AlwaysRestoredAll == Spec => RestoredAll
PROOF
<1> DEFINE Restored == FinishRestore /\ ~ touched => rows' = chosen.named /\ chosen.held \subseteq files'
<1>1. ASSUME BackupInv, [Next]_vars PROVE [Restored]_vars
  BY <1>1 DEF BackupInv, RestoreKnown, FinishRestore
<1> QED
  BY <1>1, AlwaysInv, PTL DEF Spec, RestoredAll

-----------------------------------------------------------------------------
(***************************************************************************)
(* A sync that nothing disturbs is the only one, and the rows it has saved *)
(* with a working container are those that it saw working: the row of a    *)
(* protocol is saved after it was seen, AWG2 after AWG, and both before    *)
(* the health is evaluated.                                                *)
(***************************************************************************)
Works(r) == r.status = "running" /\ r.ready
Known(p) == Works(profile[p]) => p \in seen

Watching(w) ==
  LET s == syncer[w] IN
  /\ s.pc \in {"probe", "config"} => ~ s.held.ready
  /\ s.pc = "save" /\ Works(s.held) => s.protocol \in seen
  /\ s.protocol = "awg2" => Known("awg")
  /\ s.pc \in {"evaluate", "update"} => \A p \in Protocol : Known(p)
  /\ s.pc = "update" => s.verdict = HealthOf(profile)

RuntimeInv ==
  /\ RuntimeTypeOK
  /\ \A w \in Busy \ disturbed : Busy = {w} /\ Watching(w)

LEMMA IdleSyncerTyped ==
  /\ NoRow \in Row /\ IdleSyncer \in SyncerState /\ IdleSyncer.pc = "idle"
  /\ IdleSyncer.protocol = "awg"
BY DEF NoRow, Row, IdleSyncer, SyncerState, Protocol, Pc, Health, Source, Container

LEMMA MembershipIsBoolean ==
  ASSUME NEW x, NEW S
  PROVE  \E b \in BOOLEAN : b = (x \in S)
PROOF
<1>1. (x \in S) \in BOOLEAN
  OBVIOUS
<1> QED
  BY <1>1

\* The state of a sync with another pc and row in hand.
With(s, pc, h) == [s EXCEPT !.pc = pc, !.held = h]

LEMMA SyncerWith ==
  ASSUME NEW s \in SyncerState, NEW pc \in Pc, NEW h \in Row
  PROVE  /\ With(s, pc, h) \in SyncerState
         /\ With(s, pc, h).pc = pc /\ With(s, pc, h).held = h
         /\ With(s, pc, h).protocol = s.protocol
BY DEF SyncerState, With

\* The step of a sync that stays busy.
LEMMA OwnStep ==
  ASSUME RuntimeInv, RuntimeTypeOK', NEW w \in Syncer, syncer[w].pc # "idle", syncer'[w].pc # "idle",
         \A u \in Syncer \ {w} : syncer'[u] = syncer[u], disturbed' = disturbed,
         w \in Busy \ disturbed => Watching(w)'
  PROVE  RuntimeInv'
PROOF
<1>1. Busy' = Busy
  BY DEF Busy
<1>2. ASSUME NEW u \in Busy' \ disturbed' PROVE Busy' = {u} /\ Watching(u)'
  <2>1. Busy = {u} /\ u = w
    BY <1>1, <1>2 DEF RuntimeInv, Busy
  <2> QED
    BY <1>1, <2>1
<1> QED
  BY <1>2 DEF RuntimeInv

LEMMA StartSyncInv ==
  ASSUME RuntimeInv, NEW w \in Syncer, StartSync(w)
  PROVE  RuntimeInv'
PROOF
<1>1. RuntimeTypeOK'
  BY IdleSyncerTyped DEF StartSync, Sets, RuntimeInv, RuntimeTypeOK, SyncerState, Pc, Busy
<1>2. Busy' = Busy \cup {w} /\ syncer'[w].pc = "running_names" /\ syncer'[w].protocol = "awg"
  BY IdleSyncerTyped DEF StartSync, Sets, RuntimeInv, RuntimeTypeOK, SyncerState, Busy
<1>3. ASSUME NEW u \in Busy' \ disturbed' PROVE Busy' = {u} /\ Watching(u)'
  BY <1>2, <1>3 DEF StartSync, Watching
<1> QED
  BY <1>1, <1>3 DEF RuntimeInv

LEMMA ListRunningInv ==
  ASSUME RuntimeInv, NEW w \in Syncer, ListRunning(w)
  PROVE  RuntimeInv'
PROOF
<1>1. RuntimeTypeOK'
  BY DEF ListRunning, Sets, Goes, RuntimeInv, RuntimeTypeOK, SyncerState, Pc
<1>2. /\ syncer'[w].pc = "load" /\ syncer'[w].protocol = syncer[w].protocol
      /\ \A u \in Syncer \ {w} : syncer'[u] = syncer[u]
  BY DEF ListRunning, Sets, Goes, RuntimeInv, RuntimeTypeOK, SyncerState
<1>3. w \in Busy \ disturbed => Watching(w)'
  BY <1>2 DEF ListRunning, RuntimeInv, Watching, Known
<1> QED
  BY <1>1, <1>2, <1>3, OwnStep DEF ListRunning

\* A row that is created has no status yet; the others keep theirs.
LEMMA LoadProfileInv ==
  ASSUME RuntimeInv, NEW w \in Syncer, LoadProfile(w)
  PROVE  RuntimeInv'
PROOF
<1>1. PICK s \in SyncerState : s = syncer[w]
  BY DEF RuntimeInv, RuntimeTypeOK
<1>2. s.protocol \in Protocol /\ profile[s.protocol] \in Row
  BY DEF RuntimeInv, RuntimeTypeOK, SyncerState
<1>3. PICK t \in SyncerState :
        /\ syncer' = [syncer EXCEPT ![w] = t]
        /\ t.pc \in {"inspect", "save"} /\ t.protocol = s.protocol
        /\ t.pc = "save" => ~ t.held.ready
  <2>0. PICK runs \in BOOLEAN : runs = (s.protocol \in s.running)
    BY MembershipIsBoolean
  <2>1. PICK held : held = IF profile[s.protocol].exists
                           THEN [profile[s.protocol] EXCEPT !.exists = TRUE]
                           ELSE [profile[s.protocol] EXCEPT !.exists = TRUE, !.enabled = runs]
    OBVIOUS
  <2>2. held \in Row
    BY <1>2, <2>1 DEF Row
  <2>3. PICK gone : gone = Missing(held)
    OBVIOUS
  <2>4. gone \in Row /\ ~ gone.ready
    BY <2>2, <2>3 DEF Missing, Row, Container, Source
  <2>5. PICK t : t = IF s.protocol \in s.all THEN [s EXCEPT !.pc = "inspect", !.held = held]
                     ELSE [s EXCEPT !.pc = "save", !.held = gone]
    OBVIOUS
  <2>6. syncer' = [syncer EXCEPT ![w] = t]
    BY <1>1, <2>0, <2>1, <2>3, <2>5 DEF LoadProfile, Sets
  <2>7. t \in SyncerState /\ t.pc \in {"inspect", "save"} /\ t.protocol = s.protocol
        /\ (t.pc = "save" => ~ t.held.ready)
    <3>1. CASE s.protocol \in s.all
      <4>1. t = With(s, "inspect", held) /\ "inspect" \in Pc
        BY <2>5, <3>1 DEF Pc, With
      <4> QED
        BY <2>2, <4>1, SyncerWith
    <3>2. CASE s.protocol \notin s.all
      <4>1. t = With(s, "save", gone) /\ "save" \in Pc
        BY <2>5, <3>2 DEF Pc, With
      <4>2. t \in SyncerState /\ t.pc = "save" /\ t.held = gone /\ t.protocol = s.protocol
        BY <2>4, <4>1, SyncerWith
      <4> QED
        BY <2>4, <4>2
    <3> QED
      BY <3>1, <3>2
  <2> QED
    BY <2>6, <2>7
<1>4. syncer'[w] = t /\ \A u \in Syncer \ {w} : syncer'[u] = syncer[u]
  BY <1>3 DEF RuntimeInv, RuntimeTypeOK
<1>5. \A p \in Protocol : profile'[p].status = profile[p].status /\ profile'[p].ready = profile[p].ready
  BY DEF LoadProfile, RuntimeInv, RuntimeTypeOK, Row
<1>6. RuntimeTypeOK'
  <2>1. syncer' \in [Syncer -> SyncerState]
    BY <1>3 DEF RuntimeInv, RuntimeTypeOK
  <2>2. profile' \in [Protocol -> Row]
    BY <1>1, <1>2 DEF LoadProfile, RuntimeInv, RuntimeTypeOK, Row
  <2> QED
    BY <2>1, <2>2 DEF LoadProfile, RuntimeInv, RuntimeTypeOK
<1>7. w \in Busy \ disturbed => Watching(w)'
  BY <1>1, <1>3, <1>4, <1>5 DEF LoadProfile, RuntimeInv, Watching, Known, Works, Protocol
<1> QED
  BY <1>1, <1>3, <1>4, <1>6, <1>7, OwnStep DEF LoadProfile

\* What was known of a container is dropped before it is probed.
LEMMA InspectInv ==
  ASSUME RuntimeInv, NEW w \in Syncer, Inspect(w)
  PROVE  RuntimeInv'
PROOF
<1>1. PICK s \in SyncerState : s = syncer[w]
  BY DEF RuntimeInv, RuntimeTypeOK
<1>2. PICK t \in SyncerState :
        /\ syncer' = [syncer EXCEPT ![w] = t]
        /\ t.pc \in {"probe", "save"} /\ t.protocol = s.protocol /\ ~ t.held.ready
  <2>1. PICK h : h = [s.held EXCEPT !.status = host[s.protocol], !.ready = FALSE, !.source = "none"]
    OBVIOUS
  <2>2. h \in Row /\ ~ h.ready
    BY <2>1 DEF RuntimeInv, RuntimeTypeOK, SyncerState, Row, Source
  <2>3. PICK pc \in {"probe", "save"} : pc = IF s.protocol \in s.running THEN "probe" ELSE "save"
    OBVIOUS
  <2>4. PICK t : t = With(s, pc, h)
    OBVIOUS
  <2>5. syncer' = [syncer EXCEPT ![w] = t]
    BY <1>1, <2>1, <2>3, <2>4 DEF Inspect, Sets, With, SyncerState, Row
  <2>6. t \in SyncerState /\ t.pc = pc /\ t.held = h /\ t.protocol = s.protocol
    <3>1. pc \in Pc
      BY DEF Pc
    <3> QED
      BY <2>2, <2>4, <3>1, SyncerWith
  <2> QED
    BY <2>2, <2>5, <2>6
<1>3. syncer'[w] = t /\ \A u \in Syncer \ {w} : syncer'[u] = syncer[u]
  BY <1>2 DEF RuntimeInv, RuntimeTypeOK
<1>4. RuntimeTypeOK'
  BY <1>1, <1>2 DEF Inspect, RuntimeInv, RuntimeTypeOK, SyncerState, Pc
<1>5. w \in Busy \ disturbed => Watching(w)'
  BY <1>1, <1>2, <1>3 DEF Inspect, RuntimeInv, Watching, Known, Works
<1> QED
  BY <1>1, <1>2, <1>3, <1>4, <1>5, OwnStep DEF Inspect

LEMMA ProbeInv ==
  ASSUME RuntimeInv, NEW w \in Syncer, NEW source \in Source, Probe(w, source)
  PROVE  RuntimeInv'
PROOF
<1>1. PICK s \in SyncerState : s = syncer[w]
  BY DEF RuntimeInv, RuntimeTypeOK
<1>2. PICK t \in SyncerState :
        /\ syncer' = [syncer EXCEPT ![w] = t]
        /\ t.pc = "config" /\ t.protocol = s.protocol /\ t.held.ready = s.held.ready
  <2>1. PICK h : h = [s.held EXCEPT !.source = source]
    OBVIOUS
  <2>2. h \in Row /\ h.ready = s.held.ready
    BY <2>1 DEF SyncerState, Row
  <2>3. PICK t : t = With(s, "config", h)
    OBVIOUS
  <2>4. syncer' = [syncer EXCEPT ![w] = t]
    BY <1>1, <2>1, <2>3 DEF Probe, Sets, With, SyncerState, Row
  <2>5. t \in SyncerState /\ t.pc = "config" /\ t.held = h /\ t.protocol = s.protocol
    <3>1. "config" \in Pc
      BY DEF Pc
    <3> QED
      BY <2>2, <2>3, <3>1, SyncerWith
  <2> QED
    BY <2>2, <2>4, <2>5
<1>3. syncer'[w] = t /\ \A u \in Syncer \ {w} : syncer'[u] = syncer[u]
  BY <1>2 DEF RuntimeInv, RuntimeTypeOK
<1>4. RuntimeTypeOK'
  BY <1>1, <1>2 DEF Probe, RuntimeInv, RuntimeTypeOK, SyncerState, Pc
<1>5. w \in Busy \ disturbed => Watching(w)'
  BY <1>1, <1>2, <1>3 DEF Probe, RuntimeInv, Watching, Known, Works
<1> QED
  BY <1>1, <1>2, <1>3, <1>4, <1>5, OwnStep DEF Probe

\* A whole configuration of a running container makes the row a working one, and seen.
LEMMA ReadConfigInv ==
  ASSUME RuntimeInv, NEW w \in Syncer, NEW conf \in {"none", "partial", "whole"}, ReadConfig(w, conf)
  PROVE  RuntimeInv'
PROOF
<1>1. PICK s \in SyncerState : s = syncer[w]
  BY DEF RuntimeInv, RuntimeTypeOK
<1>2. PICK t \in SyncerState :
        /\ syncer' = [syncer EXCEPT ![w] = t]
        /\ t.pc = "save" /\ t.protocol = s.protocol
        /\ t.held.ready = (conf = "whole") /\ t.held.status = s.held.status
  <2>1. PICK source \in Source : source = SourceWith(s.protocol, s.held.source, conf)
    BY DEF SourceWith, SyncerState, Row, Source
  <2>0. PICK whole \in BOOLEAN : whole = (conf = "whole")
    OBVIOUS
  <2>2. PICK h : h = [s.held EXCEPT !.ready = whole, !.source = source]
    OBVIOUS
  <2>3. h \in Row /\ h.ready = (conf = "whole") /\ h.status = s.held.status
    BY <2>0, <2>2 DEF SyncerState, Row
  <2>4. PICK t : t = With(s, "save", h)
    OBVIOUS
  <2>5. syncer' = [syncer EXCEPT ![w] = t]
    BY <1>1, <2>0, <2>1, <2>2, <2>4 DEF ReadConfig, Sets, With, SyncerState, Row
  <2>6. t \in SyncerState /\ t.pc = "save" /\ t.held = h /\ t.protocol = s.protocol
    <3>1. "save" \in Pc
      BY DEF Pc
    <3> QED
      BY <2>3, <2>4, <3>1, SyncerWith
  <2> QED
    BY <2>3, <2>5, <2>6
<1>3. syncer'[w] = t /\ \A u \in Syncer \ {w} : syncer'[u] = syncer[u]
  BY <1>2 DEF RuntimeInv, RuntimeTypeOK
<1>4. RuntimeTypeOK'
  <2>1. s.protocol \in Protocol
    BY DEF SyncerState
  <2> QED
    BY <1>1, <1>2, <2>1 DEF ReadConfig, RuntimeInv, RuntimeTypeOK, SyncerState, Pc
<1>5. w \in Busy \ disturbed => Watching(w)'
  <2> SUFFICES ASSUME w \in Busy \ disturbed PROVE Watching(w)'
    OBVIOUS
  <2>1. Watching(w) /\ profile' = profile
        /\ seen' = IF conf = "whole" /\ s.held.status = "running" THEN seen \cup {s.protocol} ELSE seen
    BY <1>1 DEF ReadConfig, RuntimeInv
  <2>2. Works(t.held) => s.protocol \in seen'
    BY <1>2, <2>1 DEF Works
  <2>3. s.protocol = "awg2" => Known("awg")'
    BY <1>1, <2>1 DEF Watching, Known
  <2> QED
    BY <1>2, <1>3, <2>2, <2>3 DEF Watching
<1> QED
  BY <1>1, <1>2, <1>3, <1>4, <1>5, OwnStep DEF ReadConfig

LEMMA SaveProfileInv ==
  ASSUME RuntimeInv, NEW w \in Syncer, SaveProfile(w)
  PROVE  RuntimeInv'
PROOF
<1>1. PICK s \in SyncerState : s = syncer[w]
  BY DEF RuntimeInv, RuntimeTypeOK
<1>2. s.protocol \in {"awg", "awg2"} /\ profile' = [profile EXCEPT ![s.protocol] = s.held]
  BY <1>1 DEF SaveProfile, SyncerState, Protocol
<1>3. PICK t \in SyncerState :
        /\ syncer' = [syncer EXCEPT ![w] = t]
        /\ s.protocol = "awg" => t.pc = "load" /\ t.protocol = "awg2"
        /\ s.protocol = "awg2" => t.pc = "evaluate" /\ t.protocol = "awg"
  <2>1. CASE s.protocol = "awg"
    <3>1. PICK t : t = [s EXCEPT !.pc = "load", !.protocol = "awg2", !.held = IdleSyncer.held]
      OBVIOUS
    <3>2. t \in SyncerState /\ t.pc = "load" /\ t.protocol = "awg2"
      BY <3>1, IdleSyncerTyped DEF SyncerState, Pc, Protocol
    <3> QED
      BY <1>1, <2>1, <3>1, <3>2 DEF SaveProfile, Sets
  <2>2. CASE s.protocol = "awg2"
    <3>1. PICK t : t = [IdleSyncer EXCEPT !.pc = "evaluate"]
      OBVIOUS
    <3>2. t \in SyncerState /\ t.pc = "evaluate" /\ t.protocol = "awg"
      BY <3>1, IdleSyncerTyped DEF SyncerState, Pc
    <3> QED
      BY <1>1, <2>2, <3>1, <3>2 DEF SaveProfile, Sets
  <2> QED
    BY <1>2, <2>1, <2>2
<1>4. syncer'[w] = t /\ \A u \in Syncer \ {w} : syncer'[u] = syncer[u]
  BY <1>3 DEF RuntimeInv, RuntimeTypeOK
<1>5. RuntimeTypeOK'
  BY <1>1, <1>2, <1>3 DEF SaveProfile, RuntimeInv, RuntimeTypeOK, SyncerState
<1>6. w \in Busy \ disturbed => Watching(w)'
  <2> SUFFICES ASSUME w \in Busy \ disturbed PROVE Watching(w)'
    OBVIOUS
  <2>1. Watching(w) /\ s.pc = "save" /\ seen' = seen
    BY <1>1 DEF RuntimeInv, SaveProfile
  <2>2. Known(s.protocol)'
    BY <1>1, <1>2, <2>1 DEF Watching, Known, Works, RuntimeInv, RuntimeTypeOK, Protocol
  <2>3. s.protocol = "awg2" => Known("awg")'
    BY <1>1, <1>2, <2>1 DEF Watching, Known, RuntimeInv, RuntimeTypeOK
  <2> QED
    BY <1>2, <1>3, <1>4, <2>2, <2>3 DEF Watching, Protocol
<1>7. syncer[w].pc # "idle" /\ syncer'[w].pc # "idle"
  BY <1>1, <1>2, <1>3, <1>4 DEF SaveProfile
<1> QED
  BY <1>4, <1>5, <1>6, <1>7, OwnStep DEF SaveProfile

LEMMA EvaluateInv ==
  ASSUME RuntimeInv, NEW w \in Syncer, Evaluate(w)
  PROVE  RuntimeInv'
PROOF
<1>1. PICK s \in SyncerState : s = syncer[w]
  BY DEF RuntimeInv, RuntimeTypeOK
<1>2. HealthOf(profile) \in Health
  BY DEF HealthOf, Health
<1>3. syncer' = [syncer EXCEPT ![w] = [s EXCEPT !.pc = "update", !.verdict = HealthOf(profile)]]
  BY <1>1 DEF Evaluate, Sets, Goes
<1>4. /\ syncer'[w].pc = "update" /\ syncer'[w].protocol = s.protocol
      /\ syncer'[w].verdict = HealthOf(profile)
      /\ \A u \in Syncer \ {w} : syncer'[u] = syncer[u]
  BY <1>1, <1>3 DEF RuntimeInv, RuntimeTypeOK, SyncerState
<1>5. RuntimeTypeOK'
  BY <1>1, <1>2, <1>3 DEF Evaluate, RuntimeInv, RuntimeTypeOK, SyncerState, Pc
<1>6. w \in Busy \ disturbed => Watching(w)'
  BY <1>1, <1>4 DEF Evaluate, RuntimeInv, Watching, Known
<1> QED
  BY <1>4, <1>5, <1>6, OwnStep DEF Evaluate

\* The end of a sync that was on its own leaves none; a failure to reach the host
\* at once leaves the others alone.
LEMMA EndsInv ==
  ASSUME RuntimeInv, NEW w \in Syncer, Ends(w), health' \in Health
  PROVE  RuntimeInv'
PROOF
<1>1. syncer' = [syncer EXCEPT ![w] = IdleSyncer] /\ Busy' = Busy \ {w}
  BY IdleSyncerTyped DEF Ends, Sets, Busy, RuntimeInv, RuntimeTypeOK
<1>2. RuntimeTypeOK'
  BY <1>1, IdleSyncerTyped DEF Ends, RuntimeInv, RuntimeTypeOK
<1>3. ASSUME NEW u \in Busy' \ disturbed' PROVE Busy' = {u} /\ Watching(u)'
  <2>1. u # w /\ Busy = {u} /\ Watching(u) /\ w \notin Busy
    BY <1>1, <1>3 DEF Ends, RuntimeInv
  <2>2. seen' = seen /\ profile' = profile /\ syncer'[u] = syncer[u]
    BY <1>1, <2>1 DEF Ends, RuntimeInv, RuntimeTypeOK, Busy
  <2> QED
    BY <1>1, <2>1, <2>2 DEF Watching, Known
<1> QED
  BY <1>2, <1>3 DEF RuntimeInv

\* An edit disturbs whoever is busy.
LEMMA EditProfileInv ==
  ASSUME RuntimeInv, NEW p \in Protocol, NEW enabled \in BOOLEAN, NEW status \in Container,
         EditProfile(p, enabled, status)
  PROVE  RuntimeInv'
PROOF
<1>1. RuntimeTypeOK'
  <2>1. profile' \in [Protocol -> Row]
    BY DEF EditProfile, RuntimeInv, RuntimeTypeOK, Row
  <2>2. changes' \in 0..MaxChanges
    BY RuntimeAssumption DEF EditProfile, RuntimeInv, RuntimeTypeOK
  <2> QED
    BY <2>1, <2>2 DEF EditProfile, RuntimeInv, RuntimeTypeOK, Busy
<1>2. Busy' \ disturbed' = {}
  BY DEF EditProfile, Busy
<1> QED
  BY <1>1, <1>2 DEF RuntimeInv

LEMMA ContainerChangesInv ==
  ASSUME RuntimeInv, NEW p \in Protocol, NEW state \in Container, ContainerChanges(p, state)
  PROVE  RuntimeInv'
BY RuntimeAssumption DEF ContainerChanges, RuntimeInv, RuntimeTypeOK, Busy, Watching, Known

LEMMA RuntimeNextInv ==
  ASSUME RuntimeInv, [Next]_vars
  PROVE  RuntimeInv'
PROOF
<1>1. CASE UNCHANGED runtimeVars
  BY <1>1 DEF runtimeVars, RuntimeInv, RuntimeTypeOK, Busy, Watching, Known
<1>2. ASSUME NEW w \in Syncer, SyncStep(w) PROVE RuntimeInv'
  <2>1. CASE UpdateHealth(w)
    <3>1. health' \in Health
      BY <2>1 DEF UpdateHealth, RuntimeInv, RuntimeTypeOK, SyncerState
    <3> QED
      BY <2>1, <3>1, EndsInv DEF UpdateHealth
  <2>2. CASE SyncFails(w)
    BY <2>2, EndsInv DEF SyncFails, Health
  <2> QED
    BY <1>2, <2>1, <2>2, StartSyncInv, ListRunningInv, LoadProfileInv, InspectInv, ProbeInv,
       ReadConfigInv, SaveProfileInv, EvaluateInv DEF SyncStep
<1>3. CASE RuntimeNext
  BY <1>2, <1>3, EditProfileInv, ContainerChangesInv DEF RuntimeNext
<1> QED
  BY <1>1, <1>3 DEF Next, vars

LEMMA RuntimeInitialInv == Init => RuntimeInv
PROOF
<1> SUFFICES ASSUME RuntimeInit PROVE RuntimeInv
  BY DEF Init
<1>1. RuntimeTypeOK
  BY RuntimeAssumption, IdleSyncerTyped DEF RuntimeInit, RuntimeTypeOK, Health
<1>2. Busy = {}
  BY IdleSyncerTyped DEF RuntimeInit, Busy
<1> QED
  BY <1>1, <1>2 DEF RuntimeInv

LEMMA AlwaysRuntimeInv == Spec => []RuntimeInv
BY RuntimeInitialInv, RuntimeNextInv, PTL DEF Spec

\* Every variable of the syncs and of the scripts has its type.
THEOREM TypeCorrect == Spec => []TypeOK
PROOF
<1>1. Init => task \in {"runtime", "backups"}
  BY DEF Init
<1>2. task \in {"runtime", "backups"} /\ [Next]_vars => (task \in {"runtime", "backups"})'
  BY DEF Next, vars
<1>3. task \in {"runtime", "backups"} /\ RuntimeInv /\ BackupInv => TypeOK
  BY DEF RuntimeInv, BackupInv, TypeOK
<1> QED
  BY <1>1, <1>2, <1>3, AlwaysInv, AlwaysRuntimeInv, PTL DEF Spec

\* A sync that nothing disturbed calls a server healthy only if it saw each of its enabled
\* protocols run with a whole configuration, however containers stopped and started meanwhile.
THEOREM HealthyAlwaysSeen == Spec => HealthyWasSeen
PROOF
<1> DEFINE Honest == \A w \in Busy \ disturbed :
                       UpdateHealth(w) /\ health' = "healthy" => Enabled(profile) \subseteq seen
<1>1. ASSUME RuntimeInv PROVE [Honest]_vars
  <2> SUFFICES ASSUME NEW w \in Busy \ disturbed, UpdateHealth(w), health' = "healthy"
               PROVE  Enabled(profile) \subseteq seen
    OBVIOUS
  <2>1. Watching(w) /\ syncer[w].pc = "update" /\ syncer[w].verdict = "healthy"
    BY <1>1 DEF RuntimeInv, UpdateHealth
  <2>2. HealthOf(profile) = "healthy" /\ \A p \in Protocol : Known(p)
    BY <2>1 DEF Watching
  <2>3. Usable(profile) = Enabled(profile)
    BY <2>2 DEF HealthOf
  <2> QED
    BY <2>2, <2>3 DEF Usable, Enabled, Known, Works
<1> QED
  BY <1>1, AlwaysRuntimeInv, PTL DEF Spec, HealthyWasSeen
=============================================================================
