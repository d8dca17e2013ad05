------------------------------ MODULE Backups ------------------------------
(***************************************************************************)
(* Backup, retention and restore (scripts/backup_all.sh, verify_backup.sh, *)
(* cleanup_backups.sh, restore_all.sh) while the application stays up and  *)
(* clients upload attachments.  An upload writes its file and then the     *)
(* row that names it; no code deletes the file of a row.  A backup writes  *)
(* its artifacts one after the other and can stop after any of them.       *)
(***************************************************************************)
EXTENDS Integers, Sequences, FiniteSets

CONSTANTS
  Attachment,
  KeepCount,   \* KEEP_COUNT
  MaxBackups   \* bound on backups

ASSUME BackupsAssumption == KeepCount \in Nat \ {0} /\ MaxBackups \in Nat

VARIABLES
  used,      \* the names given to attachments, which are never given twice
  rows,      \* the attachments that rows of the database name
  files,     \* the attachments on the media volume
  writing,   \* uploads that have written their file and not their row
  dirs,      \* backups/runs by time; a removed directory is Removed
  backup,    \* the next artifact of the running backup, or 0
  cleaning,  \* the directories that a running cleanup will remove
  restore,   \* what the restore does and from which directory
  chosen,    \* history: the directory as it was when the restore verified it
  touched,   \* history: whether an upload went on during the restore
  cleared    \* history: attachments that a restore took off the volume

backupVars == <<used, rows, files, writing, dirs, backup, cleaning, restore, chosen, touched, cleared>>
restoreVars == <<restore, chosen, touched, cleared>>

\* Mutation: the media volume is archived before the database.
ArtifactsMediaFirst == <<"media", "db", "env", "meta", "sums">>

\* The order in which backup_all.sh writes its artifacts.
Artifacts == <<"db", "media", "env", "meta", "sums">>

\* A directory has the artifacts that were completed, with the attachments that
\* the dump names and the archive holds.  One that was cut off counts as missing:
\* the checksums come last, so there are none then.
Empty == [has |-> {}, named |-> {}, held |-> {}]
Directory == [has : SUBSET {"db", "media", "env", "meta", "sums"},
              named : SUBSET Attachment, held : SUBSET Attachment]
Removed == [Empty EXCEPT !.has = {"removed"}]

NoRestore == [pc |-> "idle", from |-> 0]

Present == {i \in 1..Len(dirs) : dirs[i] # Removed}
Newer(i) == Cardinality({j \in Present : j > i})

\* verify_backup.sh: every file is there and matches the checksums, which are
\* written last.
Verifies(d) == {"db", "media", "env", "meta", "sums"} \subseteq d.has

-----------------------------------------------------------------------------
Touches == touched' = (restore # NoRestore) /\ UNCHANGED <<restore, chosen, cleared>>

\* FieldFile.pre_save, then the INSERT or UPDATE, which needs the tables and may fail
WriteFile(a) ==
  /\ a \notin used
  /\ used' = used \cup {a}
  /\ files' = files \cup {a} /\ writing' = writing \cup {a}
  /\ Touches
  /\ UNCHANGED <<rows, dirs, backup, cleaning>>

EndUpload(a, saved) ==
  /\ a \in writing
  /\ writing' = writing \ {a}
  /\ saved => restore.pc # "load"
  /\ rows' = IF saved THEN rows \cup {a} ELSE rows
  /\ Touches
  /\ UNCHANGED <<used, files, dirs, backup, cleaning>>

-----------------------------------------------------------------------------
\* mkdir "$RUN_DIR", after the checks
StartBackup ==
  /\ backup = 0 /\ Len(dirs) < MaxBackups
  /\ dirs' = Append(dirs, Empty) /\ backup' = 1
  /\ UNCHANGED <<used, rows, files, writing, cleaning, restoreVars>>

\* Mutation: the backup does not end with its last artifact.
WriteArtifactUnended ==
  LET last == Len(dirs)
      artifact == Artifacts[backup] IN
  /\ backup \in DOMAIN Artifacts
  /\ dirs' = [dirs EXCEPT ![last] =
       [has |-> @.has \cup {artifact},
        named |-> IF artifact = "db" THEN rows ELSE @.named,
        held |-> IF artifact = "media" THEN files ELSE @.held]]
  /\ backup' = backup + 1
  /\ UNCHANGED <<used, rows, files, writing, cleaning, restoreVars>>

\* pg_dump reads one snapshot.  tar holds the files that were there when it started.
WriteArtifact ==
  LET last == Len(dirs)
      artifact == Artifacts[backup] IN
  /\ backup \in DOMAIN Artifacts
  /\ dirs' = [dirs EXCEPT ![last] =
       [has |-> @.has \cup {artifact},
        named |-> IF artifact = "db" THEN rows ELSE @.named,
        held |-> IF artifact = "media" THEN files ELSE @.held]]
  /\ backup' = IF backup = Len(Artifacts) THEN 0 ELSE backup + 1
  /\ UNCHANGED <<used, rows, files, writing, cleaning, restoreVars>>

\* set -e, a full disk, a reboot: the directory stays.
BackupStops ==
  /\ backup # 0 /\ backup' = 0
  /\ UNCHANGED <<used, rows, files, writing, dirs, cleaning, restoreVars>>

-----------------------------------------------------------------------------
\* The list of directories is read once.
StartCleanup ==
  /\ cleaning = {} /\ Cardinality(Present) > KeepCount
  /\ cleaning' = {i \in Present : Newer(i) >= KeepCount}
  /\ UNCHANGED <<used, rows, files, writing, dirs, backup, restoreVars>>

RemoveDirectory(i) ==
  /\ i \in cleaning
  /\ dirs' = [dirs EXCEPT ![i] = Removed] /\ cleaning' = cleaning \ {i}
  /\ UNCHANGED <<used, rows, files, writing, backup, restoreVars>>

-----------------------------------------------------------------------------
\* verify_backup.sh, the checks, the confirmation
StartRestore(i) ==
  /\ restore = NoRestore /\ i \in Present /\ Verifies(dirs[i])
  /\ restore' = [pc |-> "schema", from |-> i]
  /\ chosen' = dirs[i] /\ touched' = FALSE
  /\ UNCHANGED <<used, rows, files, writing, dirs, backup, cleaning, cleared>>

RestoreGoes(pc) ==
  /\ restore' = IF pc = "idle" THEN NoRestore ELSE [restore EXCEPT !.pc = pc]
  /\ chosen' = IF pc = "idle" THEN Empty ELSE chosen
  /\ touched' = IF pc = "idle" THEN FALSE ELSE touched
  /\ UNCHANGED <<used, writing, dirs, backup, cleaning>>

\* DROP SCHEMA runs whether or not the dump can be read.
DropSchema ==
  /\ restore.pc = "schema" /\ RestoreGoes("load")
  /\ rows' = {}
  /\ UNCHANGED <<files, cleared>>

LoadDump ==
  /\ restore.pc = "load" /\ RestoreGoes("volume")
  /\ "db" \in dirs[restore.from].has
  /\ rows' = dirs[restore.from].named
  /\ UNCHANGED <<files, cleared>>

ClearVolume ==
  /\ restore.pc = "volume" /\ RestoreGoes("unpack")
  /\ files' = {} /\ cleared' = cleared \cup files
  /\ UNCHANGED rows

\* Mutation: that tar fails goes unnoticed.
UnpackWhatIsThere ==
  /\ restore.pc = "unpack" /\ RestoreGoes("env")
  /\ files' = files \cup dirs[restore.from].held
  /\ UNCHANGED <<rows, cleared>>

UnpackMedia ==
  /\ restore.pc = "unpack" /\ RestoreGoes("env")
  /\ "media" \in dirs[restore.from].has
  /\ files' = files \cup dirs[restore.from].held
  /\ UNCHANGED <<rows, cleared>>

\* .env is copied if --restore-env asks for it.
FinishRestore ==
  /\ restore.pc = "env" /\ RestoreGoes("idle")
  /\ UNCHANGED <<rows, files, cleared>>

\* Any step can fail, for want of the directory too; nothing is undone.
RestoreStops ==
  /\ restore # NoRestore /\ RestoreGoes("idle")
  /\ UNCHANGED <<rows, files, cleared>>

-----------------------------------------------------------------------------
BackupInit ==
  /\ used = {} /\ rows = {} /\ files = {} /\ writing = {}
  /\ dirs = <<>> /\ backup = 0 /\ cleaning = {}
  /\ restore = NoRestore /\ chosen = Empty /\ touched = FALSE /\ cleared = {}

Uploading == \E a \in Attachment : WriteFile(a) \/ \E saved \in BOOLEAN : EndUpload(a, saved)
BackingUp == StartBackup \/ WriteArtifact \/ BackupStops
Cleaning == StartCleanup \/ \E i \in cleaning : RemoveDirectory(i)
Restoring ==
  \/ \E i \in 1..Len(dirs) : StartRestore(i)
  \/ DropSchema \/ LoadDump \/ ClearVolume \/ UnpackMedia \/ FinishRestore \/ RestoreStops

BackupNext == Uploading \/ BackingUp \/ Cleaning \/ Restoring

BackupTypeOK ==
  /\ used \subseteq Attachment /\ rows \subseteq used /\ files \subseteq used
  /\ writing \subseteq used /\ cleared \subseteq used
  /\ dirs \in Seq(Directory \cup {Removed}) /\ backup \in 0..Len(Artifacts)
  /\ cleaning \subseteq 1..Len(dirs)
  /\ restore \in [pc : {"idle", "schema", "load", "volume", "unpack", "env"}, from : 0..Len(dirs)]
  /\ chosen \in Directory /\ touched \in BOOLEAN
=============================================================================
