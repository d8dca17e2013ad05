----------------------------- MODULE Operations -----------------------------
(***************************************************************************)
(* What administrators do around the clients: ServerRuntime in the web     *)
(* application, Backups from the shell of the host.  The two share nothing *)
(* that either reads, so a behaviour runs one of them: `task` says which.  *)
(***************************************************************************)
EXTENDS ServerRuntime, Backups

VARIABLE task

vars == <<task, runtimeVars, backupVars>>

\* Backups asks nothing of the containers of a server.
Init ==
  /\ task \in {"runtime", "backups"} /\ RuntimeInit /\ BackupInit
  /\ task = "backups" => \A p \in Protocol : host[p] = "missing"

Next ==
  \/ task = "runtime" /\ RuntimeNext /\ UNCHANGED <<task, backupVars>>
  \/ task = "backups" /\ BackupNext /\ UNCHANGED <<task, runtimeVars>>

Spec == Init /\ [][Next]_vars

-----------------------------------------------------------------------------
TypeOK == task \in {"runtime", "backups"} /\ RuntimeTypeOK /\ BackupTypeOK

\* A server is called healthy only if the sync that says so saw the container of every
\* enabled protocol run and read its configuration - unless it overlapped another sync
\* or an edit, whose rows evaluate_health may then have read.
HealthyWasSeen ==
  [][\A w \in Busy \ disturbed :
       UpdateHealth(w) /\ health' = "healthy" => Enabled(profile) \subseteq seen]_vars

\* A backup that verifies holds every attachment its database names, whatever was
\* uploaded while it ran and wherever it stopped - but for attachments that a restore
\* had taken off the volume.
VerifiedIsWhole ==
  \A i \in Present : Verifies(dirs[i]) => dirs[i].named \subseteq dirs[i].held \cup cleared

\* A restore that says it completed has restored all that it verified, although a
\* cleanup may have removed the directory meanwhile - unless uploads went on.
RestoredAll ==
  [][FinishRestore /\ ~ touched => rows' = chosen.named /\ chosen.held \subseteq files']_vars
=============================================================================
