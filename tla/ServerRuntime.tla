--------------------------- MODULE ServerRuntime ---------------------------
(***************************************************************************)
(* The synchronisation of what is known of a server with its Docker host,  *)
(* and the health that is derived from it (servers/services.py).  A sync   *)
(* is a series of SSH commands: the lists of containers, then for each     *)
(* protocol an inspection, a probe of the interface and a search for the   *)
(* configuration, and a save of the protocol's row.  Syncs run in the      *)
(* workers of the web server, unlocked, while containers stop and start    *)
(* and an administrator edits the rows.                                    *)
(***************************************************************************)
EXTENDS Integers, FiniteSets

CONSTANTS
  Syncer,      \* web workers that can run a sync
  AtFirst,     \* states of the containers when the server is added
  MaxChanges   \* bound on changes to containers and edits by administrators

Protocol == {"awg", "awg2"}
Container == {"running", "exited", "missing"}

ASSUME RuntimeAssumption == AtFirst \subseteq Container /\ MaxChanges \in Nat

Health == {"unknown", "healthy", "degraded", "unhealthy"}

\* peer_source, as far as evaluate_health tells its values apart
Source == {"none", "dump", "failed", "fallback"}

VARIABLES
  host,      \* the containers
  profile,   \* ServerProtocol rows; `ready` stands for the readiness flags of the metadata
  health,    \* Server.health_status
  syncer,    \* what each worker does
  changes,   \* changes so far
  disturbed, \* history: workers whose sync overlaps another sync or an edit
  seen       \* history: protocols that the sync saw working, if it is undisturbed

runtimeVars == <<host, profile, health, syncer, changes, seen, disturbed>>

NoRow == [exists |-> FALSE, enabled |-> TRUE, status |-> "", ready |-> FALSE, source |-> "none"]
Row ==
  [exists : BOOLEAN, enabled : BOOLEAN, status : Container \cup {""},
   ready : BOOLEAN, source : Source]

\* `held` is the row of the current protocol, as the sync will save it.
IdleSyncer == [pc |-> "idle", all |-> {}, running |-> {}, protocol |-> "awg",
               held |-> NoRow, verdict |-> "unknown"]
Pc == {"idle", "running_names", "load", "inspect", "probe", "config", "save", "evaluate", "update"}
SyncerState ==
  [pc : Pc, all : SUBSET Protocol, running : SUBSET Protocol, protocol : Protocol,
   held : Row, verdict : Health]

Busy == {w \in Syncer : syncer[w].pc # "idle"}

-----------------------------------------------------------------------------
\* evaluate_health after a sync
Enabled(rows) == {p \in Protocol : rows[p].exists /\ rows[p].enabled}
Usable(rows) == {p \in Enabled(rows) : rows[p].status = "running" /\ rows[p].ready}
Fallback(rows) == {p \in Enabled(rows) \cap {"awg2"} : rows[p].source = "fallback"}

HealthOf(rows) ==
  IF Usable(rows) = {} THEN "unhealthy"
  ELSE IF Usable(rows) # Enabled(rows) \/ Fallback(rows) # {} THEN "degraded" ELSE "healthy"

\* Mutation: the row of a container that is gone keeps what was known of it.
MissingKept(row) == row

\* The row of a protocol whose container is not on the host.
Missing(row) == [row EXCEPT !.status = "missing", !.ready = FALSE, !.source = "none"]

\* peer_source of an AWG2 interface that has no dump, once a configuration is found
SourceWith(p, source, conf) ==
  IF p = "awg2" /\ conf # "none" /\ source # "dump" THEN "fallback" ELSE source

Goes(w, pc) == [syncer[w] EXCEPT !.pc = pc]
Sets(w, state) == syncer' = [syncer EXCEPT ![w] = state]

Ends(w) ==
  /\ Sets(w, IdleSyncer)
  /\ disturbed' = disturbed \ {w}
  /\ seen' = IF w \in Busy THEN {} ELSE seen
  /\ UNCHANGED <<host, profile, changes>>

-----------------------------------------------------------------------------
\* docker ps -a
StartSync(w) ==
  /\ syncer[w].pc = "idle"
  /\ Sets(w, [IdleSyncer EXCEPT !.pc = "running_names",
                !.all = {p \in Protocol : host[p] # "missing"}])
  /\ disturbed' = IF Busy = {} THEN {} ELSE Busy \cup {w}
  /\ seen' = {}
  /\ UNCHANGED <<host, profile, health, changes>>

\* docker ps
ListRunning(w) ==
  /\ syncer[w].pc = "running_names"
  /\ Sets(w, [Goes(w, "load") EXCEPT !.running = {p \in Protocol : host[p] = "running"}])
  /\ UNCHANGED <<host, profile, health, changes, seen, disturbed>>

\* get_or_create.  The sync will save a new row as enabled if its container runs,
\* an old one as it was loaded.
LoadProfile(w) ==
  LET s == syncer[w]
      p == s.protocol
      row == [profile[p] EXCEPT !.exists = TRUE]
      held == IF profile[p].exists THEN row ELSE [row EXCEPT !.enabled = p \in s.running] IN
  /\ s.pc = "load"
  /\ profile' = [profile EXCEPT ![p] = row]
  /\ Sets(w, IF p \in s.all THEN [s EXCEPT !.pc = "inspect", !.held = held]
             ELSE [s EXCEPT !.pc = "save", !.held = Missing(held)])
  /\ UNCHANGED <<host, health, changes, seen, disturbed>>

\* docker inspect; the rest is asked of containers that docker ps listed only.
Inspect(w) ==
  LET s == syncer[w]
      p == s.protocol IN
  /\ s.pc = "inspect" /\ host[p] # "missing"
  /\ Sets(w, [s EXCEPT !.pc = IF p \in s.running THEN "probe" ELSE "save",
                !.held.status = host[p], !.held.ready = FALSE, !.held.source = "none"])
  /\ UNCHANGED <<host, profile, health, changes, seen, disturbed>>

\* wg show interfaces, wg show dump: without an answer the sync goes on.  The
\* AWG2 dump may be unsupported, which counts as a fallback.
Probe(w, source) ==
  LET s == syncer[w] IN
  /\ s.pc = "probe"
  /\ \/ source = "failed"
     \/ source = "dump" /\ host[s.protocol] = "running"
     \/ source = "fallback" /\ host[s.protocol] = "running" /\ s.protocol = "awg2"
  /\ Sets(w, [s EXCEPT !.pc = "config", !.held.source = source])
  /\ UNCHANGED <<host, profile, health, changes, seen, disturbed>>

\* cat of the candidate paths; what fails is passed over.  A configuration may
\* lack the address or the parameters that the protocol needs.
ReadConfig(w, conf) ==
  LET s == syncer[w]
      p == s.protocol IN
  /\ s.pc = "config"
  /\ conf = "none" \/ host[p] = "running"
  /\ Sets(w, [s EXCEPT !.pc = "save",
                !.held.ready = conf = "whole", !.held.source = SourceWith(p, @, conf)])
  /\ seen' = IF conf = "whole" /\ s.held.status = "running" /\ w \notin disturbed
             THEN seen \cup {p} ELSE seen
  /\ UNCHANGED <<host, profile, health, changes, disturbed>>

\* protocol.save
SaveProfile(w) ==
  LET s == syncer[w]
      p == s.protocol IN
  /\ s.pc = "save"
  /\ profile' = [profile EXCEPT ![p] = s.held]
  /\ Sets(w, IF p = "awg" THEN [s EXCEPT !.pc = "load", !.protocol = "awg2", !.held = IdleSyncer.held]
             ELSE [IdleSyncer EXCEPT !.pc = "evaluate"])
  /\ UNCHANGED <<host, health, changes, seen, disturbed>>

\* evaluate_health reads the rows again, update_health saves the verdict.
Evaluate(w) ==
  /\ syncer[w].pc = "evaluate"
  /\ Sets(w, [Goes(w, "update") EXCEPT !.verdict = HealthOf(profile)])
  /\ UNCHANGED <<host, profile, health, changes, seen, disturbed>>

UpdateHealth(w) ==
  /\ syncer[w].pc = "update"
  /\ health' = syncer[w].verdict
  /\ Ends(w)

\* A list or an inspection fails, the first one too; server_sync_runtime_view notes it.  The rows
\* saved so far stay.
SyncFails(w) ==
  /\ syncer[w].pc \in {"idle", "running_names", "inspect"}
  /\ health' = "unhealthy"
  /\ Ends(w)

\* The admin site saves the form it showed: an older status comes back with it.
EditProfile(p, enabled, status) ==
  /\ changes < MaxChanges /\ profile[p].exists
  /\ changes' = changes + 1
  /\ profile' = [profile EXCEPT ![p].enabled = enabled, ![p].status = status]
  /\ disturbed' = disturbed \cup Busy /\ seen' = {}
  /\ UNCHANGED <<host, health, syncer>>

ContainerChanges(p, state) ==
  /\ changes < MaxChanges /\ host[p] # state
  /\ changes' = changes + 1
  /\ host' = [host EXCEPT ![p] = state]
  /\ UNCHANGED <<profile, health, syncer, seen, disturbed>>

RuntimeInit ==
  /\ host \in [Protocol -> AtFirst]
  /\ profile = [p \in Protocol |-> NoRow] /\ health = "unknown"
  /\ syncer = [w \in Syncer |-> IdleSyncer] /\ changes = 0
  /\ seen = {} /\ disturbed = {}

SyncStep(w) ==
  \/ StartSync(w) \/ ListRunning(w) \/ LoadProfile(w) \/ Inspect(w)
  \/ \E source \in Source : Probe(w, source)
  \/ \E conf \in {"none", "partial", "whole"} : ReadConfig(w, conf)
  \/ SaveProfile(w) \/ Evaluate(w) \/ UpdateHealth(w) \/ SyncFails(w)

RuntimeNext ==
  \/ \E w \in Syncer : SyncStep(w)
  \/ \E p \in Protocol :
       \/ \E enabled \in BOOLEAN, status \in Container : EditProfile(p, enabled, status)
       \/ \E state \in Container : ContainerChanges(p, state)

RuntimeTypeOK ==
  /\ host \in [Protocol -> Container] /\ profile \in [Protocol -> Row] /\ health \in Health
  /\ syncer \in [Syncer -> SyncerState] /\ changes \in 0..MaxChanges
  /\ seen \subseteq Protocol /\ disturbed \subseteq Syncer
=============================================================================
