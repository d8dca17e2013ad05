-------------------------- MODULE LimitEnforcement --------------------------
(***************************************************************************)
(* The periodic task that enforces the clients' limits                     *)
(* (vpn/tasks.py, VPNClientLimitsService in vpn/services.py).  Every few   *)
(* minutes beat starts a run: it copies the traffic counters of the        *)
(* servers into the rows, then loads all active clients once and disables  *)
(* those over a limit one by one, each with a command on its server.       *)
(* Beside it operators change limits and clients, servers come and go, and *)
(* a run can be killed.  An operator's request is one step here; what its  *)
(* own commands can do half-way is the subject of ClientLifecycle.         *)
(***************************************************************************)
EXTENDS Integers, FiniteSets

CONSTANTS
  Client,
  Server,
  ServerOf,    \* the server of each client
  Expiring,    \* the clients operators give an expiry to
  Metered,     \* the clients operators give a traffic limit to
  Run,         \* Celery processes that execute the task
  MaxTraffic,  \* bound on the traffic counters
  MaxKills     \* bound on the runs that are killed or meet a database error

ASSUME EnforcementAssumption ==
  /\ ServerOf \in [Client -> Server]
  /\ Expiring \subseteq Client /\ Metered \subseteq Client
  /\ MaxTraffic \in Nat /\ MaxKills \in Nat

Status == {"active", "disabled", "deleted"}
LimitState == {"active", "expired", "traffic_exceeded"}
Traffic == 0..MaxTraffic
PC == {"idle", "sync", "load", "enforce", "commit"}

\* What a run has in its list for a client: nothing, nothing left to do, a new
\* limit state to show, or the limit for which it is to be disabled.
Verdict == {"none", "refresh", "expired", "traffic_exceeded"}

VARIABLES
  row,      \* committed VPNClient rows; expired: expires_at has passed; quota 0: no limit
  peer,     \* the clients whose peer is on its server's interface
  counter,  \* the interface's transfer counter of each client's peer
  up,       \* the servers whose commands succeed
  run,      \* what each process does: where it is, and what it loaded
  kills,    \* runs killed so far
  touched,  \* history: clients of a run's list that others changed since it was loaded
  revived   \* history: clients that an operator reissued while they were not active,
            \*          reconnected behind the back of the run that was disabling them,
            \*          or tried to enable, over their limit, while they had a peer

vars == <<row, peer, counter, up, run, kills, touched, revived>>
environment == <<peer, counter, up>>

Row == [status : Status, shown : LimitState, expired : BOOLEAN, quota : Traffic, used : Traffic]

\* `groups` are the servers still to be asked, `seen` the used traffic of the
\* clients loaded for that (-1: not loaded).
RunState == [pc : PC, groups : SUBSET Server, seen : [Client -> Traffic \cup {-1}],
             verdict : [Client -> Verdict], current : SUBSET Client]

-----------------------------------------------------------------------------
NotSeen == [c \in Client |-> -1]
NoVerdict == [c \in Client |-> "none"]
Idle == [pc |-> "idle", groups |-> {}, seen |-> NotSeen, verdict |-> NoVerdict, current |-> {}]

\* Mutation: the limit is exceeded, not reached.
LimitStateAboveQuota(r) ==
  IF r.expired THEN "expired"
  ELSE IF r.quota # 0 /\ r.used > r.quota THEN "traffic_exceeded" ELSE "active"

\* get_limit_state
LimitStateOf(r) ==
  IF r.expired THEN "expired"
  ELSE IF r.quota # 0 /\ r.used >= r.quota THEN "traffic_exceeded" ELSE "active"

Active(c) == row[c].status = "active"
Due(c) == LimitStateOf(row[c]) # "active"
ClientsOf(s) == {c \in Client : ServerOf[c] = s}

\* The runs that still have one of these clients in their list.
Touch(clients) ==
  [t \in Run |-> touched[t] \cup {c \in clients : run[t].verdict[c] # "none"}]

-----------------------------------------------------------------------------
\* enforce_client_limits_task: sync_traffic_usage loads the active clients and
\* groups them by server.
StartSync(t) ==
  LET listed == {c \in Client : Active(c)} IN
  /\ run[t].pc = "idle"
  /\ run' = [run EXCEPT ![t] = [Idle EXCEPT
       !.pc = IF listed = {} THEN "load" ELSE "sync",
       !.groups = {ServerOf[c] : c \in listed},
       !.seen = [c \in Client |-> IF c \in listed THEN row[c].used ELSE -1]]]
  /\ UNCHANGED <<row, environment, kills, touched, revived>>

\* The counter saved for a client: nothing is written for a peer that is not on
\* the interface, or when it equals what was loaded.
Synced(t, c) ==
  IF c \in peer /\ run[t].seen[c] \notin {-1, counter[c]} THEN counter[c] ELSE row[c].used

\* One group: peer_transfer_map, which gives nothing for a server that cannot be
\* reached, and the saves of its clients.
SyncServer(t, s) ==
  /\ run[t].pc = "sync" /\ s \in run[t].groups
  /\ row' = [c \in Client |->
       IF s \in up /\ c \in ClientsOf(s) THEN [row[c] EXCEPT !.used = Synced(t, c)] ELSE row[c]]
  /\ run' = [run EXCEPT ![t].groups = @ \ {s},
                        ![t].seen = [c \in Client |-> IF c \in ClientsOf(s) THEN -1 ELSE @[c]],
                        ![t].pc = IF run[t].groups = {s} THEN "load" ELSE "sync"]
  /\ touched' = Touch({c \in Client : row'[c] # row[c]})
  /\ UNCHANGED <<environment, kills, revived>>

\* Mutation: a client within its limits is disabled too.
JudgedByStateAlone(r) == IF r.status = "active" THEN LimitStateOf(r) ELSE "none"

\* Mutation: the query does not select active clients.
JudgedWhateverStatus(r) ==
  IF LimitStateOf(r) # "active" THEN LimitStateOf(r)
  ELSE IF r.shown # "active" THEN "refresh" ELSE "none"

\* Mutation: clients whose limit state was noted before are passed over.
JudgedByShownState(r) ==
  IF r.status # "active" \/ r.shown # "active" THEN "none"
  ELSE IF LimitStateOf(r) # "active" THEN LimitStateOf(r) ELSE "none"

\* What enforce_limits is going to do with a client, from the row and the time
\* it loads at its start.
Judged(r) ==
  IF r.status # "active" THEN "none"
  ELSE IF LimitStateOf(r) # "active" THEN LimitStateOf(r)
  ELSE IF r.shown # "active" THEN "refresh" ELSE "none"

LoadClients(t) ==
  /\ run[t].pc = "load"
  /\ run' = [run EXCEPT ![t] = [Idle EXCEPT !.pc = "enforce",
                                  !.verdict = [c \in Client |-> Judged(row[c])]]]
  /\ touched' = [touched EXCEPT ![t] = {}]
  /\ UNCHANGED <<row, environment, kills, revived>>

\* limit_state of a client that is within its limits
RefreshShown(t, c) ==
  /\ run[t].pc = "enforce" /\ run[t].verdict[c] = "refresh"
  /\ row' = [row EXCEPT ![c].shown = "active"]
  /\ run' = [run EXCEPT ![t].verdict[c] = "none"]
  /\ UNCHANGED <<environment, kills, touched, revived>>

\* set_status(DISABLED): `wg set ... peer <key> remove`
CutPeer(t, c) ==
  /\ run[t].pc = "enforce" /\ run[t].verdict[c] \in {"expired", "traffic_exceeded"}
  /\ ServerOf[c] \in up
  /\ peer' = peer \ {c}
  /\ run' = [run EXCEPT ![t].pc = "commit", ![t].current = {c}]
  /\ UNCHANGED <<row, counter, up, kills, touched, revived>>

\* The rest of set_status, and its commit.
CommitDisable(t, c) ==
  /\ run[t].pc = "commit" /\ c \in run[t].current
  /\ row' = [row EXCEPT ![c].status = "disabled", ![c].shown = run[t].verdict[c]]
  /\ run' = [run EXCEPT ![t].pc = "enforce", ![t].verdict[c] = "none", ![t].current = {}]
  /\ revived' = IF c \in touched[t] /\ c \in peer THEN revived \cup {c} ELSE revived
  /\ UNCHANGED <<environment, kills, touched>>

Finish(t) ==
  /\ run' = [run EXCEPT ![t] = Idle]
  /\ touched' = [touched EXCEPT ![t] = {}]
  /\ UNCHANGED <<row, environment, revived>>

\* Mutation: the failed command is swallowed and the status saved.
UnreachableStillDisables(t, c) ==
  /\ run[t].pc = "enforce" /\ run[t].verdict[c] \in {"expired", "traffic_exceeded"}
  /\ ServerOf[c] \notin up
  /\ row' = [row EXCEPT ![c].status = "disabled", ![c].shown = run[t].verdict[c]]
  /\ run' = [run EXCEPT ![t].verdict[c] = "none"]
  /\ UNCHANGED <<environment, kills, touched, revived>>

\* The command fails, set_status raises, and nothing in the loop catches it.
Unreachable(t, c) ==
  /\ run[t].pc = "enforce" /\ run[t].verdict[c] \in {"expired", "traffic_exceeded"}
  /\ ServerOf[c] \notin up
  /\ Finish(t) /\ UNCHANGED kills

EndRun(t) ==
  /\ run[t].pc = "enforce" /\ run[t].verdict = NoVerdict
  /\ Finish(t) /\ UNCHANGED kills

\* The time limit of the task, a database error, the death of the process.
Kill(t) ==
  /\ run[t].pc # "idle" /\ kills < MaxKills
  /\ Finish(t) /\ kills' = kills + 1

-----------------------------------------------------------------------------
\* The operators' requests.  One that needs a command does nothing when its
\* server cannot be reached: its transaction is rolled back.
OperatorActs(c) == touched' = Touch({c}) /\ UNCHANGED <<up, run, kills>>

\* update_limits: a form gives both limits, an expiry that has passed included.
UpdateLimits(c, expired, quota) ==
  LET new == [row[c] EXCEPT !.expired = expired, !.quota = quota] IN
  /\ expired => c \in Expiring
  /\ quota # 0 => c \in Metered
  /\ row' = [row EXCEPT ![c] = [new EXCEPT !.shown = LimitStateOf(new)]]
  /\ OperatorActs(c)
  /\ UNCHANGED <<peer, counter, revived>>

\* set_status(DISABLED) and set_status(DELETED), whatever the status before.
Disconnect(c, status) ==
  /\ ServerOf[c] \in up
  /\ row' = [row EXCEPT ![c].status = status]
  /\ peer' = peer \ {c} /\ revived' = revived \ {c}
  /\ OperatorActs(c)
  /\ UNCHANGED counter

\* A peer that is added starts counting from zero.
Connect(c) ==
  /\ ServerOf[c] \in up
  /\ peer' = peer \cup {c}
  /\ counter' = [counter EXCEPT ![c] = 0]

\* set_status(ACTIVE) within the limits: only a client that was disabled gets its
\* peer back, a deleted one is active without.
Activate(c) ==
  /\ ~ Due(c)
  /\ row' = [row EXCEPT ![c].status = "active", ![c].shown = "active"]
  /\ row[c].status = "disabled" => ServerOf[c] \in up
  /\ IF row[c].status = "disabled" /\ c \notin peer THEN Connect(c) ELSE UNCHANGED <<peer, counter>>
  /\ revived' = revived \ {c}
  /\ OperatorActs(c)

\* set_status(ACTIVE) over a limit: the client is saved as disabled, an active or
\* a deleted one too, and no command is run, so a peer it has keeps working.
RefuseActivation(c) ==
  /\ Due(c)
  /\ row' = [row EXCEPT ![c].status = "disabled", ![c].shown = LimitStateOf(row[c])]
  /\ revived' = IF c \in peer THEN revived \cup {c} ELSE revived
  /\ OperatorActs(c)
  /\ UNCHANGED <<peer, counter>>

\* reissue_config: the peer is replaced by a new one, whatever the status shown.
Reissue(c) ==
  /\ ~ Due(c)
  /\ Connect(c)
  /\ revived' = IF Active(c) THEN revived ELSE revived \cup {c}
  /\ OperatorActs(c)
  /\ UNCHANGED row

\* The client's expires_at passes.
Expire(c) ==
  /\ c \in Expiring /\ ~ row[c].expired
  /\ row' = [row EXCEPT ![c].expired = TRUE]
  /\ UNCHANGED <<environment, run, kills, touched, revived>>

UseTraffic(c) ==
  /\ c \in Metered \cap peer /\ counter[c] < MaxTraffic
  /\ counter' = [counter EXCEPT ![c] = @ + 1]
  /\ UNCHANGED <<row, peer, up, run, kills, touched, revived>>

\* The container restarts: its interface counts from zero again.
RestartContainer(s) ==
  /\ s \in up
  /\ counter' = [c \in Client |-> IF c \in ClientsOf(s) THEN 0 ELSE counter[c]]
  /\ UNCHANGED <<row, peer, up, run, kills, touched, revived>>

ServerFails(s) ==
  /\ s \in up /\ up' = up \ {s}
  /\ UNCHANGED <<row, peer, counter, run, kills, touched, revived>>

ServerReturns(s) ==
  /\ s \notin up /\ up' = up \cup {s}
  /\ UNCHANGED <<row, peer, counter, run, kills, touched, revived>>

-----------------------------------------------------------------------------
Init ==
  /\ row = [c \in Client |-> [status |-> "active", shown |-> "active", expired |-> FALSE,
                              quota |-> 0, used |-> 0]]
  /\ peer = Client /\ counter = [c \in Client |-> 0] /\ up = Server
  /\ run = [t \in Run |-> Idle] /\ kills = 0
  /\ touched = [t \in Run |-> {}] /\ revived = {}

\* What a run does of itself: beat starts it, and it goes on.
Work(t) ==
  \/ StartSync(t) \/ LoadClients(t) \/ EndRun(t)
  \/ \E s \in Server : SyncServer(t, s)
  \/ \E c \in Client : RefreshShown(t, c) \/ CutPeer(t, c) \/ CommitDisable(t, c) \/ Unreachable(t, c)

Operator(c) ==
  \/ \E expired \in BOOLEAN, quota \in Traffic : UpdateLimits(c, expired, quota)
  \/ \E status \in {"disabled", "deleted"} : Disconnect(c, status)
  \/ Activate(c) \/ RefuseActivation(c) \/ Reissue(c)

Environment ==
  \/ \E t \in Run : Kill(t)
  \/ \E c \in Client : Expire(c) \/ UseTraffic(c)
  \/ \E s \in Server : RestartContainer(s) \/ ServerFails(s) \/ ServerReturns(s)

Next == (\E t \in Run : Work(t)) \/ (\E c \in Client : Operator(c)) \/ Environment

\* Beat keeps starting runs, and a run that is not killed goes on; its list is
\* finite and every command returns or fails within the executor's timeout.
\* Nothing is assumed of operators, servers or time.
Fairness == \A t \in Run : WF_vars(Work(t))

Spec == Init /\ [][Next]_vars /\ Fairness

-----------------------------------------------------------------------------
TypeOK ==
  /\ row \in [Client -> Row]
  /\ peer \subseteq Client /\ counter \in [Client -> Traffic] /\ up \subseteq Server
  /\ run \in [Run -> RunState] /\ kills \in 0..MaxKills
  /\ touched \in [Run -> SUBSET Client] /\ revived \subseteq Client

\* A client shown as disabled has no peer, although runs disable from rows they
\* loaded earlier and are killed between the command and the commit.  Three requests
\* of an operator break that, and only they: reissuing a client that is not active,
\* reconnecting one while a run is disabling it, and enabling an active one that is
\* over its limit, which the panel then calls disabled and does not cut.
DisabledIsCut ==
  \A c \in Client : row[c].status = "disabled" /\ c \notin revived => c \notin peer

\* A run disables a client only if it is over a limit at that moment and not
\* deleted, as long as nobody changed the client since the run loaded its list.
DisablesOnlyDue ==
  [][\A t \in Run, c \in Client :
       c \in run[t].current /\ c \notin run'[t].current /\ row'[c].status = "disabled"
       /\ c \notin touched[t] => row[c].status # "deleted" /\ Due(c)]_vars

NeedsCut(c) == Active(c) /\ Due(c)
Listed(c) == \E t \in Run : run[t].verdict[c] \in {"expired", "traffic_exceeded"}

\* From some time on no run meets an unreachable server in its loop.
LoopUndisturbed == \A c \in Client : NeedsCut(c) \/ Listed(c) => ServerOf[c] \in up

\* No client stays active over its limit for ever, whatever other servers are
\* unreachable, provided that from some time on none of these has a client that
\* is over a limit too.
EventuallyEnforced ==
  <>[]LoopUndisturbed => \A c \in Client : []<> ~ NeedsCut(c)

\* Nor does one whose traffic on the interface has reached its limit, when its
\* own server stays reachable.
QuotaEnforced ==
  \A c \in Client : <>[](LoopUndisturbed /\ ServerOf[c] \in up) =>
    []<> ~ (Active(c) /\ c \in peer /\ row[c].quota # 0 /\ counter[c] >= row[c].quota)
=============================================================================
