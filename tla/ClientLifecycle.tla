--------------------------- MODULE ClientLifecycle ---------------------------
(***************************************************************************)
(* The life of the VPN clients of one protocol of one server: their rows   *)
(* and configuration revisions in the panel's database, the peers of the   *)
(* WireGuard interface in the Amnezia container, and the operations of     *)
(* VPNClientService that change both (vpn/services.py).                    *)
(*                                                                         *)
(* An operation runs in a web or Celery process inside one database        *)
(* transaction, and talks to the container over SSH in the middle of it.   *)
(* Its steps here are the points where other processes can see or change   *)
(* something: the load of the client object, each `wg set` command, each   *)
(* `awg-quick save`, the read of the used addresses, the read of the last  *)
(* revision number and the commit.  A failed operation rolls the database  *)
(* back; what it has done to the interface stays.                          *)
(***************************************************************************)
EXTENDS Integers, Sequences, FiniteSets

CONSTANTS
  Client,      \* client names: unique per server and protocol
  Worker,      \* gunicorn and Celery processes running operations
  Key,         \* WireGuard key pairs; a bound on how many are generated
  PoolSize,    \* the assignable hosts of the protocol's subnet are 1..PoolSize
  NoClient,    \* a worker runs no operation
  NoKey,       \* runtime_peer_public_key = ""
  NoAddr,      \* no address; on the interface: a peer without allowed-ips
  NoPeer,      \* the key is not a peer of the interface
  Violations,  \* the limits that can run out: "expired", "traffic_exceeded"
  Persistent,  \* AWG2 with a config_path: changes are saved to the config file
  Discipline   \* what is assumed of the environment, a subset of Disciplines

(***************************************************************************)
(* exclusive: no two operations run on one client at the same time.        *)
(* card: operators use the buttons the client's card offers for the        *)
(* status it shows, not the list's menu and the bulk toolbar.              *)
(* reliable: no command, transaction or process fails midway.              *)
(* quiet_restart: the container does not restart between a peer change and *)
(* the save that follows it.                                               *)
(***************************************************************************)
Disciplines == {"exclusive", "card", "reliable", "quiet_restart"}

Status == {"absent", "active", "disabled", "deleted"}
LimitState == {"active", "expired", "traffic_exceeded"}
DisableReason == {"none", "manual", "expired", "traffic_exceeded"}
Request == {"create", "reissue", "portal_reissue",
            "disable", "enable", "restore", "delete", "enforce"}
Kind == {"create", "reissue", "disable", "enable", "delete", "enforce"}
PC == {"idle", "remove", "pick", "add", "save", "endpoint", "commit"}

Addr == 1..PoolSize

ASSUME ConstantsAssumption ==
  /\ PoolSize \in Nat
  /\ NoClient \notin Client /\ NoKey \notin Key
  /\ NoAddr \notin Addr /\ NoPeer \notin Addr /\ NoAddr # NoPeer
  /\ Violations \subseteq {"expired", "traffic_exceeded"}
  /\ Persistent \in BOOLEAN
  /\ Discipline \subseteq Disciplines

VARIABLES
  row,     \* committed VPNClient rows; `due` is what get_limit_state(row) returns now
  revs,    \* committed ClientConfigRevision rows, by revision number
  live,    \* the interface: each key's allowed address
  saved,   \* the interface as the bind-mounted config file describes it
  op,      \* the operation each worker runs: where it is, and its Python objects
  used,    \* key pairs generated so far
  failed,  \* history: clients whose last operation, but for refused ones, ended in an
           \* exception
  everDeleted \* history: clients the audit log has a client.deleted entry for

vars == <<row, revs, live, saved, op, used, failed, everDeleted>>

Row == [status : Status, reason : DisableReason, due : LimitState,
        key : Key \cup {NoKey}, addr : Addr \cup {NoAddr}]
Revision == [key : Key, addr : Addr]
Peers == [Key -> Addr \cup {NoAddr, NoPeer}]

\* `seen` is the client object as loaded, `rev` the revision number to insert,
\* `key` and `addr` the peer being added, if any.
Op == [pc : PC, kind : Kind, client : Client \cup {NoClient}, seen : Row,
       key : Key \cup {NoKey}, addr : Addr \cup {NoAddr}, rev : Nat]

-----------------------------------------------------------------------------
Absent == [status |-> "absent", reason |-> "none", due |-> "active",
           key |-> NoKey, addr |-> NoAddr]

Idle == [pc |-> "idle", kind |-> "create", client |-> NoClient, seen |-> Absent,
         key |-> NoKey, addr |-> NoAddr, rev |-> 0]

\* What create_client inserts before it turns to the interface.
Fresh == [Absent EXCEPT !.status = "active"]

\* The service call a request makes: the portal calls reissue_config like the
\* operator does, and restoring a deleted client is set_status(DISABLED).
Service(request) ==
  IF request = "portal_reissue" THEN "reissue"
  ELSE IF request = "restore" THEN "disable" ELSE request

Issuing == {"create", "reissue"}

Busy(c) == \E w \in Worker : op[w].client = c

\* The button for this request on the card of a client in this status.
OnCard(request, status) ==
  /\ request = "reissue" => status # "deleted"
  /\ request = "disable" => status = "active"
  /\ request = "enable" => status = "disabled"
  /\ request = "delete" => status # "deleted"

\* The conditions the views, the tasks and the services themselves check.
Permitted(request, c) ==
  LET r == row[c] IN
  /\ request = "create" <=> r.status = "absent"
  /\ Service(request) = "reissue" => r.due = "active"
  /\ request = "portal_reissue" => r.status = "active" /\ revs[c] # <<>>
  /\ request = "restore" => r.status = "deleted"
  /\ request = "enforce" => r.status = "active" /\ r.due # "active"

\* _restore_payload: enabling puts the peer back only for a client that was
\* disabled and has a configuration.
PutsPeerBack(r, c) ==
  /\ r.due = "active" /\ r.status = "disabled"
  /\ r.key # NoKey /\ r.addr # NoAddr /\ revs[c] # <<>>

\* Mutation: reissuing forgets the old peer.
FirstStepKeepsOldPeer(kind, r, c) ==
  IF kind = "enable" THEN IF PutsPeerBack(r, c) THEN "add" ELSE "commit"
  ELSE IF kind \in Issuing THEN "pick"
  ELSE IF r.key # NoKey THEN "remove" ELSE "commit"

\* Mutation: disabling only changes the database.
FirstStepDisableDatabaseOnly(kind, r, c) ==
  IF kind = "enable" THEN IF PutsPeerBack(r, c) THEN "add" ELSE "commit"
  ELSE IF r.key # NoKey /\ kind # "disable" THEN "remove"
  ELSE IF kind \in Issuing THEN "pick" ELSE "commit"

\* Every service but enabling first removes the peer the loaded object names.
FirstStep(kind, r, c) ==
  IF kind = "enable" THEN IF PutsPeerBack(r, c) THEN "add" ELSE "commit"
  ELSE IF r.key # NoKey THEN "remove"
  ELSE IF kind \in Issuing THEN "pick" ELSE "commit"

\* The client object is loaded, and the checks are made on it.
Begin(w, c, request) ==
  /\ op[w].pc = "idle"
  /\ Permitted(request, c)
  /\ request = "create" => ~ Busy(c)   \* its INSERT waits on the unique name, then fails
  /\ "exclusive" \in Discipline => ~ Busy(c)
  /\ "card" \in Discipline => OnCard(request, row[c].status)
  /\ Service(request) \in Issuing => used # Key
  /\ LET kind == Service(request)
         seen == IF kind = "create" THEN Fresh ELSE row[c]
         back == kind = "enable" /\ PutsPeerBack(seen, c)
     IN op' = [op EXCEPT ![w] =
                 [pc |-> FirstStep(kind, seen, c), kind |-> kind, client |-> c, seen |-> seen,
                  key |-> IF back THEN seen.key ELSE NoKey,
                  addr |-> IF back THEN seen.addr ELSE NoAddr, rev |-> 0]]
  /\ UNCHANGED <<row, revs, live, saved, used, failed, everDeleted>>

-----------------------------------------------------------------------------
\* `wg set <iface> peer <old key> remove`
RemovePeer(w) ==
  /\ op[w].pc = "remove"
  /\ live' = [live EXCEPT ![op[w].seen.key] = NoPeer]
  /\ op' = [op EXCEPT ![w].pc = "save"]
  /\ UNCHANGED <<row, revs, saved, used, failed, everDeleted>>

\* Mutation: only added peers are saved, removals are not.
SaveRuntimeAfterAddOnly(w) ==
  /\ op[w].pc = "save"
  /\ saved' = IF Persistent /\ op[w].key # NoKey THEN live ELSE saved
  /\ op' = [op EXCEPT ![w].pc = IF op[w].kind \notin Issuing THEN "commit"
                                ELSE IF op[w].key = NoKey THEN "pick" ELSE "endpoint"]
  /\ UNCHANGED <<row, revs, live, used, failed, everDeleted>>

\* Mutation: only removals are saved, added peers are not.
SaveRuntimeAfterRemoveOnly(w) ==
  /\ op[w].pc = "save"
  /\ saved' = IF Persistent /\ op[w].key = NoKey THEN live ELSE saved
  /\ op' = [op EXCEPT ![w].pc = IF op[w].kind \notin Issuing THEN "commit"
                                ELSE IF op[w].key = NoKey THEN "pick" ELSE "endpoint"]
  /\ UNCHANGED <<row, revs, live, used, failed, everDeleted>>

\* _persist_runtime: `awg-quick save`, for AWG2 only.
SaveRuntime(w) ==
  /\ op[w].pc = "save"
  /\ saved' = IF Persistent THEN live ELSE saved
  /\ op' = [op EXCEPT ![w].pc = IF op[w].kind \notin Issuing THEN "commit"
                                ELSE IF op[w].key = NoKey THEN "pick" ELSE "endpoint"]
  /\ UNCHANGED <<row, revs, live, used, failed, everDeleted>>

\* Mutation: a disabled client does not keep its address.
TakenByActive(peers) ==
  {peers[k] : k \in Key} \cup
  {row[c].addr : c \in {d \in Client : row[d].status = "active"}}

\* Addresses _next_address skips: those of the peers it was given, and those of
\* the active and disabled clients of the database.
TakenBy(peers) ==
  {peers[k] : k \in Key} \cup
  {row[c].addr : c \in {d \in Client : row[d].status \in {"active", "disabled"}}}

\* Mutation: the network address counts as a host.
FreeHostsWithNetwork(peers) == (0..PoolSize) \ TakenBy(peers)

FreeHosts(peers) == Addr \ TakenBy(peers)

\* The live peers, or for AWG2 those of the config file when the dump fails.
VisiblePeers == {live} \cup (IF Persistent THEN {saved} ELSE {})

\* generate_keypair and _next_address, which takes the first free host.
PickAddress(w) ==
  /\ op[w].pc = "pick"
  /\ \E k \in Key \ used, peers \in VisiblePeers : \E a \in FreeHosts(peers) :
       /\ \A b \in FreeHosts(peers) : a <= b
       /\ used' = used \cup {k}
       /\ op' = [op EXCEPT ![w].pc = "add", ![w].key = k, ![w].addr = a]
  /\ UNCHANGED <<row, revs, live, saved, failed, everDeleted>>

\* An address belongs to one peer: WireGuard moves it to the peer set last.
Connect(peers, k, a) ==
  [x \in Key |-> IF x = k THEN a ELSE IF peers[x] = a THEN NoAddr ELSE peers[x]]

\* `wg set <iface> peer <key> allowed-ips <address>/32`, of create_peer and of
\* add_existing_peer.
AddPeer(w) ==
  /\ op[w].pc = "add"
  /\ live' = Connect(live, op[w].key, op[w].addr)
  /\ op' = [op EXCEPT ![w].pc = "save"]
  /\ UNCHANGED <<row, revs, saved, used, failed, everDeleted>>

\* The endpoint is resolved and the configuration built; _store_revision reads
\* the last committed revision number.
ResolveEndpoint(w) ==
  /\ op[w].pc = "endpoint"
  /\ op' = [op EXCEPT ![w].pc = "commit", ![w].rev = Len(revs[op[w].client]) + 1]
  /\ UNCHANGED <<row, revs, live, saved, used, failed, everDeleted>>

-----------------------------------------------------------------------------
Finish(w) == op' = [op EXCEPT ![w] = Idle]

\* The new revision and the client's new identity are committed together.  The
\* revision number is still free: the table has a unique constraint on it.
CommitConfig(w) ==
  LET c == op[w].client IN
  /\ op[w].pc = "commit" /\ op[w].kind \in Issuing
  /\ op[w].rev = Len(revs[c]) + 1
  /\ revs' = [revs EXCEPT ![c] = Append(@, [key |-> op[w].key, addr |-> op[w].addr])]
  /\ row' = [row EXCEPT ![c] =
               [(IF op[w].kind = "create" THEN op[w].seen ELSE @)
                  EXCEPT !.key = op[w].key, !.addr = op[w].addr]]
  /\ Finish(w)
  /\ failed' = failed \ {c}
  /\ UNCHANGED <<live, saved, used, everDeleted>>

\* Status and disable reason that set_status saves, from the object it was given.
NewStatus(o) ==
  IF o.kind = "delete" THEN "deleted"
  ELSE IF o.kind = "enable" /\ o.seen.due = "active" THEN "active" ELSE "disabled"

\* Mutation: activation leaves the old reason in place.
NewReasonNotCleared(o, old) ==
  IF o.kind \in {"delete", "enable"} THEN old
  ELSE IF o.kind = "enforce" THEN o.seen.due ELSE "manual"

NewReason(o, old) ==
  IF o.kind = "delete" THEN old
  ELSE IF o.kind = "enable" /\ o.seen.due = "active" THEN "none"
  ELSE IF o.kind \in {"enable", "enforce"} THEN o.seen.due ELSE "manual"

\* A limit has run out: the client is not enabled and its peer is not touched.
Refused(o) == o.kind = "enable" /\ o.seen.due # "active"

\* Mutation: save() without update_fields writes the whole loaded object back.
CommitStatusWholeRow(w) ==
  LET c == op[w].client IN
  /\ op[w].pc = "commit" /\ op[w].kind \notin Issuing
  /\ row' = [row EXCEPT ![c] = [op[w].seen EXCEPT !.status = NewStatus(op[w]),
                                  !.reason = NewReason(op[w], op[w].seen.reason)]]
  /\ Finish(w)
  /\ failed' = IF Refused(op[w]) THEN failed ELSE failed \ {c}
  /\ everDeleted' = IF op[w].kind = "delete" THEN everDeleted \cup {c} ELSE everDeleted
  /\ UNCHANGED <<revs, live, saved, used>>

\* The last lines of set_status: save(update_fields=...) and the commit.
CommitStatus(w) ==
  LET c == op[w].client IN
  /\ op[w].pc = "commit" /\ op[w].kind \notin Issuing
  /\ row' = [row EXCEPT ![c].status = NewStatus(op[w]),
                        ![c].reason = NewReason(op[w], row[c].reason)]
  /\ Finish(w)
  /\ failed' = IF Refused(op[w]) THEN failed ELSE failed \ {c}
  /\ everDeleted' = IF op[w].kind = "delete" THEN everDeleted \cup {c} ELSE everDeleted
  /\ UNCHANGED <<revs, live, saved, used>>

\* An exception or the death of the process: the transaction is rolled back.
Rollback(w) ==
  /\ Finish(w)
  /\ failed' = failed \cup {op[w].client}
  /\ UNCHANGED <<row, revs, live, saved, used, everDeleted>>

\* An SSH command that fails or times out, before or after its effect; missing
\* metadata or endpoint; a database error; a killed worker.
Fail(w) ==
  /\ "reliable" \notin Discipline
  /\ op[w].pc # "idle"
  /\ Rollback(w)

\* "No free addresses in discovered subnet"
PoolExhausted(w) ==
  /\ op[w].pc = "pick"
  /\ \E peers \in VisiblePeers : FreeHosts(peers) = {}
  /\ Rollback(w)

\* The revision number was taken by an operation that committed first.
RevisionConflict(w) ==
  /\ op[w].pc = "commit" /\ op[w].kind \in Issuing
  /\ op[w].rev # Len(revs[op[w].client]) + 1
  /\ Rollback(w)

-----------------------------------------------------------------------------
\* Time passes, or the traffic counter is synchronised: a limit runs out.
LimitReached(c, v) ==
  /\ row[c].status # "absent" /\ row[c].due # v
  /\ row[c].due = "active" \/ v = "expired"
  /\ row' = [row EXCEPT ![c].due = v]
  /\ UNCHANGED <<revs, live, saved, op, used, failed, everDeleted>>

\* update_limits lifts the limit that had run out.
UpdateLimits(c) ==
  /\ row[c].status # "absent" /\ row[c].due # "active"
  /\ row' = [row EXCEPT ![c].due = "active"]
  /\ UNCHANGED <<revs, live, saved, op, used, failed, everDeleted>>

\* import_runtime_peers: a row, active and without a revision, for every peer of
\* the interface whose key no row has.  A name that is taken makes it fail.
Unmanaged(peers) == {k \in Key : peers[k] # NoPeer /\ \A c \in Client : row[c].key # k}

ImportRuntimePeers ==
  /\ "exclusive" \in Discipline => \A w \in Worker : op[w].pc = "idle"
  /\ \E peers \in VisiblePeers :
       LET new == Unmanaged(peers)
           free == {c \in Client : row[c].status = "absent" /\ ~ Busy(c)}
       IN \E name \in [new -> free] :
            /\ new # {} /\ \A j, k \in new : name[j] = name[k] => j = k
            /\ row' = [c \in Client |->
                 IF \E k \in new : name[k] = c
                 THEN LET k == CHOOSE k \in new : name[k] = c
                      IN [Fresh EXCEPT !.key = k, !.addr = peers[k]]
                 ELSE row[c]]
  /\ UNCHANGED <<revs, live, saved, op, used, failed, everDeleted>>

\* The container comes back with the peers of its config file.
RestartContainer ==
  /\ "quiet_restart" \in Discipline => \A w \in Worker : op[w].pc # "save"
  /\ live' = saved
  /\ UNCHANGED <<row, revs, saved, op, used, failed, everDeleted>>

-----------------------------------------------------------------------------
Init ==
  /\ row = [c \in Client |-> Absent]
  /\ revs = [c \in Client |-> <<>>]
  /\ live = [k \in Key |-> NoPeer]
  /\ saved = live
  /\ op = [w \in Worker |-> Idle]
  /\ used = {} /\ failed = {} /\ everDeleted = {}

Step(w) ==
  \/ \E c \in Client, request \in Request : Begin(w, c, request)
  \/ RemovePeer(w) \/ SaveRuntime(w) \/ PickAddress(w) \/ AddPeer(w) \/ ResolveEndpoint(w)
  \/ CommitConfig(w) \/ CommitStatus(w)
  \/ Fail(w) \/ PoolExhausted(w) \/ RevisionConflict(w)

Next ==
  \/ \E w \in Worker : Step(w)
  \/ \E c \in Client : UpdateLimits(c) \/ \E v \in Violations : LimitReached(c, v)
  \/ ImportRuntimePeers
  \/ RestartContainer

Spec == Init /\ [][Next]_vars

-----------------------------------------------------------------------------
TypeOK ==
  /\ row \in [Client -> Row]
  /\ revs \in [Client -> Seq(Revision)]
  /\ live \in Peers /\ saved \in Peers
  /\ op \in [Worker -> Op]
  /\ used \subseteq Key /\ failed \subseteq Client /\ everDeleted \subseteq Client

\* The configuration a client downloads - its last revision - is for the key and
\* the address its row names, whatever operations overlap, fail or see old data:
\* the QR code never shows a peer other than the one the panel manages.
ConfigMatchesKey ==
  \A c \in Client : revs[c] # <<>> =>
    LET last == revs[c][Len(revs[c])]
    IN row[c].key = last.key /\ row[c].addr = last.addr

\* Every status change saves its reason with it, so the status and the reason
\* shown next to it never come from two different operations.
ReasonMatchesStatus ==
  \A c \in Client :
    /\ row[c].status = "active" => row[c].reason = "none"
    /\ row[c].status = "disabled" => row[c].reason # "none"

Superseded(c) == {revs[c][i].key : i \in 1..(Len(revs[c]) - 1)}

\* Off the interface, and not in the file a restart restores it from.
Gone(k) == live[k] = NoPeer /\ saved[k] = NoPeer

\* After a reissue the previous configuration no longer works, and it does not
\* start working again after failures, later operations or a restart.
SupersededNotLive == \A c \in Client : \A k \in Superseded(c) : Gone(k)

\* A deleted client has no peer, now or after a restart.
DeletedHasNoPeer ==
  \A c \in Client : row[c].status = "deleted" /\ row[c].key # NoKey => Gone(row[c].key)

\* Two clients that are not deleted share an address only if one of them came
\* back from deletion (a deleted client does not reserve its address).
SharedAddressOnlyAfterDelete ==
  \A c, d \in Client :
    /\ c # d /\ row[c].addr = row[d].addr /\ row[c].addr # NoAddr
    /\ {row[c].status, row[d].status} \subseteq {"active", "disabled"}
    => c \in everDeleted \/ d \in everDeleted

\* When an active client becomes disabled or deleted - by an operator or by the
\* limits task - its peer is already off the interface and out of the file.
DisableCutsPeer ==
  [][\A c \in Client :
       /\ row[c].status = "active" /\ row'[c].status \in {"disabled", "deleted"}
       /\ row'[c].key # NoKey
       => live'[row'[c].key] = NoPeer /\ saved'[row'[c].key] = NoPeer]_vars
=============================================================================
