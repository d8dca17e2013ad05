# Verification of amnezia-control

amnezia-control is a Django panel that manages the clients of Amnezia WireGuard
servers. A gunicorn process with three workers serves operators and the clients'
portal, Celery (worker and beat) runs the periodic tasks, PostgreSQL keeps the
state, and every change of a VPN server is a command run over SSH in the server's
Docker container. This directory holds TLA+ models of that code, the TLC
configurations that check them, and TLAPS proofs about them. Paths below are
relative to `src/amnezia_control/` unless they start with `src/`.

## 1. Inventory

| Component | State it keeps | Operations |
|---|---|---|
| VPN client lifecycle (`vpn/services.py`, `vpn/models.py`, `vpn/views.py`) | `VPNClient` rows (status, disable reason, limits, key, address), `ClientConfigRevision` rows; the WireGuard interface and its config file in the container | `create_client`, `reissue_config`, `set_status`, `update_limits`, `import_runtime_peers`; the adapters' `create_peer`, `add_existing_peer`, `remove_peer`, `_persist_runtime`, `_next_address` |
| Limit enforcement (`vpn/services.py`, `vpn/tasks.py`) | traffic counters and limit states on the rows | `sync_traffic_usage`, `enforce_limits`, every 5 minutes by beat |
| Portal and renewals (`portal/`, `vpn/views.py`) | `ClientPortalAccess` tokens with the last self-service reissue, `ClientRenewalRequest` | issue, revoke and resolve a token; request a renewal; the operator's transitions; self-service reissue with a cooldown |
| Expiration reminders (`vpn/expiration_reminders.py`) | `ReminderLog` | collect, send by e-mail and Telegram, log |
| Event notifications (`notifications/`) | cache marks of events already notified | emit, mark, deliver |
| Jobs and SSH executor (`jobs/`) | `Job` and `JobEvent` rows, known hosts | create, run, finish; the command allowlist |
| Runtime sync and health (`servers/`) | protocols, profiles, discovered metadata, health | `sync_runtime_state`, `update_health`, `evaluate_health` |
| Backups (`src/scripts/`) | `backups/runs/<timestamp>` directories | backup, verify, restore, cleanup |
| Dashboard, audit, accounts, forms, templates | audit rows (append only) | presentation and validation |

**How they interact.** Views and tasks call the services in the same process.
Services open one database transaction (`transaction.atomic`; there is no
`ATOMIC_REQUESTS`, and the isolation level is READ COMMITTED) and call
`RuntimeCommandService.run`, which writes a job row and runs a command over SSH
before it returns. Processes share the database and the container and nothing
else: except for the portal's renewal requests there is no `select_for_update`, and no
advisory lock anywhere, so what two of them do to one client is ordered only by the
database's row locks at the `save`.
The portal calls the same `reissue_config` as the operator. Beat starts the limits
and reminder tasks whether or not the previous run has ended.

**What is hard here.** (1) A service changes the interface in the middle of a
transaction: a failure rolls the rows back and leaves the interface changed.
(2) A service works on the row it loaded before its commands, which take seconds.
(3) `wg set` and `awg-quick save` are two commands, and a restart of the container
reads the saved file. (4) Read-then-write rules (a free address, the next revision,
that there is no open request, a cooldown) are not locked. (5) Sending and recording that
something was sent are separate. PROJECT.json lists each hazard at its line.

**What makes each component correct.**
Lifecycle: the stored configuration is for the client's peer; a replaced or deleted
peer never works again; what the panel shows as active works and what it shows as
disabled does not; addresses are not shared.
Enforcement: a client over its limit is eventually disabled, a renewed one is not
disabled afterwards.
Portal: at most one open request, closed requests stay closed, an extension is
applied once, one self-service reissue per cooldown.
Reminders and notifications: every due reminder is sent, and once per client,
threshold and expiry date.
Jobs: every command that ran has a finished job. Backups: the runs kept include a
restorable one.

## 2. Modules and plan

| Component | Modules | Composition |
|---|---|---|
| VPN client lifecycle | `ClientLifecycle`; its abstract specification `ClientAccess`; `ClientLifecycleAccess` maps one to the other | proofs in `ClientLifecycleProofs`, on them `LifecycleAccessProofs`, and `ClientAccessProofs`; instance `MCClientLifecycle` |
| Limit enforcement | `LimitEnforcement` | proofs in `EnforcementProofs`; instance `MCLimitEnforcement` |
| Renewal requests | `RenewalRequests`, which implements its abstract specification `RenewalDesk` | proofs in `RenewalProofs`; instance `MCRenewalRequests` |
| Portal access | `PortalAccess` | proofs in `PortalProofs`; instance `MCPortalAccess` |
| Reminders, daily notices, Telegram messages | `Reminders` and `LimitNotices`, both over `ClientExpiry`; `TelegramMessage` | composed in `Notices`; proofs in `NoticeProofs` |
| Runtime synchronisation; backups | `ServerRuntime`; `Backups` | composed in `Operations`; proofs in `OperationsProofs`; instance `MCOperations` |

What the plan has left, most important first:

1. A run of the lifecycle with limits that run out beside failures, on an instance
   small enough for TLC (today the proofs cover it).
2. Address and dump parsing as pure operators.

Modules that are proved about declare no recursive operator; constants carry their
assumption in the module that declares them.

## 3. ClientLifecycle

One protocol of one server. The variables are

- `row`: the committed `VPNClient` rows. `status` has the value `"absent"` for a name
  with no row. `due` is the value `get_limit_state` returns for the row at this
  moment: it stands for the expiry date, the clock and the traffic counters. The
  stored column `limit_state`, which only displays, is not kept.
- `revs`: the committed revisions, each with the key and address of its
  configuration; position in the sequence is `revision_number`.
- `live` and `saved`: the peers of the interface and of its config file, as a
  function from keys to the allowed address.
- `op`: for each process the operation it runs: program counter, the client object
  as loaded (`seen`), the peer it adds, the revision number it read.
- `used`, `failed`, `everDeleted`: the keys generated; the clients whose last
  operation ended in an exception; those with a `client.deleted` audit row. An
  enabling that is refused because a limit has run out touches no peer, so it makes
  up for no earlier failure and leaves `failed` as it was (`Refused`).

An operation is cut where another process can see a difference:

| Action | Code |
|---|---|
| `Begin` | the view or task loads the row and makes its checks (`vpn/views.py:474-506`, `747-830`, `portal/services.py:185-193`, `vpn/services.py:1003-1013`), the service its own (`assert_reissue_allowed`, `_restore_payload`) |
| `RemovePeer` | `wg set ... remove` of `remove_peer` and `disable_peer` |
| `SaveRuntime` | `_persist_runtime`: nothing for the legacy protocol |
| `PickAddress` | `generate_keypair`, `list_peers` and `_next_address` |
| `AddPeer` | `wg set ... allowed-ips` of `create_peer` and `add_existing_peer` |
| `ResolveEndpoint` | `server_public_key`, `resolve_endpoint`, the configuration, and the read of the last revision number in `_store_revision` |
| `CommitConfig` | the inserted revision, `save(update_fields=[key, address, ...])` and the commit; for `create_client` also the row |
| `CommitStatus` | the rest of `set_status` and its commit |
| `Fail`, `PoolExhausted`, `RevisionConflict` | an exception: rollback, the interface keeps its changes |
| `LimitReached`, `UpdateLimits` | time or traffic, `update_limits` (or a fallen traffic counter) |
| `ImportRuntimePeers` | `import_runtime_peers` for this protocol |
| `RestartContainer` | external: the interface is rebuilt from the config file |

A command that fails after it took effect is the command's action followed by
`Fail`; one that fails before is `Fail` alone. A process that is killed is `Fail`.

**Abstractions.** Addresses are the numbers `1..PoolSize`, the hosts `_next_address`
may return; the interface's own address and the network address are outside. Keys
are model values and never generated twice. `awg-quick save` is one step, although
the external tool reads and then writes. The interface dump and the query for used
addresses are one step in `PickAddress`, and so are dump and inserts in
`ImportRuntimePeers`; imported names are assumed to be free. `Persistent = TRUE` is
AWG2 with a discovered `config_path` (what `sync_runtime_state` stores),
`Persistent = FALSE` the legacy protocol. Rows edited through the Django admin are
outside.

**Disciplines.** The constant `Discipline` says what a run assumes of the
environment. Nothing in the code enforces `exclusive` (no two operations on one
client at once) or `card` (operators use the buttons that the client's card shows
for its status, `templates/vpn/clients_detail.html:74-90`): the runs without them
show what depends on them. `reliable` (nothing fails midway) exists to keep the
concurrent runs small. `quiet_restart` excludes a container restart in the instant
between a peer change and its save, where no order of the two commands could help.

### Properties

| Property | Says | Checked under |
|---|---|---|
| `TypeOK` | types; addresses come from the pool | nothing assumed but `reliable`; proved without |
| `ConfigMatchesKey` | the last revision is for the key and address of the row | as above; proved without any assumption |
| `ReasonMatchesStatus` | status and disable reason come from one operation | as above; proved without any assumption |
| `SupersededNotLive` | a replaced key is on neither the interface nor the file | `exclusive`, `card`, `quiet_restart`; proved without `card`, and for the legacy protocol with `exclusive` alone |
| `DeletedHasNoPeer` | a deleted client's key is on neither | `exclusive`, `card`, `quiet_restart`; proved, for the legacy protocol without `quiet_restart` |
| `ImplementsAccess` | every step is a step of `ClientAccess` (below) | the same; proved |
| `SharedAddressOnlyAfterDelete` | two clients that are not deleted share an address only if one was restored from deletion | the same, one process; proved without `card`, for the legacy protocol also without `quiet_restart` |
| `DisableCutsPeer` | when an active client becomes disabled or deleted its peer is already off | `exclusive`, `card`, `quiet_restart`; proved, for the legacy protocol also without `quiet_restart` |

`SupersededNotLive` and `DisableCutsPeer` are about what the panel takes away,
`ImplementsAccess` also about what it gives. `DisableCutsPeer` holds for the buttons of
the card and the limits task: a disabled client can have a peer all the same, by a
reissue while it is disabled or by enabling an active client over its limit from the
bulk toolbar (section 6). Each property needs failures or restarts to be violated by a plausible mistake, and PROJECT.json
names such a mistake (a "mutation" operator beside the definition) for each.

### The abstract specification

`ClientAccess` says what the panel promises without commands, files, addresses or
transactions: the status it shows, the keys of the configurations it issued, those
of them the server accepts, the clients that an operation is changing and those whose
last operation, but for refused ones, failed. Access changes only while an operation
changes the client, or with a restart after one that failed; a configuration is issued
only when the last one is cut off; a client is shown disabled or deleted only when it
is cut off, and shown active only when it connects. `ClientLifecycleAccess`
instantiates it with `shown` as the status of the rows, `issued` as the keys of the
revisions, `accepted` as those of them that are peers of the interface, `changing` as
the clients of `op`. A command, a save, a commit, a rollback, an import or a restart of the
container is one abstract step or none; in particular a restart without a failure
before it must be none, which is what `awg-quick save` is for. TLC checks it in
`lifecycle_serial`, with failures; `LifecycleImplementsAccess` proves it for any
clients, processes and keys, with limits that run out and any step failing, under
`AssumedSaved`: `AssumedCard` (below) for a
protocol whose changes are saved. For the legacy protocol it does not hold: a restart
takes off the peers of clients whose operations all succeeded. Two processes, and failures
together with limits that run out, are too many states for two clients and rest on the
proof. An enabling that fails, followed by one that is refused because a limit has run
out, is why `Refused` keeps `failed`.

That the abstract specification keeps its promise (`Promise`: a reissued
configuration does not connect; an active client with a configuration does, unless
its last operation failed or one is under way; a deleted one does not) is proved in
`ClientAccessProofs` as `PromiseKept`, for any clients and keys, from types, that no
key is issued twice, that only issued keys are accepted and that an absent client has
none. Together with the mapping of the steps that makes `LifecycleKeepsPromise`: the
lifecycle itself keeps the promise.

### Runs

| Run | Instance | Shows |
|---|---|---|
| `lifecycle_serial` | 2 clients, 1 process, 3 keys, 2 addresses; any step may fail | the safety properties and the abstract promise with failures, restarts, imports and a pool that runs out |
| `lifecycle_racing` | 1 client, 2 processes, 3 keys, legacy protocol, every request | what holds without any discipline |
| `lifecycle_bulk` | 1 client, 1 process, without `card` | violation: reissuing a deleted client connects it |
| `lifecycle_overlap` | 1 client, 2 processes, without `exclusive` | violation: a replaced key comes back |

**Bounds.** Keys bound the number of configurations ever issued: three let one client
be reissued twice, or two clients exist and one be reissued, which is the smallest
history with a superseded key, a current key and a key in flight. Two addresses for
two clients: the pool runs out when a failed operation has left a peer that no row
names, also in the middle of a reissue. Limits run out in `lifecycle_racing` only. Two processes are enough for every pairwise race; the proofs are
for any number. Clients, keys and processes are symmetric; addresses are ordered.
TLC's state graphs are finite because keys are; no state constraint is used.
Deadlock is checked: the container can always restart.

### Proofs

`ClientLifecycleProofs` proves, for all values of the constants that satisfy
`ConstantsAssumption` and with no discipline assumed, that `BaseInv` is inductive:
types; that the legacy protocol's file stays as it was found, without peers
(`UnsavedIsEmpty`); `Sound(op[w])`, what each operation in progress knows (its client exists, a
commit of a configuration has a key and an address, the limits task saw a limit that
had run out); absent clients have no revisions; `ConfigMatchesKey`;
`ReasonMatchesStatus`. `Sound` is needed because a commit writes what the operation
carries: without it nothing excludes a revision with no key, or a disabling without a
reason. There is one lemma per action, on top of three frame lemmas
(`OpStepBase`, `RollbackBase`, `EnvironmentBase`). Theorems: `TypeCorrect`,
`ConfigAlwaysMatchesKey`, `ReasonAlwaysMatchesStatus`.

On top of it stand two arguments with assumptions. `Assumed` is `exclusive` and, if
changes are saved, `quiet_restart`; the number of processes, failures and requests are
not restricted. With the legacy protocol the container may restart between any two
commands: by `UnsavedIsEmpty` it comes back without peers, so what was cut stays cut.
That rests on `Init`, where neither interface nor file has a peer. A legacy file that
lists peers from before the panel brings them back at every restart, whatever the panel
has done with them since; no theorem speaks of those. The runs of these properties have
the saved protocol; for the legacy one they rest on the proofs.

*Superseded keys.* `SupersededNeverLive` proves `SupersededNotLive` under `Assumed`.
The invariant `StrongInv` adds to `BaseInv`:

- revision keys are used and pairwise distinct, over all clients;
- operations in progress are on distinct clients and add distinct keys (`Apart`);
- `Linked(op[w])`: a key being issued is in no revision; a key being put back is its
  client's current one; and a reissue that is past its removal (`Replacing`) has the
  current key off the interface and out of the file - between removal and save, off
  the interface.

The last fact is what makes the current key safe to become superseded at the commit;
key distinctness is what keeps every other operation from bringing it back. The
frame lemma `OpStepStrong` states that once, for a step that may bring back one key.

*Addresses.* `AddressesAlwaysApart` proves `SharedAddressOnlyAfterDelete` under
`Assumed` and `OneWorker`: at most one process, because two that read the used
addresses before either commits take the same one (`vpn/services.py:430`), also for
different clients. The difficulty is the peers that no row knows: a failed creation or
reissue leaves one on the interface, in the file, or in both, a restart brings an old
one back, and `import_runtime_peers` makes clients of them. `AddressInv` adds to
`BaseInv`, beside which keys and rows exist (`RowFacts`):

- on the interface and in the file two peers have different addresses, and the
  address of a peer in no row (`Orphan`) is in no row of a client that was never
  deleted (`OrphansApart`);
- `SavedOrphans`: an orphan in the file has its address on the interface too, or the
  address is a client's by now, and no other orphan of the interface has it - so that
  a restart does not break the first;
- `Placing(op[w])`: the address an operation is about to use is reserved by nobody,
  no other orphan is saved with it until the file is written again, its peer is on the
  interface unless a restart without a file took all off (`Cleared`), and the peer that
  is being replaced is gone from interface and file.

A deleted client's address is free (`_next_address` skips only active and disabled
rows), and restoring it brings the address back: hence the exception. There is a frame
lemma for steps on the interface, one for rows, and a lemma per action.

`LifecycleAccessProofs` assumes `card` as well (`AssumedCard`), for the list and the
bulk toolbar break `DeletedHasNoPeer` (section 9). `DeletedNeverHasPeer` and
`DisableAlwaysCutsPeer` rest on `CutInv`, which adds to `StrongInv` that every key in
a row or on the interface was generated and that rows have distinct keys - so a peer
that is added is nobody else's - and `Tied(op[w])`, what an operation relies on: the
status its card showed, that a new key is in no row, and how far a disabling, deleting
or enforcing operation has cut its client's peer. `OpStepCut` and `RowStepCut` are the
frame lemmas for steps on the interface and on the rows; `WhoDisables` finds the one
action that can change an active client's status.

*The refinement.* `LifecycleImplementsAccess` needs one layer more. `AccessInv` adds
to `CutInv`

- `Admitting(op[w])`: the object an operation loaded has the key of the row, what its
  end will do to the status, and that the peer it adds is on the interface when it
  saves and in the file too when it commits;
- `RowKeyIsOwn`: a key in a row is in no other client's configurations;
- `InStep`: interface and file agree about a client whose last operation did not fail
  and that no operation is about to save. That is why a restart, a step that rebuilds
  the whole interface, changes the access of failed clients only.

`StepMaps` then maps each action with a lemma of its own: `Begin` to `Begins`, removal
and addition of a peer to `Cut` and `Admit` or to nothing when the peer was already
off or on, `SaveRuntime`, `PickAddress`, `ResolveEndpoint` and the clock to nothing, the
commits to `Issue`, `Enable`, `Refuse`, `Disable` and `Delete`, the exceptions to
`GivesUp`, import and restart to their namesakes. The refinement mapping has no history
of its own. `LifecycleKeepsPromise` instantiates `ClientAccessProofs` with it.

The properties and the invariants above were checked by TLC on the instances of the
runs before they were proved. No safety property of ClientLifecycle is only
model-checked. The hypotheses are those of the table: nothing in the code enforces
`exclusive` and `card`, and the runs that expect a violation show what happens without.

## 4. RenewalRequests

The renewal requests of one client. `requests` holds them oldest first, each with its
status, whether `processed_at` is set, and its file; `expires` is the client's
`expires_at` (0: none) on the clock `now`; `lock` are the rows locked by a portal
transaction; `task` is what each worker does, with the objects it loaded;
`extensions` and `halfDone` are history (extensions per request; requests for which
a handler extended the client and failed before closing them).

| Action | Code |
|---|---|
| `OperatorPost` | `client_action_view` loads the client (`vpn/views.py:476`) |
| `LoadRequest`, `Refuse` | it loads the request, checks status and transition, computes the new expiry (`vpn/views.py:538-573`, `608-620`) |
| `ExtendClient` | `client.save(update_fields=["expires_at", "limit_state"])` (`:574`) |
| `SaveRequest` | `request_obj.save(...)` (`:580`, `:630`), which waits for a lock on the row |
| `PortalPost` | `create_or_get_open_from_portal` selects the open request `FOR UPDATE`, waiting for another transaction, or finds none |
| `Attach`, `Insert` | the rest of that transaction and its commit |
| `Conflict` | the unique constraint rejects a second open request |
| `Fail` | any error or a killed worker: an operator's earlier save stays, a portal transaction is rolled back |
| `UpdateLimits`, `Tick` | `update_limits` and the clock |

**Abstractions.** Notes, `processed_by`, audit rows and notifications are left out;
the portal's form sends no note. The access token is taken as valid. `limit_state` is
display only. Days and the clock are numbers. A submission that waits for a lock
looks for the open request again once it has it; that it may then also miss a
request inserted meanwhile is `Conflict`, as for any two submissions.

**Discipline.** With `Exclusive` operators act on the client one after the other
(`update_limits` too); nothing in the code enforces that. The portal is never
restricted.

| Property | Says | Checked and proved under |
|---|---|---|
| `TypeOK` | types; checked, and part of the inductive invariant | nothing |
| `ClosedIffProcessed` | `processed_at` is set exactly for closed requests | nothing |
| `AtMostOneOpen` | at most one open request | nothing |
| `AttachmentKept` | a submission never replaces a file | nothing |
| `AttachedOnlyWhileOpen` | files are only added to open requests | nothing |
| `ClosedForGood` | a closed request keeps its status | `Exclusive`; violated without |
| `ExtensionAddsDays` | an extension ends later than the expiry it replaces | `Exclusive` |
| `ExtendedOnce` | one extension per request, unless its handler failed between its saves | `Exclusive` |
| `ImplementsDesk` | every step is one of `RenewalDesk` or changes nothing for the client | `Exclusive` |

**The abstract specification.** `RenewalDesk` has the queue, the expiry, the request
whose extension is saved and still to be closed (`granting`) and those left so by a
failure (`abandoned`): no workers, copies, locks or clock. A request is submitted when
none is open, given a file once, taken up, settled; an extension is granted for a
request that is open at that moment, ends later than the expiry, and closes that very
request or is abandoned; nothing else happens to the client in between, but for a file
from the portal. `RenewalRequests` keeps `requests` and `expires` and maps `granting`
to `Granting`, the requests of the tasks between `ExtendClient` and `SaveRequest`, and
`abandoned` to `halfDone`. Loading, locking, refusing and a rejected save are stutters,
and so is a note: its save writes back what the request holds.

| Run | Instance | Shows |
|---|---|---|
| `renewals_racing` | 2 workers, 2 requests, 2 files, no clock | the properties that need no discipline |
| `renewals_operator` | 2 workers, 2 requests, 2 extensions of 1 or 2 days each, clock and expiries to 2 | the others, beside the portal, and the refinement |
| `renewals_reopened` | as `renewals_racing` | violation of `ClosedForGood` |

**Bounds.** `MaxRequests = 2`: a closed request and a newer open one, which is what a
stale save can collide with. `MaxExtended` bounds the extensions begun for one
request, `MaxTime` the clock and the expiries entered: two are enough for an expiry
ahead, one that has passed and a second extension. Two files tell a replaced file
from a kept one. The clock does not matter to the properties of `renewals_racing`.
Deadlock is checked.

**Proofs.** `RenewalProofs` proves all of them for any constants that satisfy
`RenewalAssumption`. `BaseInv` adds to types, `ClosedIffProcessed` and
`AtMostOneOpen` what tasks know (`Knows`): an operator's copy was consistent when
loaded, so a save that keeps the copy's `processed_at` keeps it together with the
copy's status; a portal transaction has the lock of the request it read, so its copy
is still the request; and no two hold one lock (`LocksApart`). Two frame lemmas,
`TaskStep` (requests unchanged) and `RequestStep` (one request saved), carry the
actions. The attachment properties follow from `BaseInv` in one step (`FilesStep`).
`OrderlyInv` adds, under `Exclusive`, that one operator is at work (`OneOperator`),
that what it loaded is `Current`, and that every request is not extended, or
extended once and then closed or about to be closed by the task that did it, or half
done (`ExtendedThenClosed`).

*The refinement.* `RequestsImplementDesk` needs no further invariant. `OneOperator`
makes `Granting` empty or a single request; `Current` says that the loaded status, and
with it the accepted transition, is still the request's own when it is saved; `Knows`
says so of the portal's copy, which its lock protects. Four lemmas say what a step does
to `Granting`, and one lemma for each action maps it.

## 5. PortalAccess

The link of one client's portal. `access` is its `ClientPortalAccess` row (`token`
for the hash, `shown` for the encrypted token), `settings` whether the row of
`SystemSettings` exists, `task` what each worker has loaded or computed, `client`
whether the policy lets the client reissue. `IssueBegin`, `IssueCommit` and
`IssueConflict` are `issue_for_client` with the lifetime read through `get_solo`;
`RevokeBegin` and `RevokeCommit` `revoke_for_client`; `Resolve` `resolve_token`;
`ServePage`, `ReissueBegin`, `ReissueDone`, `Stamp` the views behind it; `Fail` an
error or a killed worker at any of these. History: `issued`, `lastDone`, `unstamped`.

| Property | Says |
|---|---|
| `LinkNeverRevives` | a link that was revoked, replaced or has expired never opens the portal again |
| `ShownLinkOpens` | the link operators are shown for an active access is the one that opens |
| `CooldownKept` | two self-service reissues are a cooldown apart, unless they overlapped or the first failed to note its time |

Run `portal`: 2 workers, 3 tokens (a link, its replacement and one in flight),
lifetimes of 1 and 2, cooldown 2, clock to 3 (so a link expires before and after a
cooldown has passed). No discipline is assumed. The exceptions of `CooldownKept` are
real: the cooldown is read before the commands of `reissue_config` and written after
them (`portal/views.py:352-365`), so two requests at once both pass.
Deadlock is checked (`ClientChanges` is always possible).

**Proofs.** `PortalProofs` proves all of them for any workers, tokens, lifetimes and
cooldown. `BaseInv` adds to types that a token about to be saved was never the
client's and is no other handler's (`FreshTokens`), that the shown token is the one
that opens (`ShownIsToken`), and which handlers are those of a reissue (`KnownVisit`).
`LinkStaysDead` needs the first: the only step that changes the token saves one that no
issued link has, and every other step that touches the row keeps or clears `enabled`.
For the cooldown `CoolInv` adds that handlers of a reissue in progress together know
of each other, that the last reissue's time is in the row or about to be saved
(`Noted`), and what a handler without company has loaded and checked (`Checked`).

## 6. LimitEnforcement

The task of `vpn/tasks.py:8`. `row` has the status, the shown limit state, whether
the expiry has passed, quota and used traffic; `peer`, `counter` and `up` are the
interfaces and the servers; `run` what an execution has loaded. `StartSync` and
`SyncServer` are `sync_traffic_usage`, `LoadClients` the query of `enforce_limits`,
`RefreshShown`, `CutPeer`, `CommitDisable` and `Unreachable` its loop - one client at
a time, and an unreachable server ends it - `EndRun` and `Kill` its end. Operators
change limits, disconnect, enable and reissue, for a client of any status, since
`set_status` and `reissue_config` check none and the list's menu and bulk toolbar
offer them all (`vpn/views.py:490`, `:820-823`); these requests are one step each, for
what their own commands can do half-way is the subject of ClientLifecycle. Enabling is
`Activate` within the limits and `RefuseActivation` over one (`vpn/services.py:827-853`):
the second saves the client as disabled and runs no command.

| Property | Says |
|---|---|
| `DisabledIsCut` | a disabled client has no peer, unless an operator reissued it while it was not active, connected it behind the back of the run disabling it, or enabled it, active, over its limit (`revived`) |
| `DisablesOnlyDue` | a run disables who is over a limit and not deleted, as long as nobody changed the client since the run loaded its list |
| `EventuallyEnforced` | if from some time on no run meets an unreachable server in its loop, no client stays active over its limit |
| `QuotaEnforced` | the same for the traffic counted on the interface |

Fairness: weak fairness of each execution's own steps. Beat starts the task every
five minutes (`amnezia_control/settings/base.py:121-134`) and every command returns
or fails by the executor's timeout. Nothing is assumed of operators, servers, time
or kills. The premise of the two liveness properties is needed: a client of an
unreachable server that is over its limit raises in the loop and keeps those after
it from being disabled, run after run (`vpn/services.py:1005`).

Run `limits`: two servers, a client with an expiry on one and one with a traffic limit
on the other - the smallest instance in which one server's failure can hurt the
other's client - one execution, traffic to 1, one kill. No symmetry.

**Proofs.** `EnforcementProofs` proves types, `DisabledIsCut` and `DisablesOnlyDue` for
any clients, servers, bounds and any number of overlapping executions, of which TLC
runs one. `Known(t)` is what an execution's list still says of a client nobody has
touched: it is over a limit and not deleted, and if its peer was cut it has none.
`OthersKnow` carries it over every other process's step, `OperatorKnows` over the
operators'. The two liveness properties are left to TLC.

## 7. Reminders, LimitNotices, TelegramMessage

`ClientExpiry` has the clients with status and expiry date (the day, and whether it
has seconds, which the edit form drops: `vpn/forms.py:203`), the forms that change
the date and the day that passes. Over it:

- `Reminders` (`vpn/expiration_reminders.py`): `Collect` takes what is due by the
  smallest covering threshold and has no log row; `Send`, `SendFails`, `SendPartly`
  go through the channels: one that fails may have reached nobody, or have been taken by
  the mail server or by some chats before it failed (`SendPartly`); `Log` writes
  the rows if any channel delivered; `Crash`, `ChannelFails`, `ChannelReturns`.
- `LimitNotices` (`notifications/services.py`, `notifications/tasks.py`): `MarkNotice`
  is `cache.add`, `SkipMarked` finds the key, `Enqueue`, `EnqueueUnclear` and
  `DeliverInTask` are `emit_event` with and without a broker, `Deliver` the worker,
  `WorkerDies` and `NotifierDies` the processes.
- `TelegramMessage`: `split_telegram_message`, line by line, over texts as sequences
  of line lengths.

`Notices` composes them; the three share the clients' dates and nothing else, so a
behaviour runs one of them (`task`). A run of a task lies within a day.

A mark lives 24 hours from the moment it is set, and beat runs the task every 24 hours
(`notifications/services.py:298`, `amnezia_control/settings/base.py:126-129`). Yesterday's
is therefore gone or not when today's run comes to the client, as it is later or earlier
in its day than yesterday's: a mark is certain on its day (`Marked`) and possible on the
next (`MayBeMarked`). The days left are counted from the moment of the run, rounded up:
a run may be late for some clients, `ahead`, and count a day less for them.

| Property | Says |
|---|---|
| `RemindsOnce` | no reminder is repeated for a client, threshold and date, unless a run was killed between sending and logging, runs overlapped, or a channel that had delivered it reported an error |
| `NoneStaysDue` | if one channel delivers from some time on, no reminder stays without a log row |
| `NoticeOnce` | a marked notice is delivered at most once, unless the broker took it and reported an error |
| `SkippedWasAnnounced` | a notice is passed over only if it was marked that day, or if the same number of days was announced for that client the day before |
| `AnnouncedIsTried` | what is marked is tried, unless its process died |
| `ChunksFit` | a cut message is within the limit; violated |
| `NothingLost` | cutting neither drops nor repeats characters: the messages cut, the lines held and those to come make up the text |

Fairness: weak fairness of each execution of the tasks, which beat starts daily, and
of the Celery workers. Nothing is assumed of operators, channels, broker or time.

Run `notices`: one client, expiry one or two days away, reminders at one and two days -
so that a date is due for both thresholds and an edit moves it between them - and two
edits of it; two executions of each task, which is what overlaps when one is
redelivered; two channel faults, one death. `TelegramMessage` has a limit of 4, lines
of 0, 1, 2, 4 and 9 characters and up to five of them: lines that fit, that fill a
chunk exactly, and one that needs three. `CHECK_DEADLOCK FALSE`: a message that is cut
is done, and so is a behaviour whose edits, days and faults are used up.

Run `message_limit` has only texts, of up to four lines of 0, 1, 2 and 4 characters, and
expects the violation of `ChunksFit`: the message of a blank line, one character and two
is five characters long where four are the limit.

**Proofs.** `NoticeProofs` proves types, `RemindsOnce`, `NoticeOnce`,
`SkippedWasAnnounced`, `NothingLost` and how far `ChunksFit` can be missed for any clients,
lifetimes, thresholds, executions, edits, faults and deaths, any limit of a message and any text.
The three parts share nothing but the clients' dates, so each has an invariant.

`ReminderInv`: what somebody received is logged, will be by the run that sent it, or is
excused (`ReceivedIsKnown`); two runs share no reminder that is not excused
(`OverlapIsExcused`); and a run that has not sent yet holds none that is logged, but
for excused ones (`UnsentIsNotLogged`). The last two say that the log row read by
`Collect` is still what it was when the message goes out.

`NoticeInv`: executions handle notices of today (`HandledToday`), what was announced
today is still marked (`AnnouncedStaysMarked`: the mark outlives the day), every mark was made
for an announced notice with its client, kind, marker and day (`MarksAreAnnounced`), and a
notice that is marked is held by one execution, which has neither queued nor tried it
(`HeldByOne`); one in the queue was not tried unless the broker reported an error for it
(`QueuedUntried`). A mark that is found is today's or yesterday's; an expired client's has
the date in its key (`Dated`), so yesterday's can only be of an expiring one, and
`SkippedWasAnnounced` follows (`MarkedIsAnnounced`).

`MessageInv`: the lines to come have no two blank ones in a row (`BlanksApart`), and
`current_length` is the length of the lines held less the one character that a blank
first line hides, zero only for a blank line that is held alone (`HeldCounted`). A line
that joins the others thus adds exactly its length and an end of line to the message,
which is what `Fits` tests (`AppendLengthIs`, `TakeLineCounted`, `FlushedSendable`).
`MessagesNearlyFit` concludes that only a message that starts with a blank line exceeds
the limit, and by one character.

The characters of a text are a recursive function, so what they are for an appended, a
concatenated or a sliced text is proved by induction. The induction theorems of the
library take a predicate and are of no use here; `SetInduction` - a set of numbers that
has zero and every successor is `Nat` - follows from the library's facts on
well-founded relations and is used on sets (`SumsExist`, `SumsAgree`, `CharactersAre`).
`NothingLost` rests on `CharactersConcat`, `CountsConcat` and `SlicesMakeUp`: with
`line = Limit * q + r`, the q full slices and the rest add up to the line.

`NoneStaysDue` and `AnnouncedIsTried` are liveness.

## 8. ServerRuntime and Backups

`ServerRuntime` is `sync_runtime_state` command by command: the two lists of
containers, for each protocol `LoadProfile` (`get_or_create`), `Inspect`, `Probe`,
`ReadConfig` and `SaveProfile`, then `Evaluate` and `UpdateHealth`; `SyncFails` is the
view that notes a failure. `ready` stands for the readiness flags that
`evaluate_health` tests, `source` for `peer_source`. Containers change and an
administrator edits the rows at any time. `HealthyWasSeen`: a server is called
healthy only if that sync saw every enabled protocol's container run and read its
configuration, unless another sync or an edit overlapped it (`evaluate_health` reads
the rows again, so they may be another's).

`Backups` is `src/scripts/backup_all.sh`, `verify_backup.sh`, `cleanup_backups.sh` and
`restore_all.sh` beside uploads of attachments. `dirs` are the directories with
the artifacts completed so far, the attachments the dump names and those the archive
holds; any script may stop after any step, `set -e`. `VerifiedIsWhole`: a backup
that verifies holds every attachment its database names - the dump is taken before
the archive - but for those a restore has taken off the volume. `RestoredAll`: a
restore that says it completed restored all it verified, although a cleanup may
remove the directory meanwhile, unless uploads went on.

`Operations` composes the two, which share nothing; a behaviour runs one (`task`). Run
`operations`: two syncs, one change of a container or edit; two attachments,
two backups of which one is kept. `CHECK_DEADLOCK FALSE`: with every attachment
uploaded and every backup taken, nothing is left to do.

**Proofs.** `OperationsProofs` proves the type invariant and the three properties: the
backups' for any number of attachments, backups and kept directories, the
synchronisation's for any number of workers, containers and changes.

`NamesPlaced`: whatever rows and dumps name was placed on the volume, though a restore
may have taken it off since; so an archive written after the dump holds it (`Whole`).
`NewestKept`: a cleanup never removes the newest directory, the one a backup may be
writing to, and that one has no checksums yet. `RestoreKnown`: the directory a restore
reads is as it was when verified, or removed.

For `HealthyWasSeen` the invariant is `RuntimeInv`: a sync that nothing disturbed is the
only one at work, and `Watching` says what it may rely on. The rows it has saved as
working are those it saw working; AWG is saved before AWG2, and both before
`evaluate_health` reads them again, so the verdict is over what this sync saw.

## 9. Findings

- A deleted client can be reissued (`vpn/services.py:746`; the card says it cannot,
  `templates/vpn/clients_detail.html:75`), which connects it: run `lifecycle_bulk`.
- A reissue that overlaps disabling and enabling the same client leaves the previous
  configuration working, against `templates/portal/home.html:73`: run
  `lifecycle_overlap`.
- A save of a renewal request writes the status it was loaded with
  (`vpn/views.py:630`): a note, or a request taken up, reopens a request closed
  meanwhile, against the test that a closed request stays closed
  (`vpn/tests.py:2266`): run `renewals_reopened`.
- `split_telegram_message` does not count the line end after a blank line that starts a
  message (`vpn/expiration_reminders.py:301`), so a message can have 4097 characters; the
  test `vpn/tests.py:2775` says 4096: run `message_limit`.

Met while modelling and stated as the exceptions of properties that pass:

- Two self-service reissues at once both pass the cooldown, and one whose handler
  fails after the reissue leaves none (`CooldownKept`).
- Enabling an active client over its limit from the bulk toolbar shows it as disabled and
  leaves its peer working (`vpn/services.py:843-853`), while the portal tells the client
  that the connection is restricted (`templates/portal/home.html:65`); the limits task
  looks at active clients only and never cuts it (`DisabledIsCut`).
- A reminder is repeated when a run is killed between sending and logging, when two
  overlap, or when a channel reports an error after it has reached somebody - some of
  several Telegram chats, an e-mail the server took - against `src/README.md:78`
  (`RemindsOnce`).
- The mark of a notice given late silences the next day's if it counts the same number
  of days (`notifications/services.py:307-320`, `SkippedWasAnnounced`).
- An unreachable server with a client over its limit keeps the clients after it from
  being disabled (`EventuallyEnforced`).
- Retention counts directories of failed backups among the 14 kept
  (`src/docs/OPERATIONS.md:114`): enough failures in a row remove every backup that
  verifies.
- A restore that stops leaves new data with old media, or none
  (`src/scripts/restore_all.sh:73-77`).

## 10. Not modelled

- Jobs: `RuntimeCommandService.run` leaves a job row per command; no code acts on it
  (`run_job` is never enqueued). An executor that raises leaves it `running`, a
  rolled back transaction removes it. The known-hosts file and the allowlist.
- Configuration texts, key derivation, encryption and QR codes; the text of addresses,
  dumps and configuration files; `collect_load_metrics`.
- Notifications of renewal requests: the same delivery without a mark.
- Forms other than the limits', templates and list filters; settings, migrations and
  the Django admin but for a protocol's row; the dashboard and audit pages, which only
  read.
- That the traffic of many unreachable servers uses up the limits task's time before
  it disables anybody (`vpn/tasks.py:9`): a matter of settings and durations.
- Liveness is checked by TLC only.
