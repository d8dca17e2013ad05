---------------------------- MODULE PortalAccess ----------------------------
(***************************************************************************)
(* The link to one client's portal and what the client may do behind it    *)
(* (portal/services.py, portal/views.py, vpn/views.py).  Operators issue,  *)
(* replace and revoke the link, which also expires.  The portal resolves   *)
(* it on every request; the one request that changes more than the time of *)
(* the last visit is the self-service reissue of the configuration, at     *)
(* most one per cooldown.                                                  *)
(*                                                                         *)
(* No row is locked: issuing, revoking and reissuing each load a row and   *)
(* save some of its fields later, the reissue after several commands on    *)
(* the server.                                                             *)
(***************************************************************************)
EXTENDS Integers

CONSTANTS
  Worker,     \* gunicorn workers
  Token,      \* the random tokens that are ever drawn
  NoToken,
  Lifetimes,  \* values of portal_link_lifetime_days that administrators set
  Cooldown,   \* PortalReissuePolicyService.COOLDOWN_HOURS, in steps of the clock
  MaxTime     \* bound on the clock

ASSUME PortalAssumption ==
  /\ NoToken \notin Token
  /\ Lifetimes \subseteq Nat /\ Lifetimes # {}
  /\ Cooldown \in Nat \ {0} /\ MaxTime \in Nat

PC == {"idle", "issue", "revoke", "visit", "reissue", "stamp"}
Visit == {"page", "reissue"}  \* a page, the configuration, the QR code; or a reissue
Clock == 0..MaxTime
Never == -1   \* a date that is not set

VARIABLES
  now,
  client,     \* "active": it may reissue; "blocked": disabled, over a limit, without configuration
  settings,   \* the SystemSettings row exists
  access,     \* the client's ClientPortalAccess row
  task,       \* what each worker does, with the values it computed or loaded
  drawn,      \* tokens drawn so far
  issued,     \* history: tokens that were the client's link at some time
  lastDone,   \* history: the time of the last self-service reissue that succeeded
  unstamped   \* history: that reissue's handler failed before it noted the time

vars == <<now, client, settings, access, task, drawn, issued, lastDone, unstamped>>

\* `token` stands for token_hash, the hash of that token, `shown` for
\* token_encrypted.  A client without a row has the token NoToken.
Access == [token : Token \cup {NoToken}, shown : Token \cup {NoToken}, enabled : BOOLEAN,
           expires : Nat \cup {Never}, reissued : Clock \cup {Never}]

\* `first`: get_solo found no settings row and inserts it.  `seen` and `client`
\* are the access and its client as resolve_token loads them.  `beside`: another
\* request for a self-service reissue was in progress at the same time.
Task == [pc : PC, token : Token \cup {NoToken}, expires : Nat \cup {Never}, first : BOOLEAN,
         visit : Visit, seen : Access, client : {"active", "blocked"}, beside : BOOLEAN]

NoAccess == [token |-> NoToken, shown |-> NoToken, enabled |-> FALSE,
             expires |-> Never, reissued |-> Never]
Idle == [pc |-> "idle", token |-> NoToken, expires |-> Never, first |-> FALSE,
         visit |-> "page", seen |-> NoAccess, client |-> "active", beside |-> FALSE]

Finish(w) == task' = [task EXCEPT ![w] = Idle]

\* The workers that handle a request for a self-service reissue.
Reissuing == {w \in Worker : task[w].visit = "reissue"}

\* get_status_for_access
StatusOf(a) ==
  IF a.token = NoToken THEN "not_issued"
  ELSE IF ~ a.enabled THEN "revoked"
  ELSE IF a.expires <= now THEN "expired" ELSE "active"

\* resolve_token: the row with the token's hash, if it is neither revoked nor expired.
Opens(t) == t # NoToken /\ access.token = t /\ access.enabled /\ access.expires > now

\* get_raw_token_for_client, for the operators' "show" and "open"
RawToken == IF StatusOf(access) = "active" THEN access.shown ELSE NoToken

-----------------------------------------------------------------------------
\* issue_for_client: a token is drawn and its expiry computed from the settings.
IssueBegin(w, t, days) ==
  /\ task[w].pc = "idle" /\ t \notin drawn
  /\ drawn' = drawn \cup {t}
  /\ task' = [task EXCEPT ![w] = [Idle EXCEPT !.pc = "issue", !.token = t,
                                    !.expires = now + days, !.first = ~ settings]]
  /\ UNCHANGED <<now, client, settings, access, issued, lastDone, unstamped>>

\* Mutation: the encrypted token is missing from update_fields.
SavedAccessOldLinkShown(t) ==
  [access EXCEPT !.token = t.token, !.shown = IF access.token = NoToken THEN t.token ELSE @,
                 !.enabled = TRUE, !.expires = t.expires]

\* Mutation: a new link starts without a cooldown.
SavedAccessFresh(t) ==
  [NoAccess EXCEPT !.token = t.token, !.shown = t.token, !.enabled = TRUE, !.expires = t.expires]

\* The row that get_or_create finds or inserts, with the fields that are saved.
SavedAccess(t) ==
  [access EXCEPT !.token = t.token, !.shown = t.token, !.enabled = TRUE, !.expires = t.expires]

IssueCommit(w) ==
  LET t == task[w] IN
  /\ t.pc = "issue" /\ ~ (t.first /\ settings)
  /\ access' = SavedAccess(t)
  /\ issued' = issued \cup {t.token}
  /\ settings' = TRUE
  /\ Finish(w)
  /\ UNCHANGED <<now, client, drawn, lastDone, unstamped>>

\* Two handlers found no settings row; the second insert of row 1 is rejected.
IssueConflict(w) ==
  /\ task[w].pc = "issue" /\ task[w].first /\ settings
  /\ Finish(w)
  /\ UNCHANGED <<now, client, settings, access, drawn, issued, lastDone, unstamped>>

\* revoke_for_client loads the row, if there is one.
RevokeBegin(w) ==
  /\ task[w].pc = "idle" /\ access.token # NoToken
  /\ task' = [task EXCEPT ![w].pc = "revoke"]
  /\ UNCHANGED <<now, client, settings, access, drawn, issued, lastDone, unstamped>>

\* save(update_fields=["enabled", "revoked_at"]), whatever link the row has by now
RevokeCommit(w) ==
  /\ task[w].pc = "revoke"
  /\ access' = [access EXCEPT !.enabled = FALSE]
  /\ Finish(w)
  /\ UNCHANGED <<now, client, settings, drawn, issued, lastDone, unstamped>>

-----------------------------------------------------------------------------
\* A request with a link that opens the portal.
Resolve(w, t, visit) ==
  /\ task[w].pc = "idle" /\ Opens(t)
  /\ task' = [v \in Worker |->
       IF v = w THEN [Idle EXCEPT !.pc = "visit", !.visit = visit, !.seen = access,
                        !.client = client, !.beside = (visit = "reissue" /\ Reissuing # {})]
       ELSE [task[v] EXCEPT !.beside = @ \/ (visit = "reissue" /\ v \in Reissuing)]]
  /\ UNCHANGED <<now, client, settings, access, drawn, issued, lastDone, unstamped>>

\* Mutation: mark_accessed saves the whole row it loaded.
MarkedAccessedWholeRow(t) == t.seen

\* mark_accessed saves the time of the visit, which nothing here depends on.
MarkedAccessed(t) == access

ServePage(w) ==
  LET t == task[w] IN
  /\ t.pc = "visit" /\ t.visit = "page"
  /\ access' = MarkedAccessed(t)
  /\ Finish(w)
  /\ UNCHANGED <<now, client, settings, drawn, issued, lastDone, unstamped>>

\* can_selfservice_reissue, on the objects as loaded
MayReissue(t) ==
  t.client = "active" /\ (t.seen.reissued = Never \/ t.seen.reissued + Cooldown <= now)

\* portal_reissue_config_view: the visit is noted and the policy asked.
ReissueBegin(w) ==
  LET t == task[w] IN
  /\ t.pc = "visit" /\ t.visit = "reissue"
  /\ access' = MarkedAccessed(t)
  /\ task' = [task EXCEPT ![w] =
       IF MayReissue(t) THEN [t EXCEPT !.pc = "reissue", !.seen = NoAccess, !.client = "active"]
       ELSE Idle]
  /\ UNCHANGED <<now, client, settings, drawn, issued, lastDone, unstamped>>

\* reissue_config has committed.
ReissueDone(w) ==
  /\ task[w].pc = "reissue"
  /\ lastDone' = now /\ unstamped' = FALSE
  /\ task' = [task EXCEPT ![w].pc = "stamp"]
  /\ UNCHANGED <<now, client, settings, access, drawn, issued>>

\* Mutation: the time of the next reissue is noted in place of this one's.
StampedNext == [access EXCEPT !.reissued = now + Cooldown]

Stamped == [access EXCEPT !.reissued = now]

\* access.save(update_fields=["last_selfservice_reissue_at"])
Stamp(w) ==
  /\ task[w].pc = "stamp"
  /\ access' = Stamped
  /\ Finish(w)
  /\ UNCHANGED <<now, client, settings, drawn, issued, lastDone, unstamped>>

\* reissue_config raises, a database error, the death of the worker.
Fail(w) ==
  /\ task[w].pc # "idle"
  /\ unstamped' = (unstamped \/ task[w].pc = "stamp")
  /\ Finish(w)
  /\ UNCHANGED <<now, client, settings, access, drawn, issued, lastDone>>

-----------------------------------------------------------------------------
\* Operators and limits block the client or allow it again.
ClientChanges ==
  /\ client' = IF client = "active" THEN "blocked" ELSE "active"
  /\ UNCHANGED <<now, settings, access, task, drawn, issued, lastDone, unstamped>>

Tick ==
  /\ now < MaxTime
  /\ now' = now + 1
  /\ UNCHANGED <<client, settings, access, task, drawn, issued, lastDone, unstamped>>

Init ==
  /\ now = 0 /\ client = "active" /\ settings = FALSE
  /\ access = NoAccess
  /\ task = [w \in Worker |-> Idle]
  /\ drawn = {} /\ issued = {} /\ lastDone = Never /\ unstamped = FALSE

Step(w) ==
  \/ \E t \in Token, days \in Lifetimes : IssueBegin(w, t, days)
  \/ IssueCommit(w) \/ IssueConflict(w)
  \/ RevokeBegin(w) \/ RevokeCommit(w)
  \/ \E t \in Token, visit \in Visit : Resolve(w, t, visit)
  \/ ServePage(w) \/ ReissueBegin(w) \/ ReissueDone(w) \/ Stamp(w) \/ Fail(w)

Next == (\E w \in Worker : Step(w)) \/ ClientChanges \/ Tick

Spec == Init /\ [][Next]_vars

-----------------------------------------------------------------------------
TypeOK ==
  /\ now \in Clock /\ client \in {"active", "blocked"} /\ settings \in BOOLEAN
  /\ access \in Access /\ task \in [Worker -> Task]
  /\ drawn \subseteq Token /\ issued \subseteq drawn
  /\ lastDone \in Clock \cup {Never} /\ unstamped \in BOOLEAN

\* A link that was revoked, replaced or has expired never opens the portal again,
\* however issuing and revoking overlap or fail.
LinkNeverRevives ==
  [][\A t \in issued : ~ Opens(t) => ~ Opens(t)']_vars

\* For an access whose badge says active, operators are shown a link, and it is
\* the one that opens the portal.
ShownLinkOpens == StatusOf(access) = "active" => Opens(RawToken)

\* Two self-service reissues are a cooldown apart, also when the link is
\* revoked or replaced between them - unless the second passed its checks while
\* another was in progress, or the first failed to note its time.
CooldownKept ==
  [][\A w \in Worker :
       /\ task[w].pc = "reissue" /\ task'[w].pc = "stamp"
       /\ lastDone # Never /\ ~ unstamped /\ ~ task[w].beside
       => now >= lastDone + Cooldown]_vars
=============================================================================
