---------------------------- MODULE PortalProofs ----------------------------
(***************************************************************************)
(* Proofs about PortalAccess for any workers, tokens, lifetimes and        *)
(* cooldown: the links of the portal, then the cooldown of the reissue.    *)
(***************************************************************************)
EXTENDS PortalAccess, TLAPS

\* The link a handler is about to save was never the client's, and no other
\* handler is about to save it.
FreshTokens ==
  \A w \in Worker : task[w].pc = "issue" =>
    /\ task[w].token \in drawn \ issued
    /\ \A v \in Worker : task[v].pc = "issue" /\ task[v].token = task[w].token => v = w

\* The link that is shown is the one that opens.
ShownIsToken == access.shown = access.token

\* The handlers of a reissue are those that are past resolve_token with one.
KnownVisit(t) ==
  /\ t.pc \in {"idle", "issue", "revoke"} => t.visit = "page"
  /\ t.pc \in {"reissue", "stamp"} => t.visit = "reissue"

BaseInv ==
  /\ TypeOK /\ FreshTokens /\ ShownIsToken
  /\ \A w \in Worker : KnownVisit(task[w])

-----------------------------------------------------------------------------
LEMMA IdleTyped == Idle \in Task /\ Idle.pc = "idle" /\ KnownVisit(Idle)
BY PortalAssumption DEF NoAccess, Access, Idle, Task, PC, Visit, Never, Clock, KnownVisit

\* A handler takes a step that draws and saves no link.
LEMMA HandlerStep ==
  ASSUME BaseInv, NEW w \in Worker, NEW t \in Task, KnownVisit(t), t.pc # "issue",
         task' = [task EXCEPT ![w] = t], UNCHANGED <<drawn, issued>>
  PROVE  /\ task' \in [Worker -> Task] /\ FreshTokens' /\ (\A v \in Worker : KnownVisit(task[v])')
         /\ drawn' \subseteq Token /\ issued' \subseteq drawn'
PROOF
<1>1. \A v \in Worker : task'[v] = IF v = w THEN t ELSE task[v]
  BY DEF BaseInv, TypeOK
<1> QED
  BY <1>1 DEF BaseInv, TypeOK, FreshTokens, KnownVisit

\* The same step in the form the actions write it, with what else they change.
LEMMA FinishStep ==
  ASSUME BaseInv, NEW w \in Worker, Finish(w), UNCHANGED <<drawn, issued>>
  PROVE  /\ task' \in [Worker -> Task] /\ FreshTokens' /\ (\A v \in Worker : KnownVisit(task[v])')
         /\ drawn' \subseteq Token /\ issued' \subseteq drawn'
BY IdleTyped, HandlerStep DEF Finish

LEMMA IssueBeginBase ==
  ASSUME BaseInv, NEW w \in Worker, NEW t \in Token, NEW days \in Lifetimes, IssueBegin(w, t, days)
  PROVE  BaseInv'
PROOF
<1> DEFINE new == [Idle EXCEPT !.pc = "issue", !.token = t, !.expires = now + days, !.first = ~ settings]
<1>1. now + days \in Nat
  BY PortalAssumption DEF BaseInv, TypeOK, Clock
<1>2. new \in Task /\ new.pc = "issue" /\ new.token = t /\ new.visit = "page"
  BY <1>1, IdleTyped DEF BaseInv, TypeOK, Task, PC, Idle
<1>3. \A v \in Worker : task'[v] = IF v = w THEN new ELSE task[v]
  BY DEF IssueBegin, BaseInv, TypeOK
<1>4. task' = [task EXCEPT ![w] = new] /\ drawn' = drawn \cup {t} /\ t \notin drawn
      /\ UNCHANGED <<now, client, settings, access, issued, lastDone, unstamped>>
  BY DEF IssueBegin
<1> HIDE DEF new
<1>5. TypeOK'
  BY <1>2, <1>4 DEF BaseInv, TypeOK
<1>6. FreshTokens'
  BY <1>2, <1>3, <1>4 DEF BaseInv, TypeOK, FreshTokens
<1> QED
  BY <1>2, <1>3, <1>4, <1>5, <1>6 DEF BaseInv, ShownIsToken, KnownVisit

LEMMA IssueCommitBase ==
  ASSUME BaseInv, NEW w \in Worker, IssueCommit(w)
  PROVE  BaseInv'
PROOF
<1>1. task[w].token \in drawn \ issued
  BY DEF BaseInv, FreshTokens, IssueCommit
<1>2. task[w] \in Task /\ access \in Access
  BY DEF BaseInv, TypeOK
<1>3. access' \in Access /\ access'.shown = access'.token
  BY <1>2 DEF IssueCommit, SavedAccess, Access, Task
<1>4. \A v \in Worker : task'[v] = IF v = w THEN Idle ELSE task[v]
  BY DEF IssueCommit, Finish, BaseInv, TypeOK
<1>5. TypeOK'
  BY <1>1, <1>3, IdleTyped DEF IssueCommit, Finish, BaseInv, TypeOK
<1>6. FreshTokens'
  BY <1>4, IdleTyped DEF IssueCommit, BaseInv, FreshTokens
<1> QED
  BY <1>3, <1>4, <1>5, <1>6, IdleTyped DEF BaseInv, ShownIsToken

LEMMA ResolveBase ==
  ASSUME BaseInv, NEW w \in Worker, NEW t \in Token, NEW visit \in Visit, Resolve(w, t, visit)
  PROVE  BaseInv'
PROOF
<1> DEFINE new == [Idle EXCEPT !.pc = "visit", !.visit = visit, !.seen = access,
                     !.client = client, !.beside = (visit = "reissue" /\ Reissuing # {})]
           other(v) == [task[v] EXCEPT !.beside = @ \/ (visit = "reissue" /\ v \in Reissuing)]
<1>1. new \in Task /\ new.pc = "visit"
  BY IdleTyped DEF BaseInv, TypeOK, Task, PC, Idle
<1>2. ASSUME NEW v \in Worker
      PROVE other(v) \in Task /\ other(v).pc = task[v].pc /\ other(v).visit = task[v].visit
            /\ other(v).token = task[v].token
  BY DEF BaseInv, TypeOK, Task
<1>3. \A v \in Worker : task'[v] = IF v = w THEN new ELSE other(v)
  BY DEF Resolve
<1>4. task' = [v \in Worker |-> IF v = w THEN new ELSE other(v)]
      /\ UNCHANGED <<now, client, settings, access, drawn, issued, lastDone, unstamped>>
  BY DEF Resolve
<1> HIDE DEF new, other
<1>5. TypeOK'
  BY <1>1, <1>2, <1>4 DEF BaseInv, TypeOK
<1>6. FreshTokens'
  BY <1>1, <1>2, <1>3, <1>4 DEF BaseInv, FreshTokens
<1>7. \A v \in Worker : KnownVisit(task[v])'
  BY <1>1, <1>2, <1>3 DEF BaseInv, KnownVisit
<1> QED
  BY <1>4, <1>5, <1>6, <1>7 DEF BaseInv, ShownIsToken

LEMMA StepBase ==
  ASSUME BaseInv, [Next]_vars
  PROVE  BaseInv'
PROOF
<1> USE DEF ShownIsToken
<1>1. CASE UNCHANGED vars
  BY <1>1 DEF vars, BaseInv, TypeOK, FreshTokens, KnownVisit
<1>2. ASSUME NEW w \in Worker, IssueConflict(w) PROVE BaseInv'
  BY <1>2, FinishStep DEF IssueConflict, BaseInv, TypeOK
<1>3. ASSUME NEW w \in Worker, RevokeBegin(w) PROVE BaseInv'
  <2>1. [task[w] EXCEPT !.pc = "revoke"] \in Task /\ KnownVisit([task[w] EXCEPT !.pc = "revoke"])
    BY <1>3 DEF RevokeBegin, BaseInv, TypeOK, Task, PC, KnownVisit
  <2>2. task' = [task EXCEPT ![w] = [task[w] EXCEPT !.pc = "revoke"]]
    BY <1>3 DEF RevokeBegin
  <2>3. [task[w] EXCEPT !.pc = "revoke"].pc # "issue"
    BY DEF BaseInv, TypeOK, Task
  <2> QED
    BY <1>3, <2>1, <2>2, <2>3, HandlerStep DEF RevokeBegin, BaseInv, TypeOK
<1>4. ASSUME NEW w \in Worker, RevokeCommit(w) PROVE BaseInv'
  <2>1. access' \in Access /\ access'.shown = access'.token
    BY <1>4 DEF RevokeCommit, BaseInv, TypeOK, Access
  <2> QED
    BY <1>4, <2>1, FinishStep DEF RevokeCommit, BaseInv, TypeOK
<1>5. ASSUME NEW w \in Worker, ServePage(w) PROVE BaseInv'
  BY <1>5, FinishStep DEF ServePage, MarkedAccessed, BaseInv, TypeOK
<1>6. ASSUME NEW w \in Worker, ReissueBegin(w) PROVE BaseInv'
  <2>1. PICK t \in {Idle, [task[w] EXCEPT !.pc = "reissue", !.seen = NoAccess, !.client = "active"]} :
          task' = [task EXCEPT ![w] = t]
    BY <1>6 DEF ReissueBegin
  <2>2. t \in Task /\ t.pc # "issue" /\ KnownVisit(t)
    <3>1. NoAccess \in Access
      BY IdleTyped DEF Idle, Task
    <3>2. task[w] \in Task /\ task[w].visit = "reissue"
      BY <1>6 DEF ReissueBegin, BaseInv, TypeOK
    <3> QED
      BY <2>1, <3>1, <3>2, IdleTyped DEF Task, PC, KnownVisit
  <2> QED
    BY <1>6, <2>1, <2>2, HandlerStep DEF ReissueBegin, MarkedAccessed, BaseInv, TypeOK
<1>7. ASSUME NEW w \in Worker, ReissueDone(w) PROVE BaseInv'
  <2>1. [task[w] EXCEPT !.pc = "stamp"] \in Task /\ KnownVisit([task[w] EXCEPT !.pc = "stamp"])
        /\ [task[w] EXCEPT !.pc = "stamp"].pc # "issue"
    BY <1>7 DEF ReissueDone, BaseInv, TypeOK, Task, PC, KnownVisit
  <2>2. task' = [task EXCEPT ![w] = [task[w] EXCEPT !.pc = "stamp"]]
    BY <1>7 DEF ReissueDone
  <2> QED
    BY <1>7, <2>1, <2>2, HandlerStep DEF ReissueDone, BaseInv, TypeOK
<1>8. ASSUME NEW w \in Worker, Stamp(w) PROVE BaseInv'
  <2>1. access' \in Access /\ access'.shown = access'.token
    BY <1>8 DEF Stamp, Stamped, BaseInv, TypeOK, Access
  <2> QED
    BY <1>8, <2>1, FinishStep DEF Stamp, BaseInv, TypeOK
<1>9. ASSUME NEW w \in Worker, Fail(w) PROVE BaseInv'
  <2>1. unstamped' \in BOOLEAN
    BY <1>9 DEF Fail
  <2> QED
    BY <1>9, <2>1, FinishStep DEF Fail, BaseInv, TypeOK
<1>10. CASE ClientChanges
  BY <1>10 DEF ClientChanges, BaseInv, TypeOK, FreshTokens, KnownVisit
<1>11. CASE Tick
  <2>1. now' \in Clock
    BY <1>11, PortalAssumption DEF Tick, BaseInv, TypeOK, Clock
  <2> QED
    BY <1>11, <2>1 DEF Tick, BaseInv, TypeOK, FreshTokens, KnownVisit
<1> QED
  BY <1>1, <1>2, <1>3, <1>4, <1>5, <1>6, <1>7, <1>8, <1>9, <1>10, <1>11,
     IssueBeginBase, IssueCommitBase, ResolveBase DEF Next, Step

LEMMA InitBase == Init => BaseInv
PROOF
<1>1. NoAccess \in Access /\ NoAccess.shown = NoAccess.token
  BY IdleTyped DEF Idle, Task, NoAccess
<1>2. Init => 0 \in Clock /\ Never \in Clock \cup {Never}
  BY PortalAssumption DEF Clock
<1> QED
  BY <1>1, <1>2, IdleTyped DEF Init, BaseInv, TypeOK, FreshTokens, ShownIsToken

LEMMA AlwaysBase == Spec => []BaseInv
BY InitBase, StepBase, PTL DEF Spec

\* Every variable keeps its type, whatever handlers do at once.
THEOREM TypeCorrect == Spec => []TypeOK
PROOF
<1>1. BaseInv => TypeOK
  BY DEF BaseInv
<1> QED
  BY <1>1, AlwaysBase, PTL

\* The link operators are shown for an active access opens the portal.
THEOREM ShownLinkAlwaysOpens == Spec => []ShownLinkOpens
PROOF
<1>1. BaseInv => ShownLinkOpens
  <2>1. BaseInv => (access.expires \in Int /\ now \in Int)
    BY PortalAssumption DEF BaseInv, TypeOK, Access, Never, Clock
  <2> QED
    BY <2>1 DEF BaseInv, ShownIsToken, ShownLinkOpens, StatusOf, Opens, RawToken
<1> QED
  BY <1>1, AlwaysBase, PTL

\* The row and the clock change in four actions only.
LEMMA WhoChangesAccess ==
  ASSUME Next
  PROVE  \/ access' = access /\ now' = now
         \/ Tick
         \/ \E w \in Worker : IssueCommit(w) \/ RevokeCommit(w) \/ Stamp(w)
PROOF
<1> DEFINE Same == access' = access /\ now' = now
<1>1. ASSUME NEW w \in Worker, NEW t \in Token, NEW days \in Lifetimes, IssueBegin(w, t, days) PROVE Same
  BY <1>1 DEF IssueBegin
<1>2. ASSUME NEW w \in Worker, NEW t \in Token, NEW visit \in Visit, Resolve(w, t, visit) PROVE Same
  BY <1>2 DEF Resolve
<1>3. ASSUME NEW w \in Worker, IssueConflict(w) \/ RevokeBegin(w) \/ Fail(w) PROVE Same
  BY <1>3 DEF IssueConflict, RevokeBegin, Fail
<1>4. ASSUME NEW w \in Worker, ServePage(w) \/ ReissueBegin(w) \/ ReissueDone(w) PROVE Same
  BY <1>4 DEF ServePage, ReissueBegin, ReissueDone, MarkedAccessed
<1>5. ASSUME ClientChanges PROVE Same
  BY <1>5 DEF ClientChanges
<1> HIDE DEF Same
<1>6. Same \/ Tick \/ \E w \in Worker : IssueCommit(w) \/ RevokeCommit(w) \/ Stamp(w)
  BY <1>1, <1>2, <1>3, <1>4, <1>5 DEF Next, Step
<1> QED
  BY <1>6 DEF Same

\* A link that has stopped opening the portal never opens it again: the tokens about
\* to be saved are fresh, and every other save leaves the token alone.
THEOREM LinkStaysDead == Spec => LinkNeverRevives
PROOF
<1> DEFINE Dead == \A t \in issued : ~ Opens(t) => ~ Opens(t)'
<1>1. ASSUME BaseInv, [Next]_vars PROVE [Dead]_vars
  <2> SUFFICES ASSUME Next, NEW t \in issued, Opens(t)' PROVE Opens(t)
    BY <1>1
  <2>1. access.token = access'.token /\ access.expires = access'.expires /\ access'.enabled = access.enabled
        /\ now' >= now
    <3>1. access \in Access /\ now \in Nat /\ t \notin {NoToken}
      BY <1>1, PortalAssumption DEF BaseInv, TypeOK, Clock
    <3>2. \A w \in Worker : ~ IssueCommit(w)
      <4>1. SUFFICES ASSUME NEW w \in Worker, IssueCommit(w) PROVE FALSE
        OBVIOUS
      <4>2. access'.token = task[w].token
        BY <3>1, <4>1 DEF IssueCommit, SavedAccess, Access
      <4>3. task[w].token \notin issued
        BY <1>1, <4>1 DEF BaseInv, FreshTokens, IssueCommit
      <4> QED
        BY <4>2, <4>3 DEF Opens
    <3>3. \A w \in Worker : ~ RevokeCommit(w)
      BY <3>1 DEF RevokeCommit, Access, Opens
    <3>4. ASSUME NEW w \in Worker, Stamp(w)
          PROVE access.token = access'.token /\ access.expires = access'.expires
                /\ access'.enabled = access.enabled /\ now' = now
      BY <3>1, <3>4 DEF Stamp, Stamped, Access
    <3>5. CASE access' = access /\ now' = now
      BY <3>1, <3>5
    <3>6. CASE Tick
      BY <3>1, <3>6 DEF Tick
    <3> QED
      BY <3>1, <3>2, <3>3, <3>4, <3>5, <3>6, WhoChangesAccess
  <2>2. access.expires \in Int /\ now \in Int /\ now' \in Int
    <3>1. BaseInv'
      BY <1>1, StepBase
    <3> QED
      BY <1>1, <3>1, PortalAssumption DEF BaseInv, TypeOK, Access, Never, Clock
  <2> QED
    BY <2>1, <2>2 DEF Opens
<1> QED
  BY <1>1, AlwaysBase, PTL DEF Spec, LinkNeverRevives
-----------------------------------------------------------------------------
\* The history is there and the reissue that it holds was noted or may fail to be.
Recorded == lastDone # Never /\ ~ unstamped

\* Two requests for a reissue in progress know of each other.
KnowEachOther ==
  \A w, v \in Reissuing : w # v => task[w].beside

\* The time of the last reissue is in the row, or a handler is about to save it.
Noted ==
  Recorded => access.reissued >= lastDone \/ \E w \in Worker : task[w].pc = "stamp"

\* What the handler of a reissue that no other ran beside has loaded and checked.
Checked(w) ==
  Recorded /\ ~ task[w].beside =>
    /\ task[w].pc = "visit" /\ task[w].visit = "reissue" => task[w].seen.reissued >= lastDone
    /\ task[w].pc = "reissue" => now >= lastDone + Cooldown

CoolInv ==
  /\ BaseInv /\ lastDone <= now /\ KnowEachOther /\ Noted
  /\ \A w \in Worker : Checked(w)

\* The values of the integers in the state, for the arithmetic.
LEMMA CoolTypes ==
  ASSUME CoolInv
  PROVE  /\ now \in Nat /\ lastDone \in Int /\ access.reissued \in Int /\ Cooldown \in Nat
         /\ Never = -1 /\ (lastDone # Never => lastDone >= 0)
         /\ \A w \in Worker : /\ task[w] \in Task /\ KnownVisit(task[w])
                              /\ task[w].seen.reissued \in Int
BY PortalAssumption DEF CoolInv, BaseInv, TypeOK, Access, Task, Clock, Never

\* A handler that is not about to note a reissue ends, or begins to issue or revoke.
LEMMA QuietCool ==
  ASSUME CoolInv, NEW w \in Worker, NEW t \in Task, t.pc \in {"idle", "issue", "revoke"}, t.visit = "page",
         task' = [task EXCEPT ![w] = t], task[w].pc # "stamp",
         access'.reissued = access.reissued, UNCHANGED <<now, lastDone, unstamped>>
  PROVE  lastDone' <= now' /\ KnowEachOther' /\ Noted' /\ \A v \in Worker : Checked(v)'
PROOF
<1>1. \A v \in Worker : task'[v] = IF v = w THEN t ELSE task[v]
  BY DEF CoolInv, BaseInv, TypeOK
<1>2. Recorded' = Recorded
  BY DEF Recorded
<1>3. KnowEachOther'
  BY <1>1 DEF CoolInv, KnowEachOther, Reissuing
<1>4. Noted'
  BY <1>1, <1>2 DEF CoolInv, Noted
<1>5. \A v \in Worker : Checked(v)'
  BY <1>1, <1>2 DEF CoolInv, Checked
<1> QED
  BY <1>3, <1>4, <1>5 DEF CoolInv

\* The same for the actions: each is quiet unless it resolves, checks, makes or
\* notes a reissue.
LEMMA QuietActions ==
  ASSUME CoolInv, NEW w \in Worker,
         \/ \E t \in Token, days \in Lifetimes : IssueBegin(w, t, days)
         \/ IssueCommit(w) \/ IssueConflict(w) \/ RevokeBegin(w) \/ RevokeCommit(w)
         \/ ServePage(w)
         \/ (Fail(w) /\ task[w].pc # "stamp")
  PROVE  lastDone' <= now' /\ KnowEachOther' /\ Noted' /\ \A v \in Worker : Checked(v)'
PROOF
<1> USE IdleTyped
<1> DEFINE Goal == lastDone' <= now' /\ KnowEachOther' /\ Noted' /\ \A v \in Worker : Checked(v)'
<1>1. Idle.visit = "page"
  BY DEF Idle
<1>2. access \in Access /\ unstamped \in BOOLEAN
  BY DEF CoolInv, BaseInv, TypeOK
<1>3. ASSUME NEW t \in Token, NEW days \in Lifetimes, IssueBegin(w, t, days) PROVE Goal
  <2> DEFINE new == [Idle EXCEPT !.pc = "issue", !.token = t, !.expires = now + days, !.first = ~ settings]
  <2>1. new \in Task /\ new.pc = "issue" /\ new.visit = "page"
    <3>1. now + days \in Nat
      BY CoolTypes, PortalAssumption
    <3> QED
      BY <3>1 DEF CoolInv, BaseInv, TypeOK, Task, PC, Idle
  <2>2. task' = [task EXCEPT ![w] = new] /\ task[w].pc # "stamp"
        /\ UNCHANGED <<now, access, lastDone, unstamped>>
    BY <1>3 DEF IssueBegin
  <2> HIDE DEF new
  <2> QED
    BY <2>1, <2>2, QuietCool
<1>4. ASSUME IssueCommit(w) PROVE Goal
  <2>1. access'.reissued = access.reissued
    BY <1>2, <1>4 DEF IssueCommit, SavedAccess, Access
  <2> QED
    BY <1>1, <1>4, <2>1, QuietCool DEF IssueCommit, Finish
<1>5. ASSUME RevokeCommit(w) PROVE Goal
  <2>1. access'.reissued = access.reissued
    BY <1>2, <1>5 DEF RevokeCommit, Access
  <2> QED
    BY <1>1, <1>5, <2>1, QuietCool DEF RevokeCommit, Finish
<1>6. ASSUME RevokeBegin(w) PROVE Goal
  <2> DEFINE new == [task[w] EXCEPT !.pc = "revoke"]
  <2>1. new \in Task /\ new.pc = "revoke" /\ new.visit = "page"
    BY <1>6, CoolTypes DEF RevokeBegin, Task, PC, KnownVisit
  <2>2. task' = [task EXCEPT ![w] = new] /\ task[w].pc # "stamp"
        /\ UNCHANGED <<now, access, lastDone, unstamped>>
    BY <1>6 DEF RevokeBegin
  <2> HIDE DEF new
  <2> QED
    BY <2>1, <2>2, QuietCool
<1>7. ASSUME IssueConflict(w) PROVE Goal
  BY <1>1, <1>7, QuietCool DEF IssueConflict, Finish
<1>8. ASSUME ServePage(w) PROVE Goal
  BY <1>1, <1>8, QuietCool DEF ServePage, MarkedAccessed, Finish
<1>9. ASSUME Fail(w), task[w].pc # "stamp" PROVE Goal
  <2>1. unstamped' = unstamped
    BY <1>2, <1>9 DEF Fail
  <2> QED
    BY <1>1, <1>9, <2>1, QuietCool DEF Fail, Finish
<1> HIDE DEF Goal
<1>10. Goal
  BY <1>3, <1>4, <1>5, <1>6, <1>7, <1>8, <1>9
<1> QED
  BY <1>10 DEF Goal

\* A request for a reissue that finds none in progress loads a row that has the
\* time of the last one: nobody is about to save it.
LEMMA ResolveCool ==
  ASSUME CoolInv, NEW w \in Worker, NEW t \in Token, NEW visit \in Visit, Resolve(w, t, visit)
  PROVE  lastDone' <= now' /\ KnowEachOther' /\ Noted' /\ \A v \in Worker : Checked(v)'
PROOF
<1> DEFINE new == [Idle EXCEPT !.pc = "visit", !.visit = visit, !.seen = access,
                     !.client = client, !.beside = (visit = "reissue" /\ Reissuing # {})]
           other(v) == [task[v] EXCEPT !.beside = @ \/ (visit = "reissue" /\ v \in Reissuing)]
<1>1. new.pc = "visit" /\ new.visit = visit /\ new.seen = access
      /\ (new.beside <=> visit = "reissue" /\ Reissuing # {})
  BY DEF Idle
<1>2. ASSUME NEW v \in Worker
      PROVE /\ other(v).pc = task[v].pc /\ other(v).visit = task[v].visit
            /\ other(v).seen = task[v].seen
            /\ (other(v).beside <=> task[v].beside \/ (visit = "reissue" /\ v \in Reissuing))
  BY CoolTypes DEF Task
<1>3. \A v \in Worker : task'[v] = IF v = w THEN new ELSE other(v)
  BY DEF Resolve
<1>4. UNCHANGED <<now, access, lastDone, unstamped>> /\ task[w].pc = "idle"
  BY DEF Resolve
<1>5. Recorded' = Recorded
  BY <1>4 DEF Recorded
<1> HIDE DEF new, other
<1>6. KnowEachOther'
  BY <1>1, <1>2, <1>3 DEF CoolInv, KnowEachOther, Reissuing
<1>7. Noted'
  BY <1>2, <1>3, <1>4, <1>5 DEF CoolInv, Noted
<1>8. ASSUME NEW v \in Worker PROVE Checked(v)'
  <2>1. CASE v # w
    BY <1>2, <1>3, <1>4, <1>5, <2>1 DEF CoolInv, Checked
  <2>2. CASE v = w
    <3>1. Recorded /\ ~ new.beside /\ visit = "reissue" => access.reissued >= lastDone
      BY <1>1, CoolTypes DEF CoolInv, Noted, Reissuing, KnownVisit
    <3> QED
      BY <1>1, <1>3, <1>4, <1>5, <2>2, <3>1 DEF Checked
  <2> QED
    BY <2>1, <2>2
<1> QED
  BY <1>4, <1>6, <1>7, <1>8 DEF CoolInv

\* The policy allows a reissue only a cooldown after the time that was loaded.
LEMMA ReissueBeginCool ==
  ASSUME CoolInv, NEW w \in Worker, ReissueBegin(w)
  PROVE  lastDone' <= now' /\ KnowEachOther' /\ Noted' /\ \A v \in Worker : Checked(v)'
PROOF
<1>1. access' = access /\ task[w].pc = "visit" /\ task[w].visit = "reissue"
      /\ UNCHANGED <<now, lastDone, unstamped>>
  BY DEF ReissueBegin, MarkedAccessed
<1>2. CASE ~ MayReissue(task[w])
  <2>1. task' = [task EXCEPT ![w] = Idle] /\ Idle.visit = "page"
    BY <1>2 DEF ReissueBegin, Idle
  <2> QED
    BY <1>1, <2>1, IdleTyped, QuietCool
<1>3. CASE MayReissue(task[w])
  <2> DEFINE new == [task[w] EXCEPT !.pc = "reissue", !.seen = NoAccess, !.client = "active"]
  <2>1. new.pc = "reissue" /\ new.visit = "reissue" /\ new.beside = task[w].beside
    BY <1>1, CoolTypes DEF Task
  <2>2. \A v \in Worker : task'[v] = IF v = w THEN new ELSE task[v]
    BY <1>3 DEF ReissueBegin, CoolInv, BaseInv, TypeOK
  <2>3. Recorded' = Recorded
    BY <1>1 DEF Recorded
  <2>4. Recorded /\ ~ task[w].beside => now >= lastDone + Cooldown
    BY <1>1, <1>3, CoolTypes DEF CoolInv, Checked, Recorded, MayReissue
  <2> HIDE DEF new
  <2>5. KnowEachOther'
    BY <1>1, <2>1, <2>2 DEF CoolInv, KnowEachOther, Reissuing
  <2>6. Noted'
    BY <1>1, <2>2, <2>3 DEF CoolInv, Noted
  <2>7. \A v \in Worker : Checked(v)'
    BY <1>1, <2>1, <2>2, <2>3, <2>4 DEF CoolInv, Checked
  <2> QED
    BY <1>1, <2>5, <2>6, <2>7 DEF CoolInv
<1> QED
  BY <1>2, <1>3

\* A reissue that succeeds sets the history: the other handlers of a reissue, if
\* any, ran beside it, and this one is about to note the time.
LEMMA ReissueDoneCool ==
  ASSUME CoolInv, NEW w \in Worker, ReissueDone(w)
  PROVE  lastDone' <= now' /\ KnowEachOther' /\ Noted' /\ \A v \in Worker : Checked(v)'
PROOF
<1> DEFINE new == [task[w] EXCEPT !.pc = "stamp"]
<1>1. new.pc = "stamp" /\ new.visit = "reissue" /\ new.beside = task[w].beside
      /\ task[w].visit = "reissue"
  BY CoolTypes DEF ReissueDone, Task, KnownVisit
<1>2. \A v \in Worker : task'[v] = IF v = w THEN new ELSE task[v]
  BY DEF ReissueDone, CoolInv, BaseInv, TypeOK
<1> HIDE DEF new
<1>3. KnowEachOther'
  BY <1>1, <1>2 DEF CoolInv, KnowEachOther, Reissuing
<1>4. \A v \in Worker : v # w /\ task[v].visit = "reissue" => task[v].beside
  BY <1>1 DEF CoolInv, KnowEachOther, Reissuing
<1>5. \A v \in Worker : Checked(v)'
  BY <1>1, <1>2, <1>4, CoolTypes DEF Checked, KnownVisit
<1> QED
  BY <1>1, <1>2, <1>3, <1>5, CoolTypes DEF ReissueDone, Noted

\* Noting the time, or failing to, ends the handler that was about to.
LEMMA StampCool ==
  ASSUME CoolInv, NEW w \in Worker, Stamp(w) \/ (Fail(w) /\ task[w].pc = "stamp")
  PROVE  lastDone' <= now' /\ KnowEachOther' /\ Noted' /\ \A v \in Worker : Checked(v)'
PROOF
<1>1. \A v \in Worker : task'[v] = IF v = w THEN Idle ELSE task[v]
  BY DEF Stamp, Fail, Finish, CoolInv, BaseInv, TypeOK
<1>2. UNCHANGED <<now, lastDone>> /\ Idle.pc = "idle" /\ Idle.visit = "page"
      /\ (Recorded' => Recorded)
  <2>1. unstamped => unstamped'
    BY DEF Stamp, Fail
  <2>2. UNCHANGED <<now, lastDone>> /\ Idle.pc = "idle" /\ Idle.visit = "page"
    BY DEF Stamp, Fail, Idle
  <2> QED
    BY <2>1, <2>2 DEF Recorded
<1>3. KnowEachOther'
  BY <1>1, <1>2 DEF CoolInv, KnowEachOther, Reissuing
<1>4. Noted'
  <2>1. CASE Stamp(w)
    <3>1. access'.reissued = now
      BY <2>1 DEF Stamp, Stamped, CoolInv, BaseInv, TypeOK, Access
    <3> QED
      BY <1>2, <3>1, CoolTypes DEF CoolInv, Noted
  <2>2. CASE Fail(w) /\ task[w].pc = "stamp"
    BY <2>2 DEF Fail, Noted, Recorded
  <2> QED
    BY <2>1, <2>2
<1>5. \A v \in Worker : Checked(v)'
  BY <1>1, <1>2 DEF CoolInv, Checked
<1> QED
  BY <1>2, <1>3, <1>4, <1>5 DEF CoolInv

LEMMA CoolStep ==
  ASSUME CoolInv, [Next]_vars
  PROVE  CoolInv'
PROOF
<1> DEFINE Kept == lastDone' <= now' /\ KnowEachOther' /\ Noted' /\ \A v \in Worker : Checked(v)'
<1>1. ASSUME UNCHANGED <<access, task, lastDone, unstamped>>, now' >= now PROVE Kept
  <2>1. Recorded' = Recorded /\ KnowEachOther' /\ Noted'
    BY <1>1 DEF CoolInv, KnowEachOther, Reissuing, Noted, Recorded
  <2>2. now' \in Nat
    BY StepBase, PortalAssumption DEF CoolInv, BaseInv, TypeOK, Clock
  <2>3. \A v \in Worker : Checked(v)'
    BY <1>1, <2>1, <2>2, CoolTypes DEF CoolInv, Checked
  <2> QED
    BY <1>1, <2>1, <2>2, <2>3, CoolTypes DEF CoolInv
<1> HIDE DEF Kept
<1>2. ASSUME UNCHANGED vars \/ ClientChanges PROVE Kept
  BY <1>1, <1>2, CoolTypes DEF vars, ClientChanges
<1>3. ASSUME Tick PROVE Kept
  BY <1>1, <1>3, CoolTypes DEF Tick
<1>4. ASSUME NEW w \in Worker, Step(w) PROVE Kept
  BY <1>4, QuietActions, ResolveCool, ReissueBeginCool, ReissueDoneCool, StampCool DEF Step, Kept
<1>5. BaseInv'
  BY StepBase DEF CoolInv
<1>6. Kept
  BY <1>2, <1>3, <1>4 DEF Next
<1> QED
  BY <1>5, <1>6 DEF CoolInv, Kept

\* Two self-service reissues that do not run side by side are a cooldown apart,
\* if the first noted its time: however links are issued and revoked in between.
THEOREM CooldownAlwaysKept == Spec => CooldownKept
PROOF
<1> DEFINE Kept == \A w \in Worker :
                     /\ task[w].pc = "reissue" /\ task'[w].pc = "stamp"
                     /\ lastDone # Never /\ ~ unstamped /\ ~ task[w].beside
                     => now >= lastDone + Cooldown
<1>1. Init => CoolInv
  <2>1. Init => KnowEachOther
    BY DEF Init, KnowEachOther, Reissuing, Idle
  <2>2. Init => lastDone <= now /\ Noted /\ \A w \in Worker : Checked(w)
    BY DEF Init, Noted, Checked, Recorded, Never
  <2> QED
    BY <2>1, <2>2, InitBase DEF CoolInv
<1>2. ASSUME CoolInv, [Next]_vars PROVE [Kept]_vars
  BY <1>2 DEF CoolInv, Checked, Recorded
<1> QED
  BY <1>1, <1>2, CoolStep, PTL DEF Spec, CooldownKept
=============================================================================
