---------------------------- MODULE NoticeProofs ----------------------------
(***************************************************************************)
(* Proofs about Notices, for any clients, lifetimes, thresholds, runs of   *)
(* the tasks, messages, and number of edits, faults and deaths.            *)
(***************************************************************************)
EXTENDS Notices, SequenceTheorems, WellFoundedInduction, TLAPS

-----------------------------------------------------------------------------
\* The form shows a client without an expiry as such.
LEMMA NoDateStays == Prefilled(NoExpiry) = NoExpiry
PROOF
<1> DEFINE Date == [day : Int, seconds : BOOLEAN]
<1>1. PICK r \in Date : r = NoExpiry
  <2>1. NoExpiry \in Date
    BY DEF NoExpiry
  <2> QED
    BY <2>1
<1>2. PICK t : t = [r EXCEPT !.seconds = FALSE]
  OBVIOUS
<1>3. t \in Date /\ t.day = r.day /\ t.seconds = FALSE
  BY <1>2
<1>4. r.seconds = FALSE
  BY <1>1 DEF NoExpiry
<1>5. r.seconds = t.seconds
  BY <1>3, <1>4
<1>6. t = r
  BY <1>3, <1>5
<1> QED
  BY <1>1, <1>2, <1>6 DEF Prefilled

LEMMA ClientsTyped ==
  ASSUME ClientTypeOK, Clients
  PROVE  ClientTypeOK'
PROOF
<1>1. CASE Day
  BY <1>1, ExpiryAssumption DEF Day, Tick, ClientTypeOK
<1>2. CASE Operators
  <2>1. edits' \in 0..MaxEdits
    BY <1>2, ExpiryAssumption DEF Operators, ClientTypeOK
  <2>2. Resolved \subseteq Expiry
    BY ExpiryAssumption DEF Resolved, Days, Expiry, ClientTypeOK
  <2>3. \A c \in Client : client[c].expires \in Expiry
    BY DEF ClientTypeOK, ClientRow
  <2>4. \A e \in Expiry : Prefilled(e) \in Expiry
    <3> SUFFICES ASSUME NEW e \in Expiry PROVE Prefilled(e) \in Expiry
      OBVIOUS
    <3>1. CASE e = NoExpiry
      BY <3>1, NoDateStays DEF Expiry
    <3>2. CASE e \in [day : Nat, seconds : BOOLEAN]
      BY <3>2 DEF Prefilled, Expiry
    <3> QED
      BY <3>1, <3>2 DEF Expiry
  <2>5. ASSUME NEW c \in Client, NEW e \in Expiry, SubmitForm(c, e) PROVE ClientTypeOK'
    BY <2>1, <2>5 DEF SubmitForm, ClientTypeOK, ClientRow
  <2>6. ASSUME NEW selected \in SUBSET Client, NEW e \in Resolved, BulkLimits(selected, e)
        PROVE  ClientTypeOK'
    <3>1. e \in Expiry
      BY <2>2
    <3>2. client' \in [Client -> ClientRow]
      BY <2>6, <3>1 DEF BulkLimits, ClientTypeOK, ClientRow
    <3> QED
      BY <2>1, <2>6, <3>2 DEF BulkLimits, ClientTypeOK
  <2>7. ASSUME NEW c \in Client, NEW status \in Status, SetStatus(c, status) PROVE ClientTypeOK'
    BY <2>1, <2>7 DEF SetStatus, ClientTypeOK, ClientRow
  <2> QED
    BY <1>2, <2>2, <2>3, <2>4, <2>5, <2>6, <2>7 DEF Operators
<1> QED
  BY <1>1, <1>2 DEF Clients

-----------------------------------------------------------------------------
(***************************************************************************)
(* Reminders.  What somebody received is logged, or will be by the run     *)
(* that sent it, or is excused; two runs share no reminder that is not     *)
(* excused, and none is logged that a run has yet to send.                 *)
(***************************************************************************)
LogsWhatWasSent == \A r \in Runner : runner[r].pc = "log" => runner[r].sent

ReceivedIsKnown ==
  \A i \in received : \/ i \in logged \cup excused
                      \/ \E r \in Runner : runner[r].sent /\ i \in runner[r].items

OverlapIsExcused ==
  \A r, s \in Runner : r # s => runner[r].items \cap runner[s].items \subseteq excused

UnsentIsNotLogged ==
  \A r \in Runner : ~ runner[r].sent => runner[r].items \cap logged \subseteq excused

ReminderInv ==
  /\ ReminderTypeOK
  /\ LogsWhatWasSent /\ ReceivedIsKnown /\ OverlapIsExcused /\ UnsentIsNotLogged

LEMMA RunnerFacts ==
  ASSUME ReminderInv, NEW r \in Runner
  PROVE  /\ runner[r] \in RunnerState /\ runner[r].items \subseteq Item
         /\ runner[r].sent \in BOOLEAN
         /\ runner[r].pc = "idle" => runner[r] = IdleRunner
         /\ runner[r].pc # "idle" => /\ runner[r].pc \in Channel \cup {"log"}
                                     /\ runner[r].items # {}
PROOF
<1>1. PICK s \in RunnerState : s = runner[r]
  BY DEF ReminderInv, ReminderTypeOK
<1>2. CASE s = IdleRunner
  BY <1>1, <1>2 DEF IdleRunner
<1>3. CASE s \in [pc : Channel \cup {"log"}, items : (SUBSET Item) \ {{}}, sent : BOOLEAN]
  <2>1. s.items \in (SUBSET Item) \ {{}} /\ s.sent \in BOOLEAN /\ s.pc \in Channel \cup {"log"}
    BY <1>3
  <2>2. s.items \subseteq Item /\ s.items # {}
    BY <2>1
  <2> QED
    BY <1>1, <2>1, <2>2 DEF Channel
<1> QED
  BY <1>1, <1>2, <1>3 DEF RunnerState

LEMMA IdleRunnerTyped ==
  IdleRunner \in RunnerState /\ IdleRunner.items = {} /\ ~ IdleRunner.sent /\ IdleRunner.pc = "idle"
BY DEF IdleRunner, RunnerState

\* Any step of one run: what it may receive, let go of, begin and log.
LEMMA RunnerStep ==
  ASSUME ReminderInv, NEW r \in Runner, NEW t \in RunnerState,
         runner' = [runner EXCEPT ![r] = t],
         logged \subseteq logged', excused \subseteq excused',
         logged' \subseteq Item, received' \subseteq Item, excused' \subseteq Item,
         up' \subseteq Channel, faults' \in 0..MaxFaults,
         t.pc = "log" => t.sent,
         \A i \in received' \ received : i \in excused' \/ (t.sent /\ i \in t.items),
         runner[r].sent => \A i \in runner[r].items : i \in logged' \cup excused' \/ (t.sent /\ i \in t.items),
         \A s \in Runner \ {r} : t.items \cap runner[s].items \subseteq excused',
         ~ t.sent => t.items \cap logged' \subseteq excused',
         logged' \ logged \subseteq runner[r].items
  PROVE  ReminderInv'
PROOF
<1>1. /\ runner'[r] = t /\ \A s \in Runner \ {r} : runner'[s] = runner[s]
      /\ ReminderTypeOK'
  BY DEF ReminderInv, ReminderTypeOK
<1>2. LogsWhatWasSent'
  BY <1>1 DEF ReminderInv, LogsWhatWasSent
<1>3. ReceivedIsKnown'
  <2> SUFFICES ASSUME NEW i \in received', i \notin logged' \cup excused'
               PROVE  \E s \in Runner : runner'[s].sent /\ i \in runner'[s].items
    BY DEF ReceivedIsKnown
  <2>1. CASE i \notin received
    BY <1>1, <2>1
  <2>2. CASE i \in received
    <3>1. PICK s \in Runner : runner[s].sent /\ i \in runner[s].items
      BY <2>2 DEF ReminderInv, ReceivedIsKnown
    <3>2. CASE s = r
      BY <1>1, <3>1, <3>2
    <3>3. CASE s # r
      BY <1>1, <3>1, <3>3
    <3> QED
      BY <3>2, <3>3
  <2> QED
    BY <2>1, <2>2
<1>4. OverlapIsExcused'
  BY <1>1 DEF ReminderInv, OverlapIsExcused
<1>5. UnsentIsNotLogged'
  <2> SUFFICES ASSUME NEW s \in Runner, ~ runner'[s].sent, NEW i \in runner'[s].items \cap logged'
               PROVE  i \in excused'
    BY DEF UnsentIsNotLogged
  <2>1. CASE s = r
    BY <1>1, <2>1
  <2>2. CASE s # r
    BY <1>1, <2>2 DEF ReminderInv, UnsentIsNotLogged, OverlapIsExcused
  <2> QED
    BY <2>1, <2>2
<1> QED
  BY <1>1, <1>2, <1>3, <1>4, <1>5 DEF ReminderInv

LEMMA DueTyped ==
  ASSUME ClientTypeOK
  PROVE  Due \subseteq Item
PROOF
<1>1. ASSUME NEW c \in Client, NEW t \in Thresholds PROVE Reminder(c, t) \in Item
  BY DEF ClientTypeOK, ClientRow, Reminder, Item
<1>2. \A c : Tightest(c) \subseteq Thresholds
  BY DEF Tightest
<1> QED
  BY <1>1, <1>2 DEF Due, Expiring

\* A run collects what is not logged; what another run holds too is excused.
LEMMA CollectInv ==
  ASSUME ClientTypeOK, ReminderInv, NEW r \in Runner, Collect(r)
  PROVE  ReminderInv'
PROOF
<1>1. Pending \subseteq Item /\ Pending # {}
  BY DueTyped DEF Collect, Pending
<1>2. PICK p \in (SUBSET Item) \ {{}} : p = Pending
  <2>1. Pending \in SUBSET Item
    BY <1>1
  <2>2. Pending \in (SUBSET Item) \ {{}}
    BY <1>1, <2>1
  <2> QED
    BY <2>2
<1>3. PICK t : t = [pc |-> "email", items |-> p, sent |-> FALSE]
  OBVIOUS
<1>4. t \in [pc : Channel \cup {"log"}, items : (SUBSET Item) \ {{}}, sent : BOOLEAN]
  BY <1>3 DEF Channel
<1>5. t \in RunnerState /\ t.pc = "email" /\ t.items = Pending /\ ~ t.sent
  BY <1>3, <1>4, <1>2 DEF RunnerState
<1>6. runner' = [runner EXCEPT ![r] = t] /\ UNCHANGED <<logged, up, faults, received>>
  BY <1>3, <1>2 DEF Collect
<1>7. \A s \in Runner \ {r} : t.items \cap runner[s].items \subseteq excused'
  BY <1>5 DEF Collect
<1>8. excused \subseteq excused' /\ excused' \subseteq Item /\ t.items \cap logged = {}
  BY <1>1, <1>5 DEF Collect, Pending, ReminderInv, ReminderTypeOK
<1>9. ~ runner[r].sent
  BY RunnerFacts, IdleRunnerTyped DEF Collect
<1> QED
  BY <1>5, <1>6, <1>7, <1>8, <1>9, RunnerStep DEF ReminderInv, ReminderTypeOK

\* Where a run goes after a channel: it keeps its reminders unless nothing was delivered.
LEMMA WentIs ==
  ASSUME ReminderInv, NEW r \in Runner, runner[r].pc \in Channel, NEW ok \in BOOLEAN,
         NEW t, t = Went(r, ok)
  PROVE  /\ t \in RunnerState /\ (t.pc = "log" => t.sent) /\ t.items \subseteq runner[r].items
         /\ runner[r].sent \/ ok => t.sent /\ t.items = runner[r].items
         /\ ~ (runner[r].sent \/ ok) => ~ t.sent
PROOF
<1>1. PICK s \in RunnerState : s = runner[r] /\ s.sent \in BOOLEAN /\ s.items \subseteq Item /\ s.items # {}
  BY RunnerFacts DEF Channel
<1>2. PICK sent \in BOOLEAN : sent = (s.sent \/ ok)
  BY <1>1
<1>3. s \in [pc : Channel \cup {"log"}, items : (SUBSET Item) \ {{}}, sent : BOOLEAN]
  BY <1>1 DEF RunnerState, IdleRunner, Channel
<1>4. CASE s.pc = "email"
  <2>1. t = [s EXCEPT !.pc = "telegram", !.sent = sent]
    BY <1>1, <1>2, <1>4 DEF Went
  <2> QED
    BY <1>1, <1>2, <1>3, <2>1 DEF RunnerState, Channel
<1>5. CASE s.pc = "telegram" /\ sent
  <2>1. t = [s EXCEPT !.pc = "log", !.sent = sent]
    BY <1>1, <1>2, <1>5 DEF Went
  <2> QED
    BY <1>1, <1>2, <1>3, <1>5, <2>1 DEF RunnerState, Channel
<1>6. CASE s.pc = "telegram" /\ ~ sent
  <2>1. t = IdleRunner
    BY <1>1, <1>2, <1>6 DEF Went
  <2> QED
    BY <1>1, <1>2, <1>6, <2>1, IdleRunnerTyped
<1> QED
  BY <1>1, <1>4, <1>5, <1>6 DEF Channel

LEMMA SendInv ==
  ASSUME ReminderInv, NEW r \in Runner, Send(r) \/ SendFails(r) \/ SendPartly(r)
  PROVE  ReminderInv'
PROOF
<1>0. PICK ok \in BOOLEAN :
        /\ runner' = [runner EXCEPT ![r] = Went(r, ok)]
        /\ ok <=> Send(r)
  <2>1. CASE Send(r)
    BY <2>1 DEF Send
  <2>2. CASE ~ Send(r)
    BY <2>2 DEF SendFails, SendPartly
  <2> QED
    BY <2>1, <2>2
<1>1. PICK t : t = Went(r, ok) /\ runner' = [runner EXCEPT ![r] = t]
  BY <1>0
<1>2. runner[r].pc \in Channel
  BY DEF Send, SendFails, SendPartly, ReminderInv, ReminderTypeOK, Channel
<1>3. /\ t \in RunnerState /\ (t.pc = "log" => t.sent) /\ t.items \subseteq runner[r].items
      /\ runner[r].sent \/ ok => t.sent /\ t.items = runner[r].items
      /\ ~ (runner[r].sent \/ ok) => ~ t.sent
  BY <1>1, <1>2, WentIs
<1>4. Fresh(r) \subseteq runner[r].items /\ runner[r].items \subseteq Item
  BY RunnerFacts DEF Fresh
<1>5. /\ UNCHANGED <<logged, up, faults>>
      /\ \A i \in received' \ received : i \in excused' \/ (ok /\ i \in runner[r].items)
      /\ excused \subseteq excused' /\ received' \subseteq Item /\ excused' \subseteq Item
  BY <1>0, <1>4 DEF Send, SendFails, SendPartly, ReminderInv, ReminderTypeOK
<1>6. \A s \in Runner \ {r} : t.items \cap runner[s].items \subseteq excused'
  BY <1>3, <1>5 DEF ReminderInv, OverlapIsExcused
<1>7. ~ t.sent => t.items \cap logged' \subseteq excused'
  BY <1>3, <1>5 DEF ReminderInv, UnsentIsNotLogged
<1> QED
  BY <1>1, <1>3, <1>5, <1>6, <1>7, RunnerStep DEF ReminderInv, ReminderTypeOK

\* A row is logged by a run that sent it: whoever else holds it is excused.
LEMMA LogInv ==
  ASSUME ReminderInv, NEW r \in Runner, NEW i \in runner[r].items, Log(r, i)
  PROVE  ReminderInv'
PROOF
<1>1. PICK s \in RunnerState : s = runner[r] /\ s.pc = "log" /\ s.sent /\ s.items \subseteq Item
  BY RunnerFacts DEF Log, ReminderInv, LogsWhatWasSent
<1>2. s \in [pc : Channel \cup {"log"}, items : (SUBSET Item) \ {{}}, sent : BOOLEAN]
  BY <1>1 DEF RunnerState, IdleRunner
<1>3. PICK t \in RunnerState :
        /\ runner' = [runner EXCEPT ![r] = t] /\ (t.pc = "log" => t.sent)
        /\ t.items = s.items \ {i} /\ (s.items # {i} => t.sent) /\ (~ t.sent => t.items = {})
  <2>1. CASE s.items = {i}
    BY <1>1, <2>1, IdleRunnerTyped DEF Log, Without
  <2>2. CASE s.items # {i}
    <3>1. PICK t : t = [s EXCEPT !.items = s.items \ {i}]
      OBVIOUS
    <3>2. s.items \ {i} # {}
      BY <1>1, <2>2
    <3>3. t \in RunnerState /\ t.pc = "log" /\ t.sent /\ t.items = s.items \ {i}
      BY <1>1, <1>2, <3>1, <3>2 DEF RunnerState
    <3> QED
      BY <1>1, <2>2, <3>1, <3>3 DEF Log, Without
  <2> QED
    BY <2>1, <2>2
<1>4. logged' = logged \cup {i} /\ UNCHANGED <<up, faults, received, excused>>
  BY DEF Log
<1>5. \A u \in Runner \ {r} : t.items \cap runner[u].items \subseteq excused'
  BY <1>1, <1>3, <1>4 DEF ReminderInv, OverlapIsExcused
<1>6. logged' \subseteq Item
  BY <1>1, <1>4 DEF ReminderInv, ReminderTypeOK
<1>7. \A j \in runner[r].items : j \in logged' \cup excused' \/ (t.sent /\ j \in t.items)
  BY <1>1, <1>3, <1>4
<1>8. ~ t.sent => t.items \cap logged' \subseteq excused'
  BY <1>3
<1>9. logged' \ logged \subseteq runner[r].items
  BY <1>4
<1>10. /\ up' \subseteq Channel /\ faults' \in 0..MaxFaults
       /\ received' \subseteq Item /\ excused' \subseteq Item /\ excused \subseteq excused'
       /\ received' \ received = {} /\ logged \subseteq logged'
  BY <1>4 DEF ReminderInv, ReminderTypeOK
<1>11. \A j \in received' \ received : j \in excused' \/ (t.sent /\ j \in t.items)
  BY <1>10
<1> QED
  BY <1>3, <1>5, <1>6, <1>7, <1>8, <1>9, <1>10, <1>11, RunnerStep

LEMMA CrashInv ==
  ASSUME ReminderInv, NEW r \in Runner, Crash(r)
  PROVE  ReminderInv'
PROOF
<1>1. runner' = [runner EXCEPT ![r] = IdleRunner] /\ UNCHANGED <<logged, up, received>>
  BY DEF Crash
<1>2. faults' \in 0..MaxFaults
  BY RemindersAssumption DEF Crash, ReminderInv, ReminderTypeOK
<1>3. /\ excused \subseteq excused' /\ excused' \subseteq Item
      /\ runner[r].sent => runner[r].items \subseteq excused'
  BY RunnerFacts DEF Crash, ReminderInv, ReminderTypeOK
<1> QED
  BY <1>1, <1>2, <1>3, IdleRunnerTyped, RunnerStep DEF ReminderInv, ReminderTypeOK

LEMMA ReminderNextInv ==
  ASSUME ClientTypeOK, ReminderInv, [Next]_vars
  PROVE  ReminderInv'
PROOF
<1>1. CASE UNCHANGED reminderVars
  BY <1>1 DEF reminderVars, ReminderInv, ReminderTypeOK, LogsWhatWasSent, ReceivedIsKnown,
     OverlapIsExcused, UnsentIsNotLogged
<1>2. ASSUME NEW r \in Runner, RunnerWorks(r) \/ Crash(r) PROVE ReminderInv'
  BY <1>2, CollectInv, SendInv, LogInv, CrashInv DEF RunnerWorks
<1>3. ASSUME NEW ch \in Channel, ChannelFails(ch) \/ ChannelReturns(ch) PROVE ReminderInv'
  BY <1>3, RemindersAssumption DEF ChannelFails, ChannelReturns, ReminderInv, ReminderTypeOK,
     LogsWhatWasSent, ReceivedIsKnown, OverlapIsExcused, UnsentIsNotLogged
<1> QED
  BY <1>1, <1>2, <1>3 DEF Next, vars, Clients, Reminding, Noticing, Splitting, ReminderNext

LEMMA ReminderInitialInv == Init => ReminderInv
PROOF
<1> SUFFICES ASSUME ReminderInit PROVE ReminderInv
  BY DEF Init
<1>1. \A r \in Runner : runner[r] = IdleRunner
  BY DEF ReminderInit
<1>2. ReminderTypeOK
  BY IdleRunnerTyped, RemindersAssumption DEF ReminderInit, ReminderTypeOK
<1> QED
  BY <1>1, <1>2, IdleRunnerTyped DEF ReminderInit, ReminderInv, LogsWhatWasSent, ReceivedIsKnown,
     OverlapIsExcused, UnsentIsNotLogged

-----------------------------------------------------------------------------
(***************************************************************************)
(* LimitNotices.  Notices are handled on the day they are for; one that    *)
(* was marked that day is still marked, and every mark was made for such a *)
(* notice, the day before it runs out.  So a notice is marked once, by one *)
(* execution, which holds it until the broker has it or its delivery was   *)
(* tried.                                                                  *)
(***************************************************************************)
\* The key of a notice that a client has expired has the date.
Dated(x) == x.kind = "expired" => x.marker = x.day

HandledToday ==
  \A n \in Notifier : \A x \in notifier[n].todo \cup notifier[n].current : x.day = now /\ Dated(x)

AnnouncedStaysMarked ==
  \A x \in announced : x.day <= now /\ (x.day = now => Marked(x)) /\ Dated(x)

MarksAreAnnounced ==
  \A m \in marks : \E x \in announced :
    SameKey(m, x) /\ m.until = x.day + 1

HeldByOne ==
  \A n \in Notifier : \A x \in notifier[n].current :
    /\ x \in announced /\ x \notin attempted /\ x \notin queue
    /\ \A m \in Notifier \ {n} : x \notin notifier[m].current

QueuedUntried == \A x \in queue : x \in announced /\ (x \in attempted => x \in unclear)

NoticeInv ==
  /\ NoticeTypeOK
  /\ HandledToday /\ AnnouncedStaysMarked /\ MarksAreAnnounced
  /\ HeldByOne /\ QueuedUntried /\ attempted \subseteq announced
  /\ NoticeOnce

LEMMA NotifierFacts ==
  ASSUME NoticeInv, NEW n \in Notifier
  PROVE  /\ notifier[n] \in NotifierState
         /\ notifier[n].todo \subseteq Notice /\ notifier[n].current \subseteq Notice
BY DEF NoticeInv, NoticeTypeOK, NotifierState

LEMMA IdleNotifierTyped ==
  IdleNotifier \in NotifierState /\ IdleNotifier.todo = {} /\ IdleNotifier.current = {}
BY DEF IdleNotifier, NotifierState

\* What a task has to say is of this day.
LEMMA NoticesTyped ==
  ASSUME ClientTypeOK, NEW ahead \in SUBSET Client
  PROVE  \A x \in Notices(ahead) : x \in Notice /\ x.day = now /\ Dated(x)
PROOF
<1> SUFFICES ASSUME NEW c \in Client, HasExpiry(c),
                    NEW left, left = client[c].expires.day - now - (IF c \in ahead THEN 1 ELSE 0),
                    NEW x \in NoticeOf(c, left)
             PROVE  x \in Notice /\ x.day = now /\ Dated(x)
  BY DEF Notices
<1>1. now \in Nat /\ client[c].expires.day \in Nat
  BY ExpiryAssumption DEF ClientTypeOK, ClientRow, Expiry, HasExpiry
<1>2. left \in Int
  BY <1>1
<1>3. CASE left <= 0
  <2>1. x = [client |-> c, kind |-> "expired", marker |-> now, day |-> now]
    BY <1>3 DEF NoticeOf
  <2> QED
    BY <1>1, <2>1 DEF Notice, Dated
<1>4. CASE left > 0
  <2>1. x = [client |-> c, kind |-> "expiring", marker |-> left, day |-> now]
    BY <1>2, <1>4 DEF NoticeOf
  <2> QED
    BY <1>1, <1>2, <1>4, <2>1 DEF Notice, Dated
<1> QED
  BY <1>2, <1>3, <1>4

\* A notice whose key is found was announced: this day, or the number of days was the
\* day before.
MarkedToday(x) == x \in announced
MarkedYesterday(x) == x.kind = "expiring" /\ [x EXCEPT !.day = now - 1] \in announced

LEMMA MarkedIsAnnounced ==
  ASSUME ClientTypeOK, NoticeInv, NEW x \in Notice, x.day = now, Dated(x), MayBeMarked(x)
  PROVE  MarkedToday(x) \/ MarkedYesterday(x)
PROOF
<1>1. PICK m \in marks : SameKey(m, x) /\ now <= m.until
  BY DEF MayBeMarked
<1>2. PICK y \in announced : SameKey(m, y) /\ m.until = y.day + 1
  BY DEF NoticeInv, MarksAreAnnounced
<1>3. y \in Notice /\ y.day <= now /\ Dated(y) /\ now \in Nat
  BY ExpiryAssumption DEF ClientTypeOK, NoticeInv, NoticeTypeOK, AnnouncedStaysMarked
<1>4. y.day \in Nat /\ (y.day = now \/ y.day = now - 1)
  BY <1>1, <1>2, <1>3 DEF Notice
<1>5. x.client = y.client /\ x.kind = y.kind /\ x.marker = y.marker
  BY <1>1, <1>2 DEF SameKey
<1>6. CASE y.day = now
  <2>1. x = y
    BY <1>3, <1>5, <1>6 DEF Notice
  <2> QED
    BY <2>1 DEF MarkedToday
<1>7. CASE y.day = now - 1
  <2>1. [x EXCEPT !.day = now - 1] = y
    BY <1>3, <1>5, <1>7 DEF Notice
  <2>2. x.kind # "expired"
    BY <1>3, <1>5, <1>7 DEF Dated
  <2> QED
    BY <2>1, <2>2 DEF MarkedYesterday, Notice
<1> QED
  BY <1>4, <1>6, <1>7

\* Steps that neither mark nor bring time on.
LEMMA MarksStay ==
  ASSUME NoticeInv, UNCHANGED <<now, marks, announced>>
  PROVE  AnnouncedStaysMarked' /\ MarksAreAnnounced'
BY DEF NoticeInv, AnnouncedStaysMarked, MarksAreAnnounced, Marked

LEMMA StartNoticesInv ==
  ASSUME ClientTypeOK, NoticeInv, NEW n \in Notifier, StartNotices(n), UNCHANGED now
  PROVE  NoticeInv'
PROOF
<1>0. PICK ahead \in SUBSET Client : notifier' = [notifier EXCEPT ![n].todo = Notices(ahead)]
  BY DEF StartNotices
<1>1. PICK t : t = [notifier[n] EXCEPT !.todo = Notices(ahead)]
  OBVIOUS
<1>2. t \in NotifierState /\ t.todo = Notices(ahead) /\ t.current = {}
  BY <1>1, NoticesTyped, IdleNotifierTyped DEF StartNotices, NotifierState
<1>3. /\ notifier' = [notifier EXCEPT ![n] = t]
      /\ UNCHANGED <<marks, queue, deaths, announced, attempted, again, unclear, lost>>
  BY <1>0, <1>1 DEF StartNotices, NoticeInv, NoticeTypeOK
<1>4. notifier'[n] = t /\ \A m \in Notifier \ {n} : notifier'[m] = notifier[m]
  BY <1>3 DEF NoticeInv, NoticeTypeOK
<1>5. NoticeTypeOK'
  BY <1>2, <1>3 DEF NoticeInv, NoticeTypeOK
<1>6. HandledToday'
  BY <1>2, <1>4, NoticesTyped DEF NoticeInv, HandledToday
<1>7. HeldByOne'
  BY <1>2, <1>3, <1>4 DEF NoticeInv, HeldByOne
<1> QED
  BY <1>3, <1>5, <1>6, <1>7, MarksStay DEF NoticeInv, QueuedUntried, NoticeOnce

LEMMA SkipMarkedInv ==
  ASSUME ClientTypeOK, NoticeInv, NEW n \in Notifier, NEW x, SkipMarked(n, x), UNCHANGED now
  PROVE  NoticeInv'
PROOF
<1>1. PICK t : t = [notifier[n] EXCEPT !.todo = notifier[n].todo \ {x}]
  OBVIOUS
<1>2. /\ t \in NotifierState /\ t.todo = notifier[n].todo \ {x}
      /\ t.current = notifier[n].current
  BY <1>1, NotifierFacts DEF NotifierState
<1>3. /\ notifier' = [notifier EXCEPT ![n] = t]
      /\ UNCHANGED <<marks, queue, deaths, announced, attempted, again, unclear, lost>>
  BY <1>1 DEF SkipMarked
<1>4. notifier'[n] = t /\ \A m \in Notifier \ {n} : notifier'[m] = notifier[m]
  BY <1>3 DEF NoticeInv, NoticeTypeOK
<1>5. NoticeTypeOK'
  BY <1>2, <1>3 DEF NoticeInv, NoticeTypeOK
<1>6. HandledToday'
  BY <1>2, <1>4 DEF NoticeInv, HandledToday
<1>7. HeldByOne'
  BY <1>2, <1>3, <1>4 DEF NoticeInv, HeldByOne
<1> QED
  BY <1>3, <1>5, <1>6, <1>7, MarksStay DEF NoticeInv, QueuedUntried, NoticeOnce

\* A notice that is marked was not announced: so it is not tried, queued or held either.
LEMMA MarkNoticeInv ==
  ASSUME ClientTypeOK, NoticeInv, NEW n \in Notifier, NEW x, MarkNotice(n, x), UNCHANGED now
  PROVE  NoticeInv'
PROOF
<1>1. x \in Notice /\ x.day = now /\ Dated(x) /\ now \in Nat
  BY NotifierFacts, ExpiryAssumption DEF MarkNotice, NoticeInv, HandledToday, ClientTypeOK
<1>2. x \notin announced
  BY <1>1 DEF MarkNotice, NoticeInv, AnnouncedStaysMarked
<1>3. PICK t : t = [todo |-> notifier[n].todo \ {x}, current |-> {x}]
  OBVIOUS
<1>4. t \in NotifierState /\ t.todo \subseteq notifier[n].todo /\ t.current = {x}
  BY <1>1, <1>3, NotifierFacts DEF NotifierState
<1>5. /\ notifier' = [notifier EXCEPT ![n] = t] /\ announced' = announced \cup {x}
      /\ UNCHANGED <<queue, deaths, attempted, again, unclear, lost>>
  BY <1>3 DEF MarkNotice
<1>6. notifier'[n] = t /\ \A m \in Notifier \ {n} : notifier'[m] = notifier[m]
  BY <1>5 DEF NoticeInv, NoticeTypeOK
<1>7. PICK m : m = MarkOf(x)
  OBVIOUS
<1>8. m \in Mark /\ SameKey(m, x) /\ m.until = now + 1
  BY <1>1, <1>7 DEF MarkOf, Mark, Notice, SameKey
<1>9. marks' = {l \in marks : now <= l.until /\ ~ SameKey(l, x)} \cup {m}
  BY <1>7 DEF MarkNotice
<1>10. NoticeTypeOK'
  BY <1>1, <1>4, <1>5, <1>8, <1>9 DEF NoticeInv, NoticeTypeOK
<1>11. HandledToday'
  BY <1>1, <1>4, <1>6 DEF NoticeInv, HandledToday, MarkNotice
<1>12. AnnouncedStaysMarked'
  <2>1. ASSUME NEW y \in announced PROVE y.day <= now /\ (y.day = now => Marked(y)') /\ Dated(y)
    <3>1. ASSUME y.day = now PROVE Marked(y)'
      <4>1. PICK l \in marks : SameKey(l, y) /\ now < l.until
        BY <3>1 DEF NoticeInv, AnnouncedStaysMarked, Marked
      <4>2. CASE SameKey(l, x)
        BY <1>1, <1>8, <1>9, <4>1, <4>2 DEF Marked, SameKey
      <4>3. CASE ~ SameKey(l, x)
        <5>1. now <= l.until
          BY <1>1, <4>1 DEF NoticeInv, NoticeTypeOK, Mark
        <5> QED
          BY <1>9, <4>1, <4>3, <5>1 DEF Marked
      <4> QED
        BY <4>2, <4>3
    <3> QED
      BY <3>1 DEF NoticeInv, AnnouncedStaysMarked
  <2>2. Marked(x)'
    BY <1>1, <1>8, <1>9 DEF Marked
  <2> QED
    BY <1>1, <1>5, <2>1, <2>2 DEF AnnouncedStaysMarked, Dated
<1>13. MarksAreAnnounced'
  BY <1>1, <1>5, <1>8, <1>9 DEF NoticeInv, MarksAreAnnounced
<1>14. HeldByOne'
  BY <1>2, <1>4, <1>5, <1>6 DEF NoticeInv, HeldByOne, QueuedUntried
<1> QED
  BY <1>5, <1>10, <1>11, <1>12, <1>13, <1>14 DEF NoticeInv, QueuedUntried, NoticeOnce

\* An execution gets rid of the notice it holds, whatever becomes of it.
LEMMA EmittedInv ==
  ASSUME ClientTypeOK, NoticeInv, NEW n \in Notifier, NEW x \in notifier[n].current,
         Enqueue(n, x) \/ DeliverInTask(n, x) \/ EnqueueUnclear(n, x), UNCHANGED now
  PROVE  NoticeInv'
PROOF
<1>1. PICK t : t = [notifier[n] EXCEPT !.current = {}]
  OBVIOUS
<1>2. t \in NotifierState /\ t.todo = notifier[n].todo /\ t.current = {}
  BY <1>1, NotifierFacts DEF NotifierState
<1>3. notifier' = [notifier EXCEPT ![n] = t] /\ UNCHANGED <<marks, deaths, announced, lost>>
  BY <1>1 DEF Enqueue, DeliverInTask, EnqueueUnclear, Emitted
<1>4. notifier'[n] = t /\ \A m \in Notifier \ {n} : notifier'[m] = notifier[m]
  BY <1>3 DEF NoticeInv, NoticeTypeOK
<1>5. /\ x \in Notice /\ x \in announced /\ x \notin attempted /\ x \notin queue
      /\ \A m \in Notifier \ {n} : x \notin notifier[m].current
  BY NotifierFacts DEF NoticeInv, HeldByOne
<1>6. /\ attempted \subseteq attempted' /\ attempted' \subseteq attempted \cup {x}
      /\ queue' \subseteq queue \cup {x} /\ again' = again
      /\ unclear \subseteq unclear' /\ unclear' \subseteq unclear \cup {x}
      /\ x \in queue' /\ x \in attempted' => x \in unclear'
  BY <1>5 DEF Enqueue, DeliverInTask, EnqueueUnclear, Try
<1>7. NoticeTypeOK'
  BY <1>2, <1>3, <1>5, <1>6 DEF NoticeInv, NoticeTypeOK
<1>8. HandledToday'
  BY <1>2, <1>4 DEF NoticeInv, HandledToday
<1>9. HeldByOne'
  BY <1>2, <1>3, <1>4, <1>5, <1>6 DEF NoticeInv, HeldByOne
<1>10. QueuedUntried'
  BY <1>3, <1>5, <1>6 DEF NoticeInv, QueuedUntried
<1>11. attempted' \subseteq announced' /\ NoticeOnce'
  BY <1>3, <1>5, <1>6 DEF NoticeInv, NoticeOnce
<1> QED
  BY <1>3, <1>7, <1>8, <1>9, <1>10, <1>11, MarksStay DEF NoticeInv

\* Workers take notices off the queue: those that were tried before are unclear.
LEMMA WorkersInv ==
  ASSUME NoticeInv, NEW x \in queue, Deliver(x) \/ WorkerDies(x), UNCHANGED now
  PROVE  NoticeInv'
PROOF
<1>1. UNCHANGED <<marks, notifier, announced, unclear>> /\ queue' = queue \ {x}
  BY DEF Deliver, WorkerDies
<1>2. x \in Notice /\ x \in announced /\ (x \in attempted => x \in unclear)
  BY DEF NoticeInv, NoticeTypeOK, QueuedUntried
<1>3. /\ attempted' \subseteq attempted \cup {x} /\ attempted \subseteq attempted'
      /\ again' \subseteq again \cup (attempted \cap {x})
  BY DEF Deliver, WorkerDies, Try
<1>4. deaths' \in 0..MaxDeaths /\ lost' \subseteq Notice
  BY <1>2, NoticesAssumption DEF Deliver, WorkerDies, NoticeInv, NoticeTypeOK
<1>5. NoticeTypeOK'
  BY <1>1, <1>2, <1>3, <1>4 DEF NoticeInv, NoticeTypeOK
<1>6. HandledToday'
  BY <1>1 DEF NoticeInv, HandledToday
<1>7. HeldByOne'
  BY <1>1, <1>3 DEF NoticeInv, HeldByOne
<1>8. QueuedUntried'
  BY <1>1, <1>3 DEF NoticeInv, QueuedUntried
<1>9. attempted' \subseteq announced' /\ NoticeOnce'
  BY <1>1, <1>2, <1>3 DEF NoticeInv, NoticeOnce
<1> QED
  BY <1>1, <1>5, <1>6, <1>7, <1>8, <1>9, MarksStay DEF NoticeInv

LEMMA NotifierDiesInv ==
  ASSUME NoticeInv, NEW n \in Notifier, NotifierDies(n), UNCHANGED now
  PROVE  NoticeInv'
PROOF
<1>1. /\ notifier' = [notifier EXCEPT ![n] = IdleNotifier]
      /\ UNCHANGED <<marks, queue, announced, attempted, again, unclear>>
  BY DEF NotifierDies
<1>2. notifier'[n] = IdleNotifier /\ \A m \in Notifier \ {n} : notifier'[m] = notifier[m]
  BY <1>1 DEF NoticeInv, NoticeTypeOK
<1>3. deaths' \in 0..MaxDeaths /\ lost' \subseteq Notice
  BY NotifierFacts, NoticesAssumption DEF NotifierDies, NoticeInv, NoticeTypeOK
<1>4. NoticeTypeOK'
  BY <1>1, <1>3, IdleNotifierTyped DEF NoticeInv, NoticeTypeOK
<1>5. HandledToday'
  BY <1>2, IdleNotifierTyped DEF NoticeInv, HandledToday
<1>6. HeldByOne'
  BY <1>1, <1>2, IdleNotifierTyped DEF NoticeInv, HeldByOne
<1> QED
  BY <1>1, <1>4, <1>5, <1>6, MarksStay DEF NoticeInv, QueuedUntried, NoticeOnce

\* A day passes when no execution holds anything; what was announced is of the past.
LEMMA DayInv ==
  ASSUME ClientTypeOK, NoticeInv, Day, UNCHANGED noticeVars
  PROVE  NoticeInv'
PROOF
<1>1. UNCHANGED <<marks, notifier, queue, deaths, announced, attempted, again, unclear, lost>>
  BY DEF noticeVars
<1>2. now \in Nat /\ now' = now + 1
  BY ExpiryAssumption DEF Day, Tick, ClientTypeOK
<1>3. \A n \in Notifier : notifier[n].todo = {} /\ notifier[n].current = {}
  BY IdleNotifierTyped DEF Day, NotifiersIdle
<1>4. \A x \in announced : x.day \in Nat /\ x.day <= now /\ Dated(x)
  BY DEF NoticeInv, NoticeTypeOK, Notice, AnnouncedStaysMarked
<1>5. AnnouncedStaysMarked'
  BY <1>1, <1>2, <1>4 DEF AnnouncedStaysMarked, Dated
<1> QED
  BY <1>1, <1>3, <1>5 DEF NoticeInv, NoticeTypeOK, HandledToday, MarksAreAnnounced, HeldByOne,
     QueuedUntried, NoticeOnce

LEMMA NoticeNextInv ==
  ASSUME ClientTypeOK, NoticeInv, [Next]_vars
  PROVE  NoticeInv'
PROOF
<1>1. CASE UNCHANGED <<now, noticeVars>>
  <2>1. UNCHANGED <<now, marks, notifier, queue, deaths, announced, attempted, again, unclear, lost>>
    BY <1>1 DEF noticeVars
  <2> QED
    BY <2>1, MarksStay DEF NoticeInv, NoticeTypeOK, HandledToday, HeldByOne, QueuedUntried, NoticeOnce
<1>2. CASE Clients
  <2>1. CASE Day
    BY <1>2, <2>1, DayInv DEF Clients
  <2>2. CASE Operators
    BY <1>1, <1>2, <2>2 DEF Clients, Operators, SubmitForm, BulkLimits, SetStatus
  <2> QED
    BY <1>2, <2>1, <2>2 DEF Clients
<1>3. CASE Noticing(NoticeNext)
  <2>1. UNCHANGED now
    BY <1>3 DEF Noticing, clientVars
  <2>2. ASSUME NEW n \in Notifier, NotifierWorks(n) \/ NotifierDies(n) PROVE NoticeInv'
    BY <2>1, <2>2, StartNoticesInv, SkipMarkedInv, MarkNoticeInv, EmittedInv, NotifierDiesInv
       DEF NotifierWorks
  <2>3. ASSUME NEW x \in queue, Deliver(x) \/ WorkerDies(x) PROVE NoticeInv'
    BY <2>1, <2>3, WorkersInv
  <2> QED
    BY <1>3, <2>2, <2>3 DEF Noticing, NoticeNext, WorkerWorks
<1>4. CASE UNCHANGED vars \/ Reminding(ReminderNext) \/ Splitting
  BY <1>1, <1>4 DEF vars, clientVars, Reminding, Splitting
<1> QED
  BY <1>2, <1>3, <1>4 DEF Next

LEMMA NoticeInitialInv == Init => NoticeInv
BY IdleNotifierTyped, NoticesAssumption DEF Init, NoticeInit, NoticeInv, NoticeTypeOK, HandledToday,
   AnnouncedStaysMarked, MarksAreAnnounced, HeldByOne, QueuedUntried, NoticeOnce

-----------------------------------------------------------------------------
\* Induction, as a fact about sets of numbers: the library's theorem takes a predicate
\* as its parameter, its facts on well-founded relations do not.
LEMMA SetInduction ==
  ASSUME NEW T \in SUBSET Nat, 0 \in T, \A n \in T : n + 1 \in T
  PROVE  T = Nat
PROOF
<1> DEFINE R == OpToRel(<, Nat)
<1> DEFINE D == Nat \ T
<1>0. IsWellFoundedOn(R, Nat)
  BY NatLessThanWellFounded
<1>1. SUFFICES ASSUME D # {} PROVE FALSE
  OBVIOUS
<1>2. PICK x \in D : \A y \in D : ~ (<<y, x>> \in R)
  <2> HIDE DEF R
  <2> QED
    BY <1>0, <1>1, WFMin
<1>3. x # 0 /\ x - 1 \in Nat
  OBVIOUS
<1>4. x - 1 \notin T
  BY <1>3
<1>5. <<x - 1, x>> \in R
  BY <1>3 DEF OpToRel
<1> QED
  BY <1>2, <1>3, <1>4, <1>5

\* f[i] is the sum of the first i lines of a text, up to n.
Sums(f, text, n) ==
  /\ f \in [0..n -> Nat] /\ f[0] = 0
  /\ \A i \in 1..n : f[i] = f[i - 1] + text[i]

LEMMA SumsExist ==
  ASSUME NEW text \in Seq(Nat)
  PROVE  \E f : Sums(f, text, Len(text))
PROOF
<1> DEFINE T == {m \in Nat : m <= Len(text) => \E f : Sums(f, text, m)}
<1>1. 0 \in T
  <2> DEFINE f == [i \in 0..0 |-> 0]
  <2>1. Sums(f, text, 0)
    BY DEF Sums
  <2> QED
    BY <2>1
<1>2. ASSUME NEW m \in Nat, m + 1 <= Len(text), NEW f, Sums(f, text, m)
      PROVE  \E g : Sums(g, text, m + 1)
  <2> DEFINE g == [i \in 0..(m + 1) |-> IF i = m + 1 THEN f[m] + text[m + 1] ELSE f[i]]
  <2>1. text[m + 1] \in Nat /\ f[m] \in Nat
    BY <1>2 DEF Sums
  <2>2. g \in [0..(m + 1) -> Nat] /\ g[0] = 0
    BY <1>2, <2>1 DEF Sums
  <2>3. ASSUME NEW i \in 1..(m + 1) PROVE g[i] = g[i - 1] + text[i]
    <3>1. CASE i = m + 1
      BY <3>1
    <3>2. CASE i # m + 1
      BY <1>2, <3>2, i \in 1..m DEF Sums
    <3> QED
      BY <3>1, <3>2
  <2>4. Sums(g, text, m + 1)
    BY <2>2, <2>3 DEF Sums
  <2> QED
    BY <2>4
<1>3. \A m \in T : m + 1 \in T
  <2> SUFFICES ASSUME NEW m \in Nat, m \in T, m + 1 <= Len(text)
               PROVE  \E g : Sums(g, text, m + 1)
    OBVIOUS
  <2>1. PICK f : Sums(f, text, m)
    BY <1>3
  <2> QED
    BY <1>2, <1>3, <2>1
<1>4. Len(text) \in T
  <2> HIDE DEF T
  <2>1. T \in SUBSET Nat
    BY DEF T
  <2>2. T = Nat
    BY <1>1, <1>3, <2>1, SetInduction
  <2> QED
    BY <2>2
<1> QED
  BY <1>4

\* The sums over two texts that begin with the same m lines agree up to m.
LEMMA SumsAgree ==
  ASSUME NEW text, NEW more, NEW n \in Nat, NEW m \in Nat, m <= n,
         NEW f, Sums(f, more, n), NEW g, Sums(g, text, m), \A i \in 1..m : text[i] = more[i]
  PROVE  \A i \in 0..m : f[i] = g[i]
PROOF
<1> DEFINE T == {i \in Nat : i <= m => f[i] = g[i]}
<1>1. 0 \in T
  BY DEF Sums
<1>2. ASSUME NEW i \in Nat, i \in T, i + 1 <= m PROVE f[i + 1] = g[i + 1]
  <2>1. i + 1 \in 1..m /\ i + 1 \in 1..n /\ (i + 1) - 1 = i
    BY <1>2
  <2>2. f[i + 1] = f[i] + more[i + 1] /\ g[i + 1] = g[i] + text[i + 1]
    BY <2>1 DEF Sums
  <2> QED
    BY <1>2, <2>1, <2>2
<1>3. T = Nat
  <2> HIDE DEF T
  <2>1. T \in SUBSET Nat
    BY DEF T
  <2>2. \A i \in T : i + 1 \in T
    BY <1>2 DEF T
  <2> QED
    BY <1>1, <2>1, <2>2, SetInduction
<1> QED
  BY <1>3

LEMMA CharactersAre ==
  ASSUME NEW text \in Seq(Nat), NEW f, Sums(f, text, Len(text))
  PROVE  Characters(text) = f[Len(text)]
PROOF
<1> DEFINE n == Len(text)
<1> DEFINE Def(h) == [i \in 0..n |-> IF i = 0 THEN 0 ELSE h[i - 1] + text[i]]
<1> DEFINE g == CHOOSE h : h = [i \in 0..n |-> IF i = 0 THEN 0 ELSE h[i - 1] + text[i]]
<1>1. n \in Nat
  OBVIOUS
<1>2. f = Def(f)
  BY DEF Sums
<1>3. g = Def(g)
  BY <1>2
<1>4. Characters(text) = g[n]
  BY DEF Characters
<1>5. f[n] = g[n]
  <2> HIDE DEF g
  <2> DEFINE T == {i \in Nat : i <= n => f[i] = g[i]}
  <2>1. 0 \in T
    BY <1>1, <1>3 DEF Sums
  <2>2. ASSUME NEW i \in Nat, i \in T, i + 1 <= n PROVE f[i + 1] = g[i + 1]
    <3>1. i + 1 \in 1..n /\ i + 1 \in 0..n /\ i + 1 # 0 /\ (i + 1) - 1 = i
      BY <1>1, <2>2
    <3>2. g[i + 1] = g[i] + text[i + 1]
      BY <1>3, <3>1
    <3>3. f[i + 1] = f[i] + text[i + 1]
      BY <3>1 DEF Sums
    <3> QED
      BY <2>2, <3>1, <3>2, <3>3
  <2>3. T = Nat
    <3> HIDE DEF T
    <3>1. T \in SUBSET Nat
      BY DEF T
    <3>2. \A i \in T : i + 1 \in T
      BY <2>2 DEF T
    <3> QED
      BY <2>1, <3>1, <3>2, SetInduction
  <2> QED
    BY <1>1, <2>3
<1> QED
  BY <1>4, <1>5

LEMMA CharactersOfLine ==
  ASSUME NEW line \in Nat
  PROVE  Characters(<<line>>) = line
PROOF
<1> DEFINE f == [i \in 0..1 |-> IF i = 0 THEN 0 ELSE line]
<1>1. Sums(f, <<line>>, 1)
  BY DEF Sums
<1>2. <<line>> \in Seq(Nat) /\ Len(<<line>>) = 1
  OBVIOUS
<1>3. Sums(f, <<line>>, Len(<<line>>))
  BY <1>1, <1>2
<1>4. Characters(<<line>>) = f[1]
  <2> HIDE DEF f
  <2> QED
    BY <1>2, <1>3, CharactersAre
<1> QED
  BY <1>4

LEMMA CharactersAppend ==
  ASSUME NEW text \in Seq(Nat), NEW line \in Nat
  PROVE  /\ Characters(text) \in Nat
         /\ Characters(Append(text, line)) = Characters(text) + line
PROOF
<1>1. PICK n \in Nat : n = Len(text)
  OBVIOUS
<1>2. PICK g : Sums(g, text, n)
  BY <1>1, SumsExist
<1> DEFINE more == Append(text, line)
<1>3. more \in Seq(Nat)
  OBVIOUS
<1>4. Len(more) = n + 1 /\ more[n + 1] = line /\ \A i \in 1..n : text[i] = more[i]
  BY <1>1
<1> HIDE DEF more
<1>5. PICK f : Sums(f, more, n + 1)
  BY <1>3, <1>4, SumsExist
<1>6. f[n] = g[n]
  BY <1>1, <1>2, <1>4, <1>5, SumsAgree, n <= n + 1, n \in 0..n
<1>7. f[n + 1] = f[n] + line
  BY <1>4, <1>5 DEF Sums
<1>8. g[n] \in Nat
  BY <1>2 DEF Sums
<1>9. Characters(text) = g[n]
  BY <1>1, <1>2, CharactersAre
<1>10. Characters(more) = f[n + 1]
  BY <1>3, <1>4, <1>5, CharactersAre
<1> QED
  BY <1>6, <1>7, <1>8, <1>9, <1>10 DEF more

-----------------------------------------------------------------------------
\* The slices of a long line are messages of one line.
LEMMA SlicesTyped ==
  ASSUME NEW line \in Nat
  PROVE  Slices(line) \in Seq(Seq(Nat))
PROOF
<1>1. Limit \in Nat /\ Limit > 0
  BY MessageAssumption
<1>2. (line + Limit - 1) \div Limit \in Nat
  BY <1>1
<1>3. line % Limit \in Nat
  BY <1>1
<1>4. PICK n \in Nat : n = (line + Limit - 1) \div Limit
  BY <1>2
<1>5. \A i \in 1..n : <<IF i * Limit <= line THEN Limit ELSE line % Limit>> \in Seq(Nat)
  BY <1>1, <1>3
<1>6. Slices(line) = [i \in 1..n |-> <<IF i * Limit <= line THEN Limit ELSE line % Limit>>]
  BY <1>4 DEF Slices
<1> QED
  BY <1>5, <1>6

LEMMA LengthsAreNumbers ==
  ASSUME NEW text \in Seq(LineLength)
  PROVE  text \in Seq(Nat)
PROOF
<1>1. PICK n \in Nat : n = Len(text) /\ text \in [1..n -> LineLength]
  OBVIOUS
<1>2. text \in [1..n -> Nat]
  BY <1>1, MessageAssumption
<1> QED
  BY <1>2

LEMMA SplitTyped ==
  ASSUME MessageTypeOK, Split
  PROVE  MessageTypeOK'
PROOF
<1>1. LineLength \subseteq Nat
  BY MessageAssumption
<1>2. held \in Seq(Nat)
  BY LengthsAreNumbers DEF MessageTypeOK
<1>3. Flushed \in Seq(Seq(Nat))
  BY <1>2 DEF MessageTypeOK, Flushed
<1>4. CASE TakeLong
  <2>1. Head(lines) \in Nat /\ Tail(lines) \in Seq(LineLength)
    <3>1. PICK line \in LineLength : line = Head(lines)
      BY <1>4 DEF TakeLong, MessageTypeOK
    <3>2. Tail(lines) \in Seq(LineLength)
      BY <1>4 DEF TakeLong, MessageTypeOK
    <3> QED
      BY <1>1, <3>1, <3>2
  <2>2. PICK slices \in Seq(Seq(Nat)) : slices = Slices(Head(lines))
    BY <2>1, SlicesTyped
  <2>3. chunks' \in Seq(Seq(Nat))
    BY <1>3, <1>4, <2>2 DEF TakeLong
  <2> QED
    BY <1>4, <2>1, <2>3 DEF TakeLong, MessageTypeOK
<1>5. CASE TakeLine
  <2>1. PICK line \in LineLength : line = Head(lines)
    BY <1>5 DEF TakeLine, MessageTypeOK
  <2>2. Tail(lines) \in Seq(LineLength)
    BY <1>5 DEF TakeLine, MessageTypeOK
  <2>3. held' \in Seq(LineLength) /\ length' \in Nat
    BY <1>1, <1>5, <2>1 DEF TakeLine, MessageTypeOK
  <2>4. chunks' \in Seq(Seq(Nat))
    BY <1>3, <1>5 DEF TakeLine, MessageTypeOK
  <2> QED
    BY <1>5, <2>2, <2>3, <2>4 DEF TakeLine, MessageTypeOK
<1>6. CASE FlushLast
  BY <1>3, <1>6 DEF FlushLast, MessageTypeOK
<1> QED
  BY <1>4, <1>5, <1>6 DEF Split

LEMMA MessageInitialTyped ==
  ASSUME Init
  PROVE  MessageTypeOK
PROOF
<1>1. CASE MessageIdle
  BY <1>1 DEF MessageIdle, MessageTypeOK
<1>2. CASE MessageInit
  <2>1. PICK text \in Texts :
          /\ held = <<>> /\ length = 0
          /\ IF TextLength(text) <= Limit
             THEN lines = <<>> /\ chunks = <<text>>
             ELSE lines = text /\ chunks = <<>>
    BY <1>2 DEF MessageInit
  <2>2. text \in Seq(LineLength)
    BY DEF Texts, BoundedSeq, SeqOf
  <2>3. text \in Seq(Nat)
    BY <2>2, LengthsAreNumbers
  <2>4. CASE TextLength(text) <= Limit
    <3>1. lines = <<>> /\ chunks = <<text>>
      BY <2>1, <2>4
    <3>2. <<text>> \in Seq(Seq(Nat))
      BY <2>3
    <3> QED
      BY <2>1, <3>1, <3>2 DEF MessageTypeOK
  <2>5. CASE ~ (TextLength(text) <= Limit)
    <3>1. lines = text /\ chunks = <<>>
      BY <2>1, <2>5
    <3> QED
      BY <2>1, <2>2, <3>1 DEF MessageTypeOK
  <2> QED
    BY <2>4, <2>5
<1> QED
  BY <1>1, <1>2 DEF Init

-----------------------------------------------------------------------------
\* Two blank lines never follow each other in what is still to be cut.
BlanksApart == \A i \in 1..(Len(lines) - 1) : lines[i] + lines[i + 1] > 0

\* current_length is the length of the lines held, less the end of line that is not
\* counted after a blank first line; it is zero for that blank line alone.
HeldCounted ==
  held # <<>> =>
    /\ TextLength(held) = length + (IF Head(held) = 0 /\ Len(held) > 1 THEN 1 ELSE 0)
    /\ length <= Limit
    /\ length = 0 <=> Len(held) = 1 /\ Head(held) = 0
    /\ length = 0 /\ lines # <<>> => Head(lines) > 0

\* A message that the code sends: it fits, or is one character too long behind a blank
\* line.
Sendable(text) == TextLength(text) <= Limit + (IF Head(text) = 0 THEN 1 ELSE 0)

NearlyFits == \A i \in DOMAIN chunks : Sendable(chunks[i])

MessageInv == MessageTypeOK /\ BlanksApart /\ HeldCounted /\ NearlyFits

LEMMA LineLengthIs ==
  ASSUME NEW line \in Nat
  PROVE  TextLength(<<line>>) = line
PROOF
<1>1. Characters(<<line>>) = line
  BY CharactersOfLine
<1>2. Len(<<line>>) = 1
  OBVIOUS
<1> QED
  BY <1>1, <1>2 DEF TextLength

LEMMA AppendLengthIs ==
  ASSUME NEW text \in Seq(Nat), NEW line \in Nat
  PROVE  TextLength(Append(text, line)) = TextLength(text) + 1 + line
PROOF
<1>1. Characters(text) \in Nat /\ Characters(Append(text, line)) = Characters(text) + line
  BY CharactersAppend
<1>2. Len(Append(text, line)) = Len(text) + 1 /\ Len(text) \in Nat
  OBVIOUS
<1> QED
  BY <1>1, <1>2 DEF TextLength

LEMMA SlicesSendable ==
  ASSUME NEW line \in Nat
  PROVE  \A i \in DOMAIN Slices(line) : Sendable(Slices(line)[i])
PROOF
<1>1. Limit \in Nat /\ Limit > 0
  BY MessageAssumption
<1>2. PICK n \in Nat : n = (line + Limit - 1) \div Limit
  BY <1>1
<1>3. line % Limit \in 0..(Limit - 1)
  BY <1>1
<1>4. Slices(line) = [i \in 1..n |-> <<IF i * Limit <= line THEN Limit ELSE line % Limit>>]
  BY <1>2 DEF Slices
<1>5. SUFFICES ASSUME NEW i \in 1..n PROVE Sendable(Slices(line)[i])
  BY <1>4
<1>6. PICK slice \in Nat : slice <= Limit /\ Slices(line)[i] = <<slice>>
  <2>1. PICK slice : slice = IF i * Limit <= line THEN Limit ELSE line % Limit
    OBVIOUS
  <2>2. Slices(line)[i] = <<slice>>
    BY <1>4, <2>1
  <2>3. slice \in Nat /\ slice <= Limit
    BY <1>1, <1>3, <2>1
  <2> QED
    BY <2>2, <2>3
<1>7. TextLength(<<slice>>) = slice
  BY LineLengthIs
<1> QED
  BY <1>1, <1>6, <1>7 DEF Sendable

\* The lines held make such a message.
LEMMA FlushedSendable ==
  ASSUME MessageInv
  PROVE  \A i \in DOMAIN Flushed : Sendable(Flushed[i])
PROOF
<1>1. \A i \in DOMAIN chunks : Sendable(chunks[i])
  BY DEF MessageInv, NearlyFits, Sendable
<1>2. CASE held = <<>>
  BY <1>1, <1>2 DEF Flushed
<1>3. CASE held # <<>>
  <2>1. Sendable(held)
    <3>1. PICK first : first = Head(held)
      OBVIOUS
    <3>2. PICK long : long = TextLength(held)
      OBVIOUS
    <3>3. length \in Nat /\ Limit \in Nat
      BY MessageAssumption DEF MessageInv, MessageTypeOK
    <3> QED
      BY <1>3, <3>1, <3>2, <3>3 DEF MessageInv, HeldCounted, Sendable
  <2>2. Flushed = Append(chunks, held)
    BY <1>3 DEF Flushed
  <2>3. chunks \in Seq(Seq(Nat)) /\ held \in Seq(Nat)
    BY LengthsAreNumbers DEF MessageInv, MessageTypeOK
  <2>4. ASSUME NEW i \in DOMAIN Flushed PROVE Sendable(Flushed[i])
    <3>1. Flushed[i] = IF i = Len(chunks) + 1 THEN held ELSE chunks[i]
      BY <2>2, <2>3
    <3>2. i # Len(chunks) + 1 => i \in DOMAIN chunks
      BY <2>2, <2>3
    <3> QED
      BY <1>1, <2>1, <3>1, <3>2
  <2> QED
    BY <2>4
<1> QED
  BY <1>2, <1>3

LEMMA TailApart ==
  ASSUME MessageTypeOK, BlanksApart, lines # <<>>, lines' = Tail(lines)
  PROVE  /\ BlanksApart'
         /\ Head(lines) = 0 /\ lines' # <<>> => Head(lines') > 0
PROOF
<1>1. PICK n \in Nat : n = Len(lines) /\ n > 0 /\ lines \in [1..n -> LineLength]
  BY DEF MessageTypeOK
<1>2. lines \in [1..n -> Nat]
  BY <1>1, MessageAssumption
<1>3. Len(lines') = n - 1 /\ \A i \in 1..(n - 1) : lines'[i] = lines[i + 1]
  BY <1>1 DEF MessageTypeOK
<1>4. BlanksApart'
  <2>1. \A i \in 1..(n - 1) : lines[i] + lines[i + 1] > 0
    BY <1>1 DEF BlanksApart
  <2>2. ASSUME NEW i \in 1..(n - 2) PROVE lines'[i] + lines'[i + 1] > 0
    <3>1. i \in 1..(n - 1) /\ i + 1 \in 1..(n - 1)
      BY <1>1
    <3>2. lines'[i] = lines[i + 1] /\ lines'[i + 1] = lines[(i + 1) + 1]
      BY <1>3, <3>1
    <3> QED
      BY <2>1, <3>1, <3>2
  <2> QED
    BY <1>1, <1>3, <2>2 DEF BlanksApart
<1>5. ASSUME Head(lines) = 0, lines' # <<>> PROVE Head(lines') > 0
  <2>1. n > 1
    BY <1>1, <1>3, <1>5 DEF MessageTypeOK
  <2>2. Head(lines') = lines[2] /\ Head(lines) = lines[1]
    BY <1>1, <2>1 DEF MessageTypeOK
  <2>3. lines[1] + lines[1 + 1] > 0
    BY <1>1, <2>1 DEF BlanksApart
  <2> QED
    BY <1>2, <1>5, <2>1, <2>2, <2>3
<1> QED
  BY <1>4, <1>5

LEMMA TakeLineCounted ==
  ASSUME MessageInv, TakeLine
  PROVE  HeldCounted'
PROOF
<1>1. PICK line \in Nat : line = Head(lines) /\ line <= Limit
  <2>1. Head(lines) \in LineLength
    BY DEF TakeLine, MessageInv, MessageTypeOK
  <2> QED
    BY <2>1, MessageAssumption DEF TakeLine
<1>2. held \in Seq(Nat) /\ length \in Nat /\ Limit \in Nat
  BY LengthsAreNumbers, MessageAssumption DEF MessageInv, MessageTypeOK
<1>3. line = 0 /\ lines' # <<>> => Head(lines') > 0
  BY <1>1, TailApart DEF TakeLine, MessageInv
<1>4. CASE held # <<>> /\ Fits(line)
  <2>1. held' = Append(held, line)
    BY <1>1, <1>4 DEF TakeLine
  <2>2. length' = IF length > 0 THEN length + 1 + line ELSE line
    BY <1>1, <1>4 DEF TakeLine
  <2>3. TextLength(held') = TextLength(held) + 1 + line
    BY <1>2, <2>1, AppendLengthIs
  <2>4. Len(held) > 0 /\ Len(held') = Len(held) + 1 /\ Head(held') = Head(held) /\ held' # <<>>
    BY <1>2, <1>4, <2>1
  <2>5. length = 0 => line > 0
    BY <1>1, <1>4 DEF TakeLine, MessageInv, HeldCounted
  <2>6. TextLength(held) = length + (IF Head(held) = 0 /\ Len(held) > 1 THEN 1 ELSE 0)
    BY <1>4 DEF MessageInv, HeldCounted
  <2>7. length = 0 <=> Len(held) = 1 /\ Head(held) = 0
    BY <1>4 DEF MessageInv, HeldCounted
  <2>8. length + line + 1 <= Limit
    BY <1>4 DEF Fits
  <2>9. length' > 0 /\ length' <= Limit
    BY <1>1, <1>2, <2>2, <2>5, <2>8
  <2>10. PICK count \in Nat \ {0}, first \in Nat, long \in Int :
           count = Len(held) /\ first = Head(held) /\ long = TextLength(held)
    <3>1. Head(held) \in Nat
      BY <1>2, <1>4
    <3>2. TextLength(held) \in Int
      BY <1>2, <2>6
    <3> QED
      BY <1>2, <2>4, <3>1, <3>2
  <2>11. length = 0 <=> count = 1 /\ first = 0
    BY <2>7, <2>10
  <2>12. long = length + (IF first = 0 /\ count > 1 THEN 1 ELSE 0)
    BY <2>6, <2>10
  <2>13. long + 1 + line = length' + (IF first = 0 THEN 1 ELSE 0)
    <3>1. CASE length = 0
      BY <1>2, <2>2, <2>11, <2>12, <3>1
    <3>2. CASE length # 0
      BY <1>2, <2>2, <2>11, <2>12, <3>2
    <3> QED
      BY <3>1, <3>2
  <2>14. TextLength(held') = length' + (IF Head(held') = 0 /\ Len(held') > 1 THEN 1 ELSE 0)
    BY <2>3, <2>4, <2>10, <2>13
  <2> QED
    BY <1>2, <2>4, <2>9, <2>14 DEF HeldCounted
<1>5. CASE ~ (held # <<>> /\ Fits(line))
  <2>1. held' = <<line>> /\ length' = line
    BY <1>1, <1>5 DEF TakeLine
  <2>2. TextLength(held') = line
    BY <2>1, LineLengthIs
  <2>3. Len(held') = 1 /\ Head(held') = line
    BY <2>1
  <2> QED
    BY <1>1, <1>2, <1>3, <2>1, <2>2, <2>3 DEF HeldCounted
<1> QED
  BY <1>4, <1>5

LEMMA SplitInv ==
  ASSUME MessageInv, Split
  PROVE  MessageInv'
PROOF
<1>1. MessageTypeOK'
  BY SplitTyped DEF MessageInv
<1>2. \A i \in DOMAIN Flushed : Sendable(Flushed[i])
  BY FlushedSendable
<1>3. Flushed \in Seq(Seq(Nat))
  BY LengthsAreNumbers DEF MessageInv, MessageTypeOK, Flushed
<1>4. CASE TakeLong
  <2>1. BlanksApart'
    BY <1>4, TailApart DEF TakeLong, MessageInv
  <2>2. HeldCounted'
    BY <1>4 DEF TakeLong, HeldCounted
  <2>3. PICK line \in Nat : line = Head(lines)
    <3>1. Head(lines) \in LineLength
      BY <1>4 DEF TakeLong, MessageInv, MessageTypeOK
    <3> QED
      BY <3>1, MessageAssumption
  <2>4. PICK slices \in Seq(Seq(Nat)) : slices = Slices(line)
    BY SlicesTyped
  <2>5. \A i \in DOMAIN slices : Sendable(slices[i])
    BY <2>4, SlicesSendable
  <2>6. chunks' = Flushed \o slices
    BY <1>4, <2>3, <2>4 DEF TakeLong
  <2>7. ASSUME NEW i \in DOMAIN chunks' PROVE Sendable(chunks'[i])
    <3>1. CASE i \in DOMAIN Flushed
      <4>1. chunks'[i] = Flushed[i]
        BY <1>3, <2>4, <2>6, <3>1
      <4> QED
        BY <1>2, <3>1, <4>1
    <3>2. CASE i \notin DOMAIN Flushed
      <4>1. chunks'[i] = slices[i - Len(Flushed)] /\ i - Len(Flushed) \in DOMAIN slices
        BY <1>3, <2>4, <2>6, <3>2
      <4> QED
        BY <2>5, <4>1
    <3> QED
      BY <3>1, <3>2
  <2>8. NearlyFits'
    BY <2>7 DEF NearlyFits, Sendable
  <2> QED
    BY <1>1, <2>1, <2>2, <2>8 DEF MessageInv
<1>5. CASE TakeLine
  <2>1. BlanksApart'
    BY <1>5, TailApart DEF TakeLine, MessageInv
  <2>2. \A i \in DOMAIN chunks' : Sendable(chunks'[i])
    BY <1>2, <1>5 DEF TakeLine, MessageInv, NearlyFits, Sendable
  <2>3. NearlyFits'
    BY <2>2 DEF NearlyFits, Sendable
  <2> QED
    BY <1>1, <1>5, <2>1, <2>3, TakeLineCounted DEF MessageInv
<1>6. CASE FlushLast
  <2>1. BlanksApart' /\ HeldCounted'
    BY <1>6 DEF FlushLast, MessageInv, BlanksApart, HeldCounted
  <2>2. NearlyFits'
    BY <1>2, <1>6 DEF FlushLast, NearlyFits, Sendable
  <2> QED
    BY <1>1, <2>1, <2>2 DEF MessageInv
<1> QED
  BY <1>4, <1>5, <1>6 DEF Split

LEMMA MessageInitialInv ==
  ASSUME Init
  PROVE  MessageInv
PROOF
<1>1. MessageTypeOK
  BY MessageInitialTyped
<1>2. CASE MessageIdle
  BY <1>1, <1>2 DEF MessageIdle, MessageInv, BlanksApart, HeldCounted, NearlyFits
<1>3. CASE MessageInit
  <2>1. PICK text \in Texts :
          /\ held = <<>> /\ length = 0
          /\ IF TextLength(text) <= Limit
             THEN lines = <<>> /\ chunks = <<text>>
             ELSE lines = text /\ chunks = <<>>
    BY <1>3 DEF MessageInit
  <2>2. HeldCounted
    BY <2>1 DEF HeldCounted
  <2>3. BlanksApart
    BY <2>1 DEF BlanksApart, Texts
  <2>4. CASE TextLength(text) <= Limit
    <3>1. chunks = <<text>>
      BY <2>1, <2>4
    <3>2. text \in Seq(LineLength) /\ text # <<>> /\ Head(text) > 0
      BY DEF Texts, BoundedSeq, SeqOf
    <3>3. Head(text) # 0
      BY <3>2, MessageAssumption
    <3> QED
      BY <1>1, <2>2, <2>3, <2>4, <3>1, <3>3, MessageAssumption DEF MessageInv, NearlyFits, Sendable
  <2>5. CASE ~ (TextLength(text) <= Limit)
    BY <1>1, <2>1, <2>2, <2>3, <2>5 DEF MessageInv, NearlyFits, Sendable
  <2> QED
    BY <2>4, <2>5
<1> QED
  BY <1>2, <1>3 DEF Init

-----------------------------------------------------------------------------
\* The characters of two texts after each other are those of both.
LEMMA CharactersConcat ==
  ASSUME NEW text \in Seq(Nat), NEW more \in Seq(Nat)
  PROVE  /\ Characters(text) \in Nat /\ Characters(more) \in Nat
         /\ Characters(text \o more) = Characters(text) + Characters(more)
PROOF
<1>1. PICK n \in Nat, m \in Nat : n = Len(text) /\ m = Len(more)
  OBVIOUS
<1>2. PICK f : Sums(f, text, n)
  BY <1>1, SumsExist
<1>3. PICK g : Sums(g, more, m)
  BY <1>1, SumsExist
<1> DEFINE h == [i \in 0..(n + m) |-> IF i <= n THEN f[i] ELSE f[n] + g[i - n]]
<1> DEFINE both == text \o more
<1>4. both \in Seq(Nat) /\ Len(both) = n + m
  BY <1>1
<1>5. \A i \in 1..(n + m) : both[i] = IF i <= n THEN text[i] ELSE more[i - n]
  BY <1>1
<1>6. /\ f \in [0..n -> Nat] /\ f[0] = 0 /\ \A i \in 1..n : f[i] = f[i - 1] + text[i]
      /\ g \in [0..m -> Nat] /\ g[0] = 0 /\ \A i \in 1..m : g[i] = g[i - 1] + more[i]
  BY <1>2, <1>3 DEF Sums
<1>7. h \in [0..(n + m) -> Nat] /\ h[0] = 0
  <2>1. ASSUME NEW i \in 0..(n + m) PROVE h[i] \in Nat
    <3>1. CASE i <= n
      BY <1>6, <3>1, i \in 0..n
    <3>2. CASE i > n
      <4>1. i - n \in 0..m /\ ~ (i <= n) /\ n \in 0..n
        BY <3>2
      <4>2. f[n] \in Nat /\ g[i - n] \in Nat
        BY <1>6, <4>1
      <4> QED
        BY <4>1, <4>2
    <3> QED
      BY <3>1, <3>2
  <2>2. h[0] = f[0]
    OBVIOUS
  <2>3. h = [i \in 0..(n + m) |-> h[i]]
    OBVIOUS
  <2> HIDE DEF h
  <2> QED
    BY <1>6, <2>1, <2>2, <2>3
<1>8. ASSUME NEW i \in 1..(n + m) PROVE h[i] = h[i - 1] + both[i]
  <2> HIDE DEF both
  <2>1. CASE i <= n
    <3>1. i \in 1..n /\ i \in 0..(n + m) /\ i - 1 \in 0..(n + m) /\ i - 1 <= n
      BY <2>1
    <3>2. f[i] = f[i - 1] + text[i] /\ both[i] = text[i]
      BY <1>5, <1>6, <3>1
    <3>3. h[i] = f[i] /\ h[i - 1] = f[i - 1]
      BY <2>1, <3>1
    <3> QED
      BY <3>2, <3>3
  <2>2. CASE i > n
    <3>1. i - n \in 1..m /\ i \in 0..(n + m) /\ i - 1 \in 0..(n + m) /\ ~ (i <= n)
      BY <2>2
    <3>2. PICK k \in 1..m : k = i - n
      BY <3>1
    <3>3. g[k] = g[k - 1] + more[k] /\ both[i] = more[k]
      BY <1>5, <1>6, <3>1, <3>2
    <3>4. k \in 0..m /\ k - 1 \in 0..m /\ n \in 0..n
      BY <3>1, <3>2
    <3>5. g[k] \in Nat /\ g[k - 1] \in Nat /\ f[n] \in Nat
      BY <1>6, <3>4
    <3>6. more[k] \in Nat
      BY <1>1
    <3>7. h[i] = f[n] + g[k]
      BY <3>1, <3>2
    <3>8. h[i - 1] = f[n] + g[k - 1]
      <4>1. CASE i - 1 <= n
        <5>1. i - 1 = n /\ k - 1 = 0
          BY <3>1, <3>2, <4>1
        <5>2. h[i - 1] = f[n]
          BY <3>1, <5>1
        <5> QED
          BY <1>6, <3>5, <5>1, <5>2
      <4>2. CASE ~ (i - 1 <= n)
        <5>1. (i - 1) - n = k - 1
          BY <3>2
        <5> QED
          BY <3>1, <4>2, <5>1
      <4> QED
        BY <4>1, <4>2
    <3> HIDE DEF h
    <3> QED
      BY <3>3, <3>5, <3>6, <3>7, <3>8
  <2> QED
    BY <2>1, <2>2
<1>9. Sums(h, both, Len(both))
  BY <1>4, <1>7, <1>8 DEF Sums
<1>10. h[n + m] = f[n] + g[m] /\ f[n] \in Nat /\ g[m] \in Nat
  <2>1. f[n] \in Nat /\ g[m] \in Nat
    BY <1>6
  <2>2. CASE m = 0
    BY <1>6, <2>1, <2>2
  <2>3. CASE m > 0
    <3>1. n + m \in 0..(n + m) /\ ~ (n + m <= n) /\ (n + m) - n = m
      BY <2>3
    <3> QED
      BY <2>1, <3>1
  <2> QED
    BY <2>1, <2>2, <2>3
<1>11. Characters(both) = h[n + m]
  <2> HIDE DEF h, both
  <2> QED
    BY <1>4, <1>9, CharactersAre
<1>12. Characters(text) = f[n] /\ Characters(more) = g[m]
  BY <1>1, <1>2, <1>3, CharactersAre
<1> QED
  BY <1>10, <1>11, <1>12

\* The characters of the messages of a sequence.
Counts(texts) == [i \in 1..Len(texts) |-> Characters(texts[i])]

LEMMA CountsTyped ==
  ASSUME NEW texts \in Seq(Seq(Nat))
  PROVE  Counts(texts) \in Seq(Nat)
PROOF
<1>1. ASSUME NEW i \in 1..Len(texts) PROVE Characters(texts[i]) \in Nat
  <2>1. texts[i] \in Seq(Nat) /\ 0 \in Nat
    OBVIOUS
  <2> QED
    BY <2>1, CharactersAppend
<1> QED
  BY <1>1 DEF Counts

LEMMA CountsConcat ==
  ASSUME NEW texts \in Seq(Seq(Nat)), NEW more \in Seq(Seq(Nat))
  PROVE  Characters(Counts(texts \o more)) = Characters(Counts(texts)) + Characters(Counts(more))
PROOF
<1>1. Counts(texts) \in Seq(Nat) /\ Counts(more) \in Seq(Nat)
  BY CountsTyped
<1>2. Counts(texts \o more) = Counts(texts) \o Counts(more)
  <2>1. PICK n \in Nat, m \in Nat : n = Len(texts) /\ m = Len(more)
    OBVIOUS
  <2>2. PICK a \in Seq(Nat), b \in Seq(Nat) : a = Counts(texts) /\ b = Counts(more)
    BY <1>1
  <2>3. /\ Len(a) = n /\ \A i \in 1..n : a[i] = Characters(texts[i])
        /\ Len(b) = m /\ \A i \in 1..m : b[i] = Characters(more[i])
    BY <2>1, <2>2 DEF Counts
  <2>4. PICK all \in Seq(Seq(Nat)) : all = texts \o more
    <3> texts \o more \in Seq(Seq(Nat))
      OBVIOUS
    <3> QED
      OBVIOUS
  <2>5. Len(all) = n + m /\ \A i \in 1..(n + m) : all[i] = IF i <= n THEN texts[i] ELSE more[i - n]
    BY <2>1, <2>4
  <2>6. PICK c \in Seq(Nat) : c = Counts(all)
    BY <2>4, CountsTyped
  <2>7. Len(c) = n + m /\ \A i \in 1..(n + m) : c[i] = Characters(all[i])
    BY <2>5, <2>6 DEF Counts
  <2>8. Len(a \o b) = n + m /\ \A i \in 1..(n + m) : (a \o b)[i] = IF i <= n THEN a[i] ELSE b[i - n]
    <3>1. Len(a) = n /\ Len(b) = m
      BY <2>3
    <3> QED
      BY <3>1, ConcatProperties
  <2>9. ASSUME NEW i \in 1..(n + m) PROVE c[i] = (a \o b)[i]
    <3>1. CASE i <= n
      <4>1. i \in 1..n
        BY <3>1
      <4>2. all[i] = texts[i] /\ (a \o b)[i] = a[i]
        BY <2>5, <2>8, <3>1
      <4> QED
        BY <2>3, <2>7, <4>1, <4>2
    <3>2. CASE ~ (i <= n)
      <4>1. i - n \in 1..m
        BY <3>2
      <4>2. all[i] = more[i - n] /\ (a \o b)[i] = b[i - n]
        BY <2>5, <2>8, <3>2
      <4> QED
        BY <2>3, <2>7, <4>1, <4>2
    <3> QED
      BY <3>1, <3>2
  <2>10. a \o b \in Seq(Nat)
    OBVIOUS
  <2>11. c = a \o b
    BY <2>7, <2>8, <2>9, <2>10, SeqEqual
  <2> QED
    BY <2>2, <2>4, <2>6, <2>11
<1> QED
  BY <1>1, <1>2, CharactersConcat

LEMMA CountsOfOne ==
  ASSUME NEW text \in Seq(Nat)
  PROVE  Characters(Counts(<<text>>)) = Characters(text)
PROOF
<1>1. PICK count \in Nat : count = Characters(text)
  BY CharactersAppend
<1>2. Counts(<<text>>) = <<count>>
  BY <1>1 DEF Counts
<1> QED
  BY <1>1, <1>2, CharactersOfLine

\* The slices of a line make up the line.
LEMMA SlicesMakeUp ==
  ASSUME NEW line \in Nat
  PROVE  Characters(Counts(Slices(line))) = line
PROOF
<1>1. Limit \in Nat /\ Limit > 0
  BY MessageAssumption
<1>2. PICK q \in Nat, r \in Nat : line = Limit * q + r /\ r < Limit /\ q = line \div Limit /\ r = line % Limit
  BY <1>1
<1>3. PICK n \in Nat : n = (line + Limit - 1) \div Limit
  BY <1>1
<1>4. n = IF r = 0 THEN q ELSE q + 1
  <2>1. CASE r = 0
    <3>1. line + Limit - 1 = Limit * q + (Limit - 1)
      BY <1>1, <1>2, <2>1
    <3>2. (Limit * q + (Limit - 1)) \div Limit = q
      BY <1>1, <1>2
    <3> QED
      BY <1>3, <2>1, <3>1, <3>2
  <2>2. CASE r # 0
    <3>1. line + Limit - 1 = Limit * (q + 1) + (r - 1)
      BY <1>1, <1>2, <2>2
    <3>2. (Limit * (q + 1) + (r - 1)) \div Limit = q + 1
      BY <1>1, <1>2, <2>2
    <3> QED
      BY <1>3, <2>2, <3>1, <3>2
  <2> QED
    BY <2>1, <2>2
<1> DEFINE part(i) == IF i * Limit <= line THEN Limit ELSE r
<1>5. Slices(line) = [i \in 1..n |-> <<part(i)>>]
  BY <1>2, <1>3 DEF Slices
<1>6. \A i \in 1..n : part(i) = IF i <= q THEN Limit ELSE r
  <2> SUFFICES ASSUME NEW i \in 1..n PROVE i * Limit <= line <=> i <= q
    OBVIOUS
  <2>1. ASSUME i <= q PROVE i * Limit <= line
    <3>1. i * Limit <= q * Limit
      BY <1>1, <2>1
    <3> QED
      BY <1>1, <1>2, <3>1
  <2>2. ASSUME i > q PROVE i * Limit > line
    <3>1. i = q + 1
      BY <1>4, <2>2
    <3>2. i * Limit = Limit * q + Limit
      BY <1>1, <3>1
    <3>3. Limit * q \in Nat
      BY <1>1
    <3> QED
      BY <1>1, <1>2, <3>2, <3>3
  <2> QED
    BY <1>1, <1>2, <2>1, <2>2
<1> DEFINE counts == [i \in 1..n |-> IF i <= q THEN Limit ELSE r]
<1>7. counts \in Seq(Nat) /\ Len(counts) = n
  BY <1>1
<1>8. Counts(Slices(line)) = counts
  <2>1. Len(Slices(line)) = n
    BY <1>5
  <2>2. ASSUME NEW i \in 1..n PROVE Characters(Slices(line)[i]) = counts[i]
    <3>1. part(i) \in Nat
      BY <1>1
    <3>2. Slices(line)[i] = <<part(i)>>
      BY <1>5
    <3>3. Characters(<<part(i)>>) = part(i)
      <4> HIDE DEF part
      <4> QED
        BY <3>1, CharactersOfLine
    <3> QED
      BY <1>6, <3>2, <3>3
  <2> QED
    BY <2>1, <2>2 DEF Counts
<1> DEFINE f == [i \in 0..n |-> IF i <= q THEN i * Limit ELSE line]
<1>9. Sums(f, counts, n)
  <2>1. f \in [0..n -> Nat]
    <3>1. \A i \in 0..n : i * Limit \in Nat
      BY <1>1
    <3> QED
      BY <3>1
  <2>2. f[0] = 0
    BY <1>1
  <2>3. ASSUME NEW i \in 1..n PROVE f[i] = f[i - 1] + counts[i]
    <3>1. CASE i <= q
      <4>1. i * Limit = (i - 1) * Limit + Limit
        BY <1>1
      <4> QED
        BY <3>1, <4>1
    <3>2. CASE i > q
      <4>1. i = q + 1
        BY <1>4, <3>2
      <4>2. f[i] = line /\ f[i - 1] = q * Limit /\ counts[i] = r
        BY <1>1, <4>1
      <4> QED
        BY <1>1, <1>2, <4>2
    <3> QED
      BY <3>1, <3>2
  <2> QED
    BY <2>1, <2>2, <2>3 DEF Sums
<1>10. Characters(counts) = f[n]
  <2> HIDE DEF f, counts
  <2> QED
    BY <1>7, <1>9, CharactersAre
<1>11. f[n] = line
  <2>1. CASE r = 0
    <3>1. n = q /\ f[n] = n * Limit
      BY <1>4, <2>1
    <3> QED
      BY <1>1, <1>2, <2>1, <3>1
  <2>2. CASE r # 0
    <3>1. n = q + 1 /\ ~ (n <= q)
      BY <1>4, <2>2
    <3> QED
      BY <3>1
  <2> QED
    BY <2>1, <2>2
<1> QED
  BY <1>8, <1>10, <1>11

LEMMA CharactersOfNone == Characters(<<>>) = 0
PROOF
<1> DEFINE f == [i \in 0..0 |-> 0]
<1> DEFINE none == <<>>
<1>1. none \in Seq(Nat) /\ Len(none) = 0
  OBVIOUS
<1>2. Sums(f, none, Len(none)) /\ f[0] = 0
  BY <1>1 DEF Sums
<1>3. Characters(none) = f[Len(none)]
  <2> HIDE DEF f, none
  <2> QED
    BY <1>1, <1>2, CharactersAre
<1> QED
  BY <1>1, <1>2, <1>3

\* The lines the loop holds are counted with the messages once they are flushed.
LEMMA FlushedCounts ==
  ASSUME MessageTypeOK
  PROVE  /\ Flushed \in Seq(Seq(Nat))
         /\ Characters(Counts(Flushed)) = Characters(Counts(chunks)) + Characters(held)
PROOF
<1>1. chunks \in Seq(Seq(Nat)) /\ held \in Seq(Nat)
  BY LengthsAreNumbers DEF MessageTypeOK
<1>2. Characters(Counts(chunks)) \in Nat
  <2>1. Counts(chunks) \in Seq(Nat) /\ 0 \in Nat
    BY <1>1, CountsTyped
  <2> QED
    BY <2>1, CharactersAppend
<1>3. CASE held = <<>>
  BY <1>1, <1>2, <1>3, CharactersOfNone DEF Flushed
<1>4. CASE held # <<>>
  <2>1. Flushed = chunks \o <<held>> /\ <<held>> \in Seq(Seq(Nat))
    BY <1>1, <1>4 DEF Flushed
  <2>2. Characters(Counts(Flushed)) = Characters(Counts(chunks)) + Characters(Counts(<<held>>))
    BY <1>1, <2>1, CountsConcat
  <2> QED
    BY <1>1, <2>1, <2>2, CountsOfOne
<1> QED
  BY <1>3, <1>4

LEMMA SplitKeepsAll ==
  ASSUME MessageTypeOK, Split
  PROVE  Written' = Written
PROOF
<1>1. chunks \in Seq(Seq(Nat)) /\ held \in Seq(Nat) /\ lines \in Seq(Nat)
  BY LengthsAreNumbers DEF MessageTypeOK
<1>2. Written = Characters(Counts(chunks)) + Characters(held) + Characters(lines)
  BY DEF Written, Counts
<1>3. Written' = Characters(Counts(chunks')) + Characters(held') + Characters(lines')
  BY DEF Written, Counts
<1>4. Flushed \in Seq(Seq(Nat)) /\ Characters(Counts(Flushed)) = Characters(Counts(chunks)) + Characters(held)
  BY FlushedCounts
<1>5. PICK sent \in Nat, keeps \in Nat : sent = Characters(Counts(chunks)) /\ keeps = Characters(held)
  <2>1. Counts(chunks) \in Seq(Nat) /\ 0 \in Nat
    BY <1>1, CountsTyped
  <2> QED
    BY <1>1, <2>1, CharactersAppend
<1>6. ASSUME lines # <<>>, lines' = Tail(lines)
      PROVE  \E line \in Nat, rest \in Nat :
               line = Head(lines) /\ rest = Characters(lines') /\ Characters(lines) = line + rest
  <2>1. PICK line \in Nat, more \in Seq(Nat) : line = Head(lines) /\ more = Tail(lines) /\ lines = <<line>> \o more
    <3>1. Head(lines) \in Nat /\ Tail(lines) \in Seq(Nat) /\ lines = <<Head(lines)>> \o Tail(lines)
      BY <1>1, <1>6
    <3> QED
      BY <3>1
  <2>2. Characters(lines) = Characters(<<line>>) + Characters(more) /\ Characters(more) \in Nat
    BY <2>1, <<line>> \in Seq(Nat), CharactersConcat
  <2> QED
    BY <1>6, <2>1, <2>2, CharactersOfLine
<1>7. CASE TakeLong
  <2>1. PICK line \in Nat, rest \in Nat :
          line = Head(lines) /\ rest = Characters(lines') /\ Characters(lines) = line + rest
    BY <1>6, <1>7 DEF TakeLong
  <2>2. chunks' = Flushed \o Slices(line) /\ held' = <<>>
    BY <1>7, <2>1 DEF TakeLong
  <2>3. Characters(Counts(chunks')) = Characters(Counts(Flushed)) + line
    BY <1>4, <2>2, SlicesTyped, SlicesMakeUp, CountsConcat
  <2>4. Characters(held') = 0
    BY <2>2, CharactersOfNone
  <2>5. Characters(Counts(chunks')) = sent + keeps + line
    BY <1>4, <1>5, <2>3
  <2> QED
    BY <1>2, <1>3, <1>5, <2>1, <2>4, <2>5
<1>8. CASE TakeLine
  <2>1. PICK line \in Nat, rest \in Nat :
          line = Head(lines) /\ rest = Characters(lines') /\ Characters(lines) = line + rest
    BY <1>6, <1>8 DEF TakeLine
  <2>2. CASE held # <<>> /\ Fits(line)
    <3>1. chunks' = chunks /\ held' = Append(held, line)
      BY <1>8, <2>1, <2>2 DEF TakeLine
    <3>2. Characters(held') = Characters(held) + line
      BY <1>1, <3>1, CharactersAppend
    <3> QED
      BY <1>2, <1>3, <1>5, <2>1, <3>1, <3>2
  <2>3. CASE ~ (held # <<>> /\ Fits(line))
    <3>1. chunks' = Flushed /\ held' = <<line>>
      BY <1>8, <2>1, <2>3 DEF TakeLine
    <3>2. Characters(held') = line
      BY <3>1, CharactersOfLine
    <3> QED
      BY <1>2, <1>3, <1>4, <1>5, <2>1, <3>1, <3>2
  <2> QED
    BY <2>2, <2>3
<1>9. CASE FlushLast
  <2>1. chunks' = Flushed /\ held' = <<>> /\ lines' = lines /\ lines = <<>>
    BY <1>9 DEF FlushLast
  <2> QED
    BY <1>2, <1>3, <1>4, <1>5, <2>1, CharactersOfNone
<1> QED
  BY <1>7, <1>8, <1>9 DEF Split

-----------------------------------------------------------------------------
NoticesInv == ClientTypeOK /\ ReminderInv /\ NoticeInv /\ MessageInv

LEMMA AlwaysNoticesInv == Spec => []NoticesInv
PROOF
<1>1. Init => NoticesInv
  <2> SUFFICES ASSUME Init PROVE NoticesInv
    OBVIOUS
  <2>1. ClientTypeOK
    BY ExpiryAssumption DEF Init, ClientInit, ClientTypeOK, ClientRow, Status, Expiry
  <2> QED
    BY <2>1, ReminderInitialInv, NoticeInitialInv, MessageInitialInv DEF NoticesInv
<1>2. NoticesInv /\ [Next]_vars => NoticesInv'
  <2> SUFFICES ASSUME NoticesInv, [Next]_vars PROVE NoticesInv'
    OBVIOUS
  <2>1. ClientTypeOK'
    <3>1. CASE UNCHANGED clientVars
      BY <3>1 DEF clientVars, NoticesInv, ClientTypeOK
    <3> QED
      BY <3>1, ClientsTyped DEF NoticesInv, Next, vars, Reminding, Noticing, Splitting
  <2>2. MessageInv'
    <3>1. CASE UNCHANGED messageVars
      BY <3>1 DEF messageVars, NoticesInv, MessageInv, MessageTypeOK, BlanksApart, HeldCounted, NearlyFits
    <3> QED
      BY <3>1, SplitInv DEF NoticesInv, Next, vars, Clients, Reminding, Noticing, Splitting
  <2> QED
    BY <2>1, <2>2, ReminderNextInv, NoticeNextInv DEF NoticesInv
<1> QED
  BY <1>1, <1>2, PTL DEF Spec

\* Every variable of the clients, reminders, notices and messages has its type.
THEOREM TypeCorrect == Spec => []TypeOK
PROOF
<1>1. NoticesInv => TypeOK
  BY DEF NoticesInv, ReminderInv, NoticeInv, MessageInv, TypeOK
<1> QED
  BY <1>1, AlwaysNoticesInv, PTL

\* A notice that several executions of the task give is delivered once: the cache's mark
\* admits one of them - unless the broker took it and reported an error.
THEOREM NoticeAlwaysOnce == Spec => []NoticeOnce
PROOF
<1>1. NoticesInv => NoticeOnce
  BY DEF NoticesInv, NoticeInv
<1> QED
  BY <1>1, AlwaysNoticesInv, PTL

\* How far ChunksFit can be missed, whatever the text and the limit: a message that does
\* not start with a blank line fits, one that does is at most one character too long, for
\* the end of line that current_length misses.
THEOREM MessagesNearlyFit == Spec => []NearlyFits
PROOF
<1>1. NoticesInv => NearlyFits
  BY DEF NoticesInv, MessageInv
<1> QED
  BY <1>1, AlwaysNoticesInv, PTL

\* Cutting a message conserves its characters, whatever its lines and the limit: a line
\* is in one place, and the slices of a long one make it up.
THEOREM NothingEverLost == Spec => NothingLost
PROOF
<1>1. ASSUME NoticesInv, [Next]_vars PROVE [Written' = Written]_vars
  <2>1. CASE UNCHANGED messageVars
    BY <2>1 DEF messageVars, Written
  <2>2. CASE Split
    BY <1>1, <2>2, SplitKeepsAll DEF NoticesInv, MessageInv
  <2> QED
    BY <1>1, <2>1, <2>2 DEF Next, vars, Clients, Reminding, Noticing, Splitting
<1> QED
  BY <1>1, AlwaysNoticesInv, PTL DEF Spec, NothingLost

\* An execution of the task passes over a notice only if that very notice - client, kind,
\* marker and day - has been marked, or the same number of days was announced for the
\* client the day before.
THEOREM SkippedAlwaysAnnounced == Spec => SkippedWasAnnounced
PROOF
<1> DEFINE Announced == \A n \in Notifier : \A x \in notifier[n].todo \ notifier'[n].todo :
                            deaths' = deaths => \/ x \in announced'
                                                \/ x.kind = "expiring" /\ [x EXCEPT !.day = now - 1] \in announced
<1>1. ASSUME NoticesInv, [Next]_vars PROVE [Announced]_vars
  <2> SUFFICES ASSUME Noticing(NoticeNext), NEW n \in Notifier,
                      NEW x \in notifier[n].todo \ notifier'[n].todo, deaths' = deaths
               PROVE  MarkedToday(x)' \/ MarkedYesterday(x)
    BY <1>1 DEF Next, vars, noticeVars, Clients, Reminding, Splitting, MarkedToday, MarkedYesterday
  <2>1. notifier \in [Notifier -> NotifierState] /\ deaths \in Nat
    BY <1>1, NoticesAssumption DEF NoticesInv, NoticeInv, NoticeTypeOK
  <2>2. x \in Notice /\ x.day = now /\ Dated(x)
    BY <1>1, NotifierFacts DEF NoticesInv, NoticeInv, HandledToday
  <2>3. ASSUME NEW m \in Notifier, NotifierWorks(m) PROVE MarkedToday(x)' \/ MarkedYesterday(x)
    <3>1. CASE StartNotices(m)
      BY <2>1, <3>1, IdleNotifierTyped DEF StartNotices
    <3>2. ASSUME NEW y \in notifier[m].todo, SkipMarked(m, y) PROVE MarkedToday(x)' \/ MarkedYesterday(x)
      <4>1. x = y
        BY <2>1, <3>2 DEF SkipMarked
      <4> QED
        BY <1>1, <2>2, <3>2, <4>1, MarkedIsAnnounced DEF SkipMarked, NoticesInv, MarkedToday
    <3>3. ASSUME NEW y \in notifier[m].todo, MarkNotice(m, y) PROVE MarkedToday(x)' \/ MarkedYesterday(x)
      BY <2>1, <3>3 DEF MarkNotice, MarkedToday
    <3>4. ASSUME NEW y \in notifier[m].current,
                 Enqueue(m, y) \/ DeliverInTask(m, y) \/ EnqueueUnclear(m, y)
          PROVE  FALSE
      BY <2>1, <3>4 DEF Enqueue, DeliverInTask, EnqueueUnclear, Emitted, NotifierState
    <3> QED
      BY <2>3, <3>1, <3>2, <3>3, <3>4 DEF NotifierWorks
  <2>4. ~ \E m \in Notifier : NotifierDies(m)
    BY <2>1 DEF NotifierDies
  <2>5. ~ \E y \in queue : Deliver(y) \/ WorkerDies(y)
    BY <2>1 DEF Deliver, WorkerDies
  <2> QED
    BY <2>3, <2>4, <2>5 DEF Noticing, NoticeNext, WorkerWorks
<1> QED
  BY <1>1, AlwaysNoticesInv, PTL DEF Spec, SkippedWasAnnounced

\* What a run delivers for the first time, nobody had received - unless it is excused:
\* a run was killed after sending it, two overlapped, or a channel that had delivered
\* it reported an error.
THEOREM RemindsAlwaysOnce == Spec => RemindsOnce
PROOF
<1> DEFINE Once == \A r \in Runner :
                     runner[r].pc \in up /\ runner'[r].sent => Fresh(r) \cap received \subseteq excused
<1>1. ASSUME NoticesInv PROVE [Once]_vars
  <2> SUFFICES ASSUME NEW r \in Runner, NEW i \in Fresh(r) \cap received PROVE i \in excused
    OBVIOUS
  <2>1. ~ runner[r].sent /\ i \in runner[r].items
    BY DEF Fresh
  <2>2. CASE i \in logged
    BY <1>1, <2>1, <2>2 DEF NoticesInv, ReminderInv, UnsentIsNotLogged
  <2>3. ASSUME NEW s \in Runner, runner[s].sent, i \in runner[s].items PROVE i \in excused
    BY <1>1, <2>1, <2>3 DEF NoticesInv, ReminderInv, OverlapIsExcused
  <2> QED
    BY <1>1, <2>2, <2>3 DEF NoticesInv, ReminderInv, ReceivedIsKnown
<1> QED
  BY <1>1, AlwaysNoticesInv, PTL DEF Spec, RemindsOnce
=============================================================================
