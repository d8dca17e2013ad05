----------------------------- MODULE Reminders -----------------------------
(***************************************************************************)
(* The daily reminder to the administrators about clients that will expire *)
(* (vpn/expiration_reminders.py).  A run collects the reminders that are   *)
(* due and not logged, sends them all in one message by e-mail and one by  *)
(* Telegram, and logs them if either was delivered.  Beat starts a run     *)
(* every day, an operator may start another by hand, and any run can be    *)
(* killed between sending and logging.                                     *)
(***************************************************************************)
EXTENDS ClientExpiry, FiniteSets

CONSTANTS
  Thresholds,  \* EXPIRATION_REMINDER_DAYS
  Runner,      \* the Celery worker and the management command
  MaxFaults    \* bound on the runs that are killed and the outages of channels

ASSUME RemindersAssumption == Thresholds \subseteq Nat \ {0} /\ MaxFaults \in Nat

Channel == {"email", "telegram"}

VARIABLES
  logged,    \* ClientExpirationReminderLog rows
  runner,    \* what each run does
  up,        \* the channels that deliver
  faults,    \* killed runs and outages so far
  received,  \* history: reminders that reached somebody
  excused    \* history: reminders of a run that was killed after sending or
             \*          overlapped another, or whose channel delivered them and
             \*          reported an error

reminderVars == <<logged, runner, up, faults, received, excused>>

\* ExpirationReminderItem; a log row has the same three fields.
Item == [client : Client, threshold : Thresholds, expires : Expiry]
IdleRunner == [pc |-> "idle", items |-> {}, sent |-> FALSE]
RunnerState ==
  {IdleRunner} \cup [pc : Channel \cup {"log"}, items : (SUBSET Item) \ {{}}, sent : BOOLEAN]

Quiet == \A r \in Runner : runner[r].pc = "idle"

\* The smallest of the thresholds that cover the client's expiry.
Tightest(c) ==
  LET covering == {t \in Thresholds : client[c].expires.day <= now + t} IN
  {t \in covering : \A u \in covering : t <= u}

Reminder(c, t) == [client |-> c, threshold |-> t, expires |-> client[c].expires]
Expiring == {c \in Client : client[c].status = "active" /\ client[c].expires.day > now}

\* The active clients that have not expired yet, each with its threshold.
Due == UNION {{Reminder(c, t) : t \in Tightest(c)} : c \in Expiring}

\* Mutation: a reminder is logged for a client and threshold, whatever its expiry.
PendingWhateverExpiry ==
  {i \in Due : ~ \E l \in logged : l.client = i.client /\ l.threshold = i.threshold}

\* Mutation: every reminder that is due is collected.
PendingLoggedToo == Due

\* collect_pending_items
Pending == Due \ logged

-----------------------------------------------------------------------------
Collect(r) ==
  LET others == UNION {runner[s].items : s \in Runner \ {r}} IN
  /\ runner[r].pc = "idle" /\ Pending # {}
  /\ runner' = [runner EXCEPT ![r] = [pc |-> "email", items |-> Pending, sent |-> FALSE]]
  /\ excused' = excused \cup (Pending \cap others)
  /\ UNCHANGED <<logged, up, faults, received>>

\* The reminders of a run that has not delivered them by another channel yet.
Fresh(r) == IF runner[r].sent THEN {} ELSE runner[r].items

\* After the last channel the run goes on to the log, if anything was delivered.
Went(r, ok) ==
  LET sent == runner[r].sent \/ ok IN
  IF runner[r].pc = "email" THEN [runner[r] EXCEPT !.pc = "telegram", !.sent = sent]
  ELSE IF sent THEN [runner[r] EXCEPT !.pc = "log", !.sent = sent] ELSE IdleRunner

\* send_mail, send_telegram_reminder: one message with all reminders of the run.
Send(r) ==
  LET ch == runner[r].pc IN
  /\ ch \in up
  /\ received' = received \cup Fresh(r)
  /\ runner' = [runner EXCEPT ![r] = Went(r, TRUE)]
  /\ UNCHANGED <<logged, up, faults, excused>>

\* An exception of the channel is noted in the result, no more.
SendFails(r) ==
  /\ runner[r].pc \in Channel \ up
  /\ runner' = [runner EXCEPT ![r] = Went(r, FALSE)]
  /\ UNCHANGED <<logged, up, faults, received, excused>>

\* The message reaches somebody and counts as not sent: one chat of several gets it
\* and another does not, or the connection fails after the mail server, or Telegram,
\* took it.
SendPartly(r) ==
  /\ runner[r].pc \in Channel \ up
  /\ received' = received \cup Fresh(r)
  /\ excused' = excused \cup runner[r].items
  /\ runner' = [runner EXCEPT ![r] = Went(r, FALSE)]
  /\ UNCHANGED <<logged, up, faults>>

\* Mutation: the run does not end with its last row.
LogWithoutEnd(r, i) ==
  /\ runner[r].pc = "log" /\ i \in runner[r].items
  /\ logged' = logged \cup {i}
  /\ runner' = [runner EXCEPT ![r].items = @ \ {i}]
  /\ UNCHANGED <<up, faults, received, excused>>

\* The run ends with its last row.
Without(r, i) ==
  IF runner[r].items = {i} THEN IdleRunner ELSE [runner[r] EXCEPT !.items = @ \ {i}]

\* create_logs, row by row; a row that exists is passed over.
Log(r, i) ==
  /\ runner[r].pc = "log" /\ i \in runner[r].items
  /\ logged' = logged \cup {i}
  /\ runner' = [runner EXCEPT ![r] = Without(r, i)]
  /\ UNCHANGED <<up, faults, received, excused>>

\* The time limit of the task, the death of the process.
Crash(r) ==
  /\ runner[r].pc # "idle" /\ faults < MaxFaults
  /\ faults' = faults + 1
  /\ excused' = IF runner[r].sent THEN excused \cup runner[r].items ELSE excused
  /\ runner' = [runner EXCEPT ![r] = IdleRunner]
  /\ UNCHANGED <<logged, up, received>>

ChannelFails(ch) ==
  /\ ch \in up /\ faults < MaxFaults
  /\ up' = up \ {ch} /\ faults' = faults + 1
  /\ UNCHANGED <<logged, runner, received, excused>>

ChannelReturns(ch) ==
  /\ ch \notin up
  /\ up' = up \cup {ch}
  /\ UNCHANGED <<logged, runner, faults, received, excused>>

ReminderInit ==
  /\ logged = {} /\ runner = [r \in Runner |-> IdleRunner] /\ up = Channel /\ faults = 0
  /\ received = {} /\ excused = {}

RunnerWorks(r) ==
  \/ Collect(r) \/ Send(r) \/ SendFails(r) \/ SendPartly(r)
  \/ \E i \in runner[r].items : Log(r, i)

ReminderNext ==
  \/ \E r \in Runner : RunnerWorks(r) \/ Crash(r)
  \/ \E ch \in Channel : ChannelFails(ch) \/ ChannelReturns(ch)

ReminderTypeOK ==
  /\ logged \subseteq Item /\ runner \in [Runner -> RunnerState] /\ up \subseteq Channel
  /\ faults \in 0..MaxFaults /\ received \subseteq Item
  /\ excused \subseteq Item
=============================================================================
