------------------------------ MODULE Notices ------------------------------
(***************************************************************************)
(* Reminders and LimitNotices beside the operators who change the dates    *)
(* both go by.  The two read the same clients and share nothing else, so a *)
(* behaviour runs one of them, or cuts the text of one reminder into       *)
(* Telegram messages: `task` says which.                                   *)
(***************************************************************************)
EXTENDS Reminders, LimitNotices, TelegramMessage

VARIABLE task

vars == <<task, clientVars, reminderVars, noticeVars, messageVars>>

Init ==
  /\ task \in {"reminders", "notices", "message"}
  /\ ClientInit /\ ReminderInit /\ NoticeInit
  /\ IF task = "message" THEN MessageInit ELSE MessageIdle

\* A run takes minutes, a step of the clock a day.
Day == Tick /\ Quiet /\ NotifiersIdle

Clients ==
  /\ task # "message" /\ (Operators \/ Day)
  /\ UNCHANGED <<task, reminderVars, noticeVars, messageVars>>

Reminding(A) == task = "reminders" /\ A /\ UNCHANGED <<task, clientVars, noticeVars, messageVars>>
Noticing(A) == task = "notices" /\ A /\ UNCHANGED <<task, clientVars, reminderVars, messageVars>>
Splitting == task = "message" /\ Split /\ UNCHANGED <<task, clientVars, reminderVars, noticeVars>>

Next == Clients \/ Reminding(ReminderNext) \/ Noticing(NoticeNext) \/ Splitting

\* Beat starts the tasks again and again; a run that is not killed goes on, and
\* so do the workers.  Nothing is assumed of operators, channels, broker or time.
Fairness ==
  /\ \A r \in Runner : WF_vars(Reminding(RunnerWorks(r)))
  /\ \A n \in Notifier : WF_vars(Noticing(NotifierWorks(n)))
  /\ WF_vars(Noticing(WorkerWorks))

Spec == Init /\ [][Next]_vars /\ Fairness

-----------------------------------------------------------------------------
TypeOK == ClientTypeOK /\ ReminderTypeOK /\ NoticeTypeOK /\ MessageTypeOK

\* Every message that is cut from a reminder is within Telegram's limit, as the tests
\* of split_telegram_message say.  The code breaks it for a message that starts with a
\* blank line: current_length stays zero after one, so the end of that line is not
\* counted.
ChunksFit == \A i \in DOMAIN chunks : TextLength(chunks[i]) <= Limit

\* Cutting a message neither drops nor repeats a character of its lines: the lines held
\* are flushed before a long one is sliced, and the slices make up that line.
NothingLost == [][Written' = Written]_vars

\* No run repeats the reminder of another for the same client, threshold and expiry
\* date - unless a run was killed between sending and logging it, two runs
\* overlapped, or a channel that had delivered it to somebody reported an error.
RemindsOnce ==
  [][\A r \in Runner :
       runner[r].pc \in up /\ runner'[r].sent => Fresh(r) \cap received \subseteq excused]_vars

\* If one channel delivers from some time on, whatever the other does, no reminder
\* stays due without a log row: none is passed over because of an earlier date,
\* threshold or run.
NoneStaysDue ==
  task = "reminders" /\ (\E ch \in Channel : <>[](ch \in up)) => []<>(Due \subseteq logged)

\* A notice that is marked is delivered at most once, although several runs may
\* give it - unless the broker took it and reported an error.
NoticeOnce == again \subseteq unclear

\* A run passes over a notice only if it has been marked that day, or if the same
\* number of days was announced for that client the day before: yesterday's mark may
\* still be there, and an expiry is rounded to the same number for a run that started
\* late and for the next one.  A mark never silences the notice of an older day, of
\* another kind or number, and never today's notice that a client has expired.
SkippedWasAnnounced ==
  [][\A n \in Notifier : \A x \in notifier[n].todo \ notifier'[n].todo :
       deaths' = deaths => \/ x \in announced'
                           \/ x.kind = "expiring" /\ [x EXCEPT !.day = now - 1] \in announced]_vars

\* Every notice that is marked, and so will not be given again, is tried - unless
\* the process that held it died - also when the broker does not take it.
AnnouncedIsTried == []<>(announced \subseteq attempted \cup lost)
=============================================================================
