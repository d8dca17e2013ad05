---------------------------- MODULE LimitNotices ----------------------------
(***************************************************************************)
(* The daily notices about clients that have expired or are about to       *)
(* (notifications/services.py, notifications/tasks.py).  The task marks    *)
(* each notice in the cache before it hands it to Celery; a second run     *)
(* finds the mark and passes over it.  A worker delivers the notice and    *)
(* swallows what goes wrong.  When the broker does not take the notice the *)
(* task delivers it itself.                                                *)
(***************************************************************************)
EXTENDS ClientExpiry

CONSTANTS
  ExpiringDays,  \* NOTIFICATIONS_EXPIRING_DAYS
  Notifier,      \* executions of the task, a redelivered one included
  MaxDeaths      \* bound on the processes that die

ASSUME NoticesAssumption == ExpiringDays \in Nat /\ MaxDeaths \in Nat

VARIABLES
  marks,      \* cache keys, each with the day on which it runs out
  notifier,   \* what each execution does
  queue,      \* notices in the broker
  deaths,     \* processes that died so far
  announced,  \* history: notices that were marked
  attempted,  \* history: notices whose delivery was tried
  again,      \* history: notices whose delivery was tried twice
  unclear,    \* history: notices that the broker took although it reported an error
  lost        \* history: notices that died with a process

noticeVars == <<marks, notifier, queue, deaths, announced, attempted, again, unclear, lost>>

\* The event's type, the client and the marker: the days left, or the date.
\* `day` tells the notices of different days apart.
Notice == [client : Client, kind : {"expiring", "expired"}, marker : Nat, day : Nat]
Mark == [client : Client, kind : {"expiring", "expired"}, marker : Nat, until : Nat]
NotifierState == [todo : SUBSET Notice, current : SUBSET Notice]

IdleNotifier == [todo |-> {}, current |-> {}]
NotifiersIdle == \A n \in Notifier : notifier[n] = IdleNotifier

\* What emit_client_access_limits_notifications has to say of a client with so many
\* days left.
NoticeOf(c, left) ==
  IF left <= 0 THEN {[client |-> c, kind |-> "expired", marker |-> now, day |-> now]}
  ELSE IF left <= ExpiringDays
       THEN {[client |-> c, kind |-> "expiring", marker |-> left, day |-> now]} ELSE {}

\* Those of the clients that are not deleted and have an expiry date.  Days are
\* counted from the moment of the run, rounded up: a run that starts late has a day
\* less for the clients whose time of day has passed, `ahead`.
Notices(ahead) ==
  UNION {NoticeOf(c, client[c].expires.day - now - (IF c \in ahead THEN 1 ELSE 0)) :
           c \in {d \in Client : client[d].status # "deleted" /\ HasExpiry(d)}}

MarkOf(x) == [client |-> x.client, kind |-> x.kind, marker |-> x.marker, until |-> now + 1]

\* Mutation: the cache key leaves out the marker.
SameKeyWhateverMarker(m, x) == m.client = x.client /\ m.kind = x.kind

\* cache_key
SameKey(m, x) == m.client = x.client /\ m.kind = x.kind /\ m.marker = x.marker

\* A key lives 24 hours from the moment it is set, and beat runs the task every 24
\* hours: the next day's run finds yesterday's key or not, as it starts later or
\* sooner after its hour than yesterday's reached the client.
Marked(x) == \E m \in marks : SameKey(m, x) /\ now < m.until
MayBeMarked(x) == \E m \in marks : SameKey(m, x) /\ now <= m.until

Try(x) ==
  /\ attempted' = attempted \cup {x}
  /\ again' = IF x \in attempted THEN again \cup {x} ELSE again

-----------------------------------------------------------------------------
\* The task loads the clients and the time.
StartNotices(n) ==
  /\ notifier[n] = IdleNotifier
  /\ \E ahead \in SUBSET Client :
       Notices(ahead) # {} /\ notifier' = [notifier EXCEPT ![n].todo = Notices(ahead)]
  /\ UNCHANGED <<marks, queue, deaths, announced, attempted, again, unclear, lost>>

\* cache.add finds the key.
SkipMarked(n, x) ==
  /\ x \in notifier[n].todo /\ notifier[n].current = {} /\ MayBeMarked(x)
  /\ notifier' = [notifier EXCEPT ![n].todo = @ \ {x}]
  /\ UNCHANGED <<marks, queue, deaths, announced, attempted, again, unclear, lost>>

\* cache.add, which is atomic, sets the key: it is not there, or not any more.
MarkNotice(n, x) ==
  /\ x \in notifier[n].todo /\ notifier[n].current = {} /\ ~ Marked(x)
  /\ marks' = {m \in marks : now <= m.until /\ ~ SameKey(m, x)} \cup {MarkOf(x)}
  /\ notifier' = [notifier EXCEPT ![n] = [todo |-> @.todo \ {x}, current |-> {x}]]
  /\ announced' = announced \cup {x}
  /\ UNCHANGED <<queue, deaths, attempted, again, unclear, lost>>

Emitted(n) == notifier' = [notifier EXCEPT ![n].current = {}]

\* emit_event: deliver_notification_event.delay
Enqueue(n, x) ==
  /\ x \in notifier[n].current
  /\ queue' = queue \cup {x}
  /\ Emitted(n)
  /\ UNCHANGED <<marks, deaths, announced, attempted, again, unclear, lost>>

\* Mutation: a notice that the broker does not take is dropped.
DropUndelivered(n, x) ==
  /\ x \in notifier[n].current
  /\ Emitted(n)
  /\ UNCHANGED <<marks, queue, deaths, announced, attempted, again, unclear, lost>>

\* The broker is not there: emit_event delivers the notice itself.
DeliverInTask(n, x) ==
  /\ x \in notifier[n].current
  /\ Try(x) /\ Emitted(n)
  /\ UNCHANGED <<marks, queue, deaths, announced, unclear, lost>>

\* The broker takes the notice and the connection breaks before it says so.
EnqueueUnclear(n, x) ==
  /\ x \in notifier[n].current
  /\ queue' = queue \cup {x} /\ unclear' = unclear \cup {x}
  /\ Try(x) /\ Emitted(n)
  /\ UNCHANGED <<marks, deaths, announced, lost>>

\* Mutation: the worker acknowledges after the delivery and gets it again.
DeliverLate(x) ==
  /\ x \in queue
  /\ Try(x)
  /\ UNCHANGED <<marks, notifier, queue, deaths, announced, unclear, lost>>

\* A worker: deliver tries every message on every channel, and nothing it meets
\* comes back.
Deliver(x) ==
  /\ x \in queue
  /\ queue' = queue \ {x}
  /\ Try(x)
  /\ UNCHANGED <<marks, notifier, deaths, announced, unclear, lost>>

\* A worker dies with a notice it had acknowledged.
WorkerDies(x) ==
  /\ x \in queue /\ deaths < MaxDeaths
  /\ deaths' = deaths + 1
  /\ queue' = queue \ {x} /\ lost' = lost \cup {x}
  /\ UNCHANGED <<marks, notifier, announced, attempted, again, unclear>>

\* The task is killed, between mark and emit too.
NotifierDies(n) ==
  /\ notifier[n] # IdleNotifier /\ deaths < MaxDeaths
  /\ deaths' = deaths + 1
  /\ lost' = lost \cup notifier[n].current
  /\ notifier' = [notifier EXCEPT ![n] = IdleNotifier]
  /\ UNCHANGED <<marks, queue, announced, attempted, again, unclear>>

NoticeInit ==
  /\ marks = {} /\ notifier = [n \in Notifier |-> IdleNotifier] /\ queue = {}
  /\ deaths = 0 /\ announced = {}
  /\ attempted = {} /\ again = {} /\ unclear = {} /\ lost = {}

NotifierWorks(n) ==
  \/ StartNotices(n)
  \/ \E x \in notifier[n].todo : SkipMarked(n, x) \/ MarkNotice(n, x)
  \/ \E x \in notifier[n].current : Enqueue(n, x) \/ DeliverInTask(n, x) \/ EnqueueUnclear(n, x)

WorkerWorks == \E x \in queue : Deliver(x)

NoticeNext ==
  \/ \E n \in Notifier : NotifierWorks(n) \/ NotifierDies(n)
  \/ WorkerWorks
  \/ \E x \in queue : WorkerDies(x)

NoticeTypeOK ==
  /\ marks \subseteq Mark /\ notifier \in [Notifier -> NotifierState]
  /\ queue \subseteq Notice /\ deaths \in 0..MaxDeaths /\ announced \subseteq Notice
  /\ attempted \subseteq Notice /\ again \subseteq attempted /\ unclear \subseteq Notice /\ lost \subseteq Notice
=============================================================================
