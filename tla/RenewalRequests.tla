--------------------------- MODULE RenewalRequests ---------------------------
(***************************************************************************)
(* The renewal requests of one client: the portal submits them, operators  *)
(* move them to a closed status, annotate them, or extend the client and   *)
(* close them (portal/services.py, vpn/views.py).                          *)
(*                                                                         *)
(* The operator's view runs outside a transaction: it loads the client,    *)
(* loads the request, and saves each separately, with values computed from *)
(* what it loaded.  The portal's submission is one transaction that locks  *)
(* the open request, if there is one.                                      *)
(***************************************************************************)
EXTENDS Integers, Sequences

CONSTANTS
  Worker,       \* gunicorn workers
  File,         \* attachments a client can upload
  NoFile,       \* no attachment
  Days,         \* the extensions operators grant
  MaxRequests,  \* bound on the requests a client makes
  MaxExtended,  \* bound on the extensions begun for one request
  MaxTime,      \* bound on the clock and on the expiries operators enter
  Exclusive     \* operators act on the client one at a time

ASSUME RenewalAssumption ==
  /\ NoFile \notin File
  /\ Days \subseteq Nat \ {0}
  /\ MaxRequests \in Nat /\ MaxExtended \in Nat /\ MaxTime \in Nat
  /\ Exclusive \in BOOLEAN

Status == {"new", "in_progress", "done", "dismissed"}
Open == {"new", "in_progress"}
Target == Status \cup {"extend_and_close"}
PC == {"idle", "request", "extend", "save", "attach", "insert"}

Request == [status : Status, processed : BOOLEAN, file : File \cup {NoFile}]

VARIABLES
  now,         \* the clock
  expires,     \* the client's expires_at; 0 if it has none
  requests,    \* the client's requests, oldest first; processed: processed_at is set
  lock,        \* the requests locked by SELECT ... FOR UPDATE
  task,        \* what each worker does: where it is, its input and loaded objects
  extensions,  \* history: how often the client was extended for each request
  halfDone     \* history: requests for which a handler extended the client
               \*          and failed to close the request

vars == <<now, expires, requests, lock, task, extensions, halfDone>>

\* `until` is the client's expires_at as loaded, then as it is to be saved; 0 when
\* it is no longer needed.
Task == [pc : PC, request : Nat, target : Target, days : Days \cup {0}, until : Nat,
         seen : Request, file : File \cup {NoFile}]

NewRequest(file) == [status |-> "new", processed |-> FALSE, file |-> file]

Idle == [pc |-> "idle", request |-> 0, target |-> "new", days |-> 0, until |-> 0,
         seen |-> NewRequest(NoFile), file |-> NoFile]

Finish(w) == task' = [task EXCEPT ![w] = Idle]

OpenRequests == {r \in 1..Len(requests) : requests[r].status \in Open}

\* An operator's handler has loaded something and not finished.
Operating == \E w \in Worker : task[w].pc \in {"request", "extend", "save"}

-----------------------------------------------------------------------------
\* Mutation: a closed request can be taken up again.
AllowedReopening(status) ==
  IF status = "new" THEN {"in_progress", "done", "dismissed"}
  ELSE IF status = "in_progress" THEN {"done", "dismissed"} ELSE {"in_progress"}

Allowed(status) ==
  IF status = "new" THEN {"in_progress", "done", "dismissed"}
  ELSE IF status = "in_progress" THEN {"done", "dismissed"} ELSE {}

\* Mutation: extending does not look at the request's status.
AcceptedExtendingClosed(target, status) ==
  target = "extend_and_close" \/ target = status \/ target \in Allowed(status)

\* The checks of the view: extending needs an open request, and the same status
\* again only saves the operator's note.
Accepted(target, status) ==
  IF target = "extend_and_close" THEN status \in Open
  ELSE target = status \/ target \in Allowed(status)

\* Mutation: the extension counts from today, whatever was left.
ExtendedFromNow(seen, days) == now + days

\* base_time is the expiry, or the current time if that has passed.
Extended(seen, days) == (IF seen > now THEN seen ELSE now) + days

\* POST renewal_set_status: the client is loaded.
OperatorPost(w, r, target, days) ==
  /\ task[w].pc = "idle"
  /\ Exclusive => ~ Operating
  /\ (target = "extend_and_close") = (days # 0)
  /\ days # 0 => extensions[r] < MaxExtended
  /\ task' = [task EXCEPT ![w] = [Idle EXCEPT !.pc = "request", !.request = r,
                                    !.target = target, !.days = days, !.until = expires]]
  /\ UNCHANGED <<now, expires, requests, lock, extensions, halfDone>>

\* The request is loaded, checked, and the new expiry computed.
LoadRequest(w) ==
  LET t == task[w]
      seen == requests[t.request]
      extend == t.target = "extend_and_close"
  IN
  /\ t.pc = "request"
  /\ Accepted(t.target, seen.status)
  /\ task' = [task EXCEPT ![w] =
       [t EXCEPT !.pc = IF extend THEN "extend" ELSE "save", !.seen = seen,
                 !.until = IF extend THEN Extended(t.until, t.days) ELSE 0]]
  /\ UNCHANGED <<now, expires, requests, lock, extensions, halfDone>>

Refuse(w) ==
  /\ task[w].pc = "request"
  /\ ~ Accepted(task[w].target, requests[task[w].request].status)
  /\ Finish(w)
  /\ UNCHANGED <<now, expires, requests, lock, extensions, halfDone>>

\* client.save(update_fields=["expires_at", "limit_state"])
ExtendClient(w) ==
  /\ task[w].pc = "extend"
  /\ expires' = task[w].until
  /\ extensions' = [extensions EXCEPT ![task[w].request] = @ + 1]
  /\ task' = [task EXCEPT ![w].pc = "save", ![w].until = 0]
  /\ UNCHANGED <<now, requests, lock, halfDone>>

\* Mutation: the posted word is saved, an extension's too.
SavedStatusAsPosted(t) == t.target

\* Mutation: extending saves the client and leaves the request as it is.
SavedStatusUnclosed(t) == IF t.target = "extend_and_close" THEN t.seen.status ELSE t.target

\* Status and processed_at as the view computes them from the loaded request.
SavedStatus(t) == IF t.target = "extend_and_close" THEN "done" ELSE t.target

\* Mutation: a note leaves processed_at as it is for an open request only.
SavedProcessedUnlessNote(t) == t.target # t.seen.status /\ SavedStatus(t) \notin Open

SavedProcessed(t) ==
  IF t.target = t.seen.status THEN t.seen.processed ELSE SavedStatus(t) \notin Open

\* Mutation: the unique constraint covers new requests only.
UniqueOpenNewOnly(r, status) ==
  status \in Open => \A s \in 1..Len(requests) : s # r => requests[s].status # "new"

\* uniq_open_renewal_request_per_client admits request r with this status.
UniqueOpen(r, status) == status \in Open => OpenRequests \subseteq {r}

\* Mutation: the row lock of the portal's transaction does not hold the operator back.
SaveRequestUnlocked(w) ==
  LET t == task[w] IN
  /\ t.pc = "save"
  /\ UniqueOpen(t.request, SavedStatus(t))
  /\ requests' = [requests EXCEPT ![t.request].status = SavedStatus(t),
                                  ![t.request].processed = SavedProcessed(t)]
  /\ Finish(w)
  /\ UNCHANGED <<now, expires, lock, extensions, halfDone>>

\* request_obj.save(update_fields=["status", "processed_at", ...]) waits for a
\* transaction that has locked the row.
SaveRequest(w) ==
  LET t == task[w] IN
  /\ t.pc = "save" /\ t.request \notin lock
  /\ UniqueOpen(t.request, SavedStatus(t))
  /\ requests' = [requests EXCEPT ![t.request].status = SavedStatus(t),
                                  ![t.request].processed = SavedProcessed(t)]
  /\ Finish(w)
  /\ UNCHANGED <<now, expires, lock, extensions, halfDone>>

-----------------------------------------------------------------------------
\* Mutation: the open request is read without FOR UPDATE.
PortalPostUnlocked(w, file) ==
  /\ task[w].pc = "idle"
  /\ OpenRequests # {} \/ Len(requests) < MaxRequests
  /\ \/ /\ OpenRequests = {}
        /\ task' = [task EXCEPT ![w] = [Idle EXCEPT !.pc = "insert", !.file = file]]
        /\ UNCHANGED lock
     \/ \E r \in OpenRequests :
          /\ task' = [task EXCEPT ![w] = [Idle EXCEPT !.pc = "attach", !.request = r,
                                            !.seen = requests[r], !.file = file]]
          /\ UNCHANGED lock
  /\ UNCHANGED <<now, expires, requests, extensions, halfDone>>

\* create_or_get_open_from_portal: the open request is locked, waiting for
\* another transaction that has it, or there is none.
PortalPost(w, file) ==
  /\ task[w].pc = "idle"
  /\ OpenRequests # {} \/ Len(requests) < MaxRequests
  /\ \/ /\ OpenRequests = {}
        /\ task' = [task EXCEPT ![w] = [Idle EXCEPT !.pc = "insert", !.file = file]]
        /\ UNCHANGED lock
     \/ \E r \in OpenRequests \ lock :
          /\ task' = [task EXCEPT ![w] = [Idle EXCEPT !.pc = "attach", !.request = r,
                                            !.seen = requests[r], !.file = file]]
          /\ lock' = lock \cup {r}
  /\ UNCHANGED <<now, expires, requests, extensions, halfDone>>

\* An attachment is added to the open request if it has none; commit.
Attach(w) ==
  LET t == task[w] IN
  /\ t.pc = "attach"
  /\ requests' = IF t.file # NoFile /\ t.seen.file = NoFile
                 THEN [requests EXCEPT ![t.request].file = t.file] ELSE requests
  /\ lock' = lock \ {t.request}
  /\ Finish(w)
  /\ UNCHANGED <<now, expires, extensions, halfDone>>

\* The new request is inserted and committed.
Insert(w) ==
  /\ task[w].pc = "insert" /\ Len(requests) < MaxRequests
  /\ UniqueOpen(Len(requests) + 1, "new")
  /\ requests' = Append(requests, NewRequest(task[w].file))
  /\ extensions' = Append(extensions, 0)
  /\ Finish(w)
  /\ UNCHANGED <<now, expires, lock, halfDone>>

\* IntegrityError: another handler has created an open request, or this one
\* would reopen a request while a newer one is open.
Conflict(w) ==
  LET t == task[w] IN
  /\ \/ t.pc = "save" /\ t.request \notin lock /\ ~ UniqueOpen(t.request, SavedStatus(t))
     \/ t.pc = "insert" /\ ~ UniqueOpen(Len(requests) + 1, "new")
  /\ Finish(w)
  /\ UNCHANGED <<now, expires, requests, lock, extensions, halfDone>>

\* A database error or the death of the worker.  What the operator's view has
\* saved stays; the portal's transaction is rolled back and its lock released.
Fail(w) ==
  LET t == task[w] IN
  /\ t.pc # "idle"
  /\ Finish(w)
  /\ lock' = IF t.pc = "attach" THEN lock \ {t.request} ELSE lock
  /\ halfDone' = IF t.pc = "save" /\ t.target = "extend_and_close"
                 THEN halfDone \cup {t.request} ELSE halfDone
  /\ UNCHANGED <<now, expires, requests, extensions>>

-----------------------------------------------------------------------------
\* update_limits sets the expiry an operator entered; 0 is none.
UpdateLimits(e) ==
  /\ Exclusive => ~ Operating
  /\ expires' = e
  /\ UNCHANGED <<now, requests, lock, task, extensions, halfDone>>

Tick ==
  /\ now < MaxTime
  /\ now' = now + 1
  /\ UNCHANGED <<expires, requests, lock, task, extensions, halfDone>>

Init ==
  /\ now = 0 /\ expires = 0
  /\ requests = <<>> /\ extensions = <<>>
  /\ lock = {} /\ halfDone = {}
  /\ task = [w \in Worker |-> Idle]

Step(w) ==
  \/ \E r \in 1..Len(requests), target \in Target, days \in Days \cup {0} :
       OperatorPost(w, r, target, days)
  \/ LoadRequest(w) \/ Refuse(w) \/ ExtendClient(w) \/ SaveRequest(w)
  \/ \E file \in File \cup {NoFile} : PortalPost(w, file)
  \/ Attach(w) \/ Insert(w) \/ Conflict(w) \/ Fail(w)

Next ==
  \/ \E w \in Worker : Step(w)
  \/ \E e \in 0..MaxTime : UpdateLimits(e)
  \/ Tick

Spec == Init /\ [][Next]_vars

-----------------------------------------------------------------------------
TypeOK ==
  /\ now \in Nat /\ expires \in Nat
  /\ requests \in Seq(Request)
  /\ extensions \in Seq(Nat) /\ Len(extensions) = Len(requests)
  /\ lock \subseteq 1..Len(requests) /\ halfDone \subseteq Nat
  /\ task \in [Worker -> Task]

\* A request has a processing time exactly if it is closed, even when handlers
\* overlap and save what they loaded long ago: the queue and the client's
\* cabinet date closed requests by it.
ClosedIffProcessed ==
  \A r \in 1..Len(requests) : requests[r].processed = (requests[r].status \notin Open)

\* A client has at most one open request, although two submissions may both find
\* none and a stale note may write an open status back.
AtMostOneOpen == \A r, s \in OpenRequests : r = s

\* Submitting again never replaces the file of a request.
AttachmentKept ==
  [][\A r \in 1..Len(requests) :
       requests[r].file # NoFile => requests'[r].file = requests[r].file]_vars

\* A file is only added to a request that is open, never to one an operator has
\* just closed.
AttachedOnlyWhileOpen ==
  [][\A r \in 1..Len(requests) :
       requests'[r].file # requests[r].file => requests[r].status \in Open]_vars

\* A closed request keeps its status.
ClosedForGood ==
  [][\A r \in 1..Len(requests) :
       requests[r].status \notin Open => requests'[r].status = requests[r].status]_vars

\* An extension never leaves a client that has an expiry with less time than it
\* had when the extension is saved, whether the expiry is ahead or has passed.
\* (A client without one gets one.)
ExtensionAddsDays ==
  [][\A r \in 1..Len(requests) : extensions'[r] # extensions[r] => expires' > expires]_vars

\* A request extends the client once, whatever the operators post one after the
\* other, unless a handler failed between its two saves and the operator did it
\* again.
ExtendedOnce ==
  \A r \in 1..Len(requests) : r \notin halfDone => extensions[r] <= 1

-----------------------------------------------------------------------------
\* The request of the extension that a handler has saved and not yet closed.
Extending == {w \in Worker : task[w].pc = "save" /\ task[w].target = "extend_and_close"}
Granting == {task[w].request : w \in Extending}

Desk == INSTANCE RenewalDesk WITH granting <- Granting, abandoned <- halfDone

\* For operators that act one at a time, every load, save, lock, conflict and failure
\* is a step of RenewalDesk or changes nothing for the client: an extension is only
\* saved for a request that is open at that moment, and closes that very request
\* unless its handler fails, although the status and the expiry it saves were
\* computed from copies and the portal locks and changes the request meanwhile.
ImplementsDesk == Desk!DeskSpec
=============================================================================
