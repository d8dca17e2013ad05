---------------------------- MODULE ClientExpiry ----------------------------
(***************************************************************************)
(* The clients' expiry dates, as operators change them (vpn/forms.py,      *)
(* vpn/views.py, update_limits in vpn/services.py) while days go by.       *)
(* Reminders and LimitNotices read what this module writes.                *)
(*                                                                         *)
(* The clock counts days, from one run of the daily tasks to the next.  A  *)
(* date is a day and a flag for a time that does not fall on a minute: the *)
(* presets count from the second of the request, the edit form shows and   *)
(* reads whole minutes.                                                    *)
(***************************************************************************)
EXTENDS Integers

CONSTANTS
  Client,
  Lifetimes,  \* the forms' presets, in days
  MaxTime,    \* bound on the clock
  MaxEdits    \* bound on the changes to clients

ASSUME ExpiryAssumption == Lifetimes \subseteq Nat /\ MaxTime \in Nat /\ MaxEdits \in Nat

VARIABLES
  now,
  client,   \* the rows: status, expires
  edits     \* changes so far

clientVars == <<now, client, edits>>

Status == {"active", "disabled", "deleted"}
Days == {now + d : d \in Lifetimes}

NoExpiry == [day |-> -1, seconds |-> FALSE]

Expiry == [day : Nat, seconds : BOOLEAN] \cup {NoExpiry}
ClientRow == [status : Status, expires : Expiry]

HasExpiry(c) == client[c].expires # NoExpiry

-----------------------------------------------------------------------------
\* _init_from_client: the edit form shows the date without its seconds.
Prefilled(e) == [e EXCEPT !.seconds = FALSE]

\* resolve_expires_at: a preset, a custom date, no limit.
Resolved ==
  {[day |-> d, seconds |-> s] : d \in Days, s \in BOOLEAN} \cup {NoExpiry}

\* client_update_limits_view saves both limits, whichever was edited: a date that
\* was not touched comes back as the form showed it.
SubmitForm(c, e) ==
  /\ client' = [client EXCEPT ![c].expires = e]
  /\ UNCHANGED now

\* The bulk form sets or clears the expiry of the selected clients, or keeps it;
\* deleted clients are passed over.
BulkLimits(selected, e) ==
  /\ e \in Resolved
  /\ client' = [c \in Client |->
       IF c \in selected /\ client[c].status # "deleted"
       THEN [client[c] EXCEPT !.expires = e] ELSE client[c]]
  /\ UNCHANGED now

\* set_status, by an operator or by the limits task
SetStatus(c, status) ==
  /\ client[c].status # status
  /\ client' = [client EXCEPT ![c].status = status]
  /\ UNCHANGED now

Tick ==
  /\ now < MaxTime /\ now' = now + 1
  /\ UNCHANGED <<client, edits>>

ClientInit ==
  /\ now = 0
  /\ client = [c \in Client |-> [status |-> "active", expires |-> NoExpiry]]
  /\ edits = 0

Operators ==
  /\ edits < MaxEdits /\ edits' = edits + 1
  /\ \/ \E c \in Client : \E e \in Resolved \cup {Prefilled(client[c].expires)} : SubmitForm(c, e)
     \/ \E selected \in (SUBSET Client) \ {{}}, e \in Resolved : BulkLimits(selected, e)
     \/ \E c \in Client, status \in Status : SetStatus(c, status)

ClientTypeOK ==
  /\ now \in 0..MaxTime /\ edits \in 0..MaxEdits
  /\ client \in [Client -> ClientRow]
=============================================================================
