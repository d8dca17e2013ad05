----------------------------- MODULE RenewalDesk -----------------------------
(***************************************************************************)
(* What the panel promises a client that asks for more time, whatever      *)
(* saves it takes: one open request, a file that stays, a status that only *)
(* moves forward, and an extension that is granted for an open request,    *)
(* adds to the time left, and ends in that request's being done.           *)
(* RenewalRequests implements this if operators act on the client one at a *)
(* time.                                                                   *)
(***************************************************************************)
EXTENDS Integers, Sequences

CONSTANTS
  File, NoFile

VARIABLES
  requests,   \* the client's requests, oldest first
  expires,    \* when the client's access ends; 0 if it does not
  granting,   \* the request for which the extension is saved and that is still to be closed
  abandoned   \* the requests that were left so

deskVars == <<requests, expires, granting, abandoned>>

IsOpen(r) == requests[r].status \in {"new", "in_progress"}

Moved(r, status, closed) ==
  requests' = [requests EXCEPT ![r].status = status, ![r].processed = closed]

\* A request is taken when the client has none open, with or without a file.
Submit(file) ==
  /\ \A r \in 1..Len(requests) : ~ IsOpen(r)
  /\ requests' = Append(requests, [status |-> "new", processed |-> FALSE, file |-> file])
  /\ UNCHANGED <<expires, granting, abandoned>>

\* An open request that has no file is given one.
AddFile(r, file) ==
  /\ IsOpen(r) /\ requests[r].file = NoFile
  /\ requests' = [requests EXCEPT ![r].file = file]
  /\ UNCHANGED <<expires, granting, abandoned>>

TakeUp(r) ==
  /\ requests[r].status = "new" /\ granting = {}
  /\ Moved(r, "in_progress", FALSE)
  /\ UNCHANGED <<expires, granting, abandoned>>

\* Closed without an extension.
Settle(r, status) ==
  /\ IsOpen(r) /\ granting = {}
  /\ Moved(r, status, TRUE)
  /\ UNCHANGED <<expires, granting, abandoned>>

\* The extension is saved: more time than the client had.
Grant(r) ==
  /\ IsOpen(r) /\ granting = {}
  /\ expires' > expires
  /\ granting' = {r}
  /\ UNCHANGED <<requests, abandoned>>

\* The request of the extension is closed as done.
Close(r) ==
  /\ r \in granting /\ IsOpen(r)
  /\ Moved(r, "done", TRUE)
  /\ granting' = {}
  /\ UNCHANGED <<expires, abandoned>>

\* The handler failed in between: the request is open and its extension saved.
Abandon(r) ==
  /\ r \in granting
  /\ granting' = {} /\ abandoned' = abandoned \cup {r}
  /\ UNCHANGED <<requests, expires>>

\* An operator enters an expiry; not while one is extending the client.
SetLimit ==
  /\ granting = {} /\ expires' \in Nat
  /\ UNCHANGED <<requests, granting, abandoned>>

DeskInit ==
  requests = <<>> /\ expires = 0 /\ granting = {} /\ abandoned = {}

DeskNext ==
  \/ \E file \in File \cup {NoFile} : Submit(file)
  \/ \E r \in 1..Len(requests) :
       \/ \E file \in File : AddFile(r, file)
       \/ TakeUp(r) \/ \E status \in {"done", "dismissed"} : Settle(r, status)
       \/ Grant(r) \/ Close(r) \/ Abandon(r)
  \/ SetLimit

DeskSpec == DeskInit /\ [][DeskNext]_deskVars
=============================================================================
