------------------------ MODULE ClientLifecycleAccess ------------------------
(***************************************************************************)
(* ClientLifecycle implements ClientAccess: the services' commands and     *)
(* transactions, step by step, amount to the promised changes of access.   *)
(***************************************************************************)
EXTENDS ClientLifecycle

Shown == [c \in Client |-> row[c].status]
Issued == [c \in Client |-> [i \in DOMAIN revs[c] |-> revs[c][i].key]]
IssuedKeys == UNION {{revs[c][i].key : i \in DOMAIN revs[c]} : c \in Client}
AcceptedKeys == {k \in IssuedKeys : live[k] # NoPeer}
Changing == {c \in Client : Busy(c)}

Access == INSTANCE ClientAccess WITH
  shown <- Shown, issued <- Issued, accepted <- AcceptedKeys, changing <- Changing

\* Every step of the services - a command on the interface, a save, a commit, a
\* restart of the container - is a step of ClientAccess or leaves the access as it is.
ImplementsAccess == Access!AccessSpec
=============================================================================
