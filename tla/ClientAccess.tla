---------------------------- MODULE ClientAccess ----------------------------
(***************************************************************************)
(* What the panel promises of a client's access, whatever the commands it  *)
(* takes: a configuration that was reissued never connects again, what the *)
(* panel shows as active connects, and disabling or deleting cuts it off.  *)
(* ClientLifecycle implements this for operators that use the client's     *)
(* card and do not work on one client at a time (ClientLifecycleAccess).   *)
(***************************************************************************)
EXTENDS Sequences, Naturals

CONSTANTS
  Client, Key

VARIABLES
  shown,     \* the status that the panel shows of each client
  issued,    \* the keys of the configurations each client was given, oldest first
  accepted,  \* those keys that the server accepts
  changing,  \* clients that an operation is changing
  failed     \* clients whose last operation, but for refused ones, failed

accessVars == <<shown, issued, accepted, changing, failed>>

Current(c) == issued[c][Len(issued[c])]
Old(c) == {issued[c][i] : i \in 1..(Len(issued[c]) - 1)}
Accepted(c) == issued[c] # <<>> /\ Current(c) \in accepted
CutOff(c) == issued[c] # <<>> => Current(c) \notin accepted
Unissued == {k \in Key : \A c \in Client : \A i \in DOMAIN issued[c] : issued[c][i] # k}

Begins(c) ==
  /\ c \notin changing /\ changing' = changing \cup {c}
  /\ UNCHANGED <<shown, issued, accepted, failed>>

\* While an operation changes a client its access can be taken away, and given back
\* to a disabled one.
Cut(c) ==
  /\ c \in changing /\ issued[c] # <<>> /\ accepted' = accepted \ {Current(c)}
  /\ UNCHANGED <<shown, issued, changing, failed>>

Admit(c) ==
  /\ c \in changing /\ issued[c] # <<>> /\ shown[c] = "disabled"
  /\ accepted' = accepted \cup {Current(c)}
  /\ UNCHANGED <<shown, issued, changing, failed>>

Ends(c) == c \in changing /\ changing' = changing \ {c} /\ failed' = failed \ {c}

\* A new configuration, once the last one is cut off.
Issue(c, k) ==
  /\ shown[c] # "deleted" /\ CutOff(c) /\ k \in Unissued
  /\ Ends(c)
  /\ issued' = [issued EXCEPT ![c] = Append(@, k)] /\ accepted' = accepted \cup {k}
  /\ shown' = IF shown[c] = "absent" THEN [shown EXCEPT ![c] = "active"] ELSE shown

\* A client without a configuration of the panel's is shown active and has no access.
Enable(c) ==
  /\ shown[c] = "disabled" /\ (issued[c] # <<>> => Accepted(c))
  /\ Ends(c)
  /\ shown' = [shown EXCEPT ![c] = "active"] /\ UNCHANGED <<issued, accepted>>

\* A limit has run out.  What an operation that failed before has left behind stays.
Refuse(c) ==
  /\ c \in changing /\ shown[c] = "disabled" /\ changing' = changing \ {c}
  /\ UNCHANGED <<shown, issued, accepted, failed>>

Disable(c) ==
  /\ shown[c] \in {"active", "deleted"} /\ CutOff(c)
  /\ Ends(c)
  /\ shown' = [shown EXCEPT ![c] = "disabled"] /\ UNCHANGED <<issued, accepted>>

Delete(c) ==
  /\ shown[c] \in {"active", "disabled"} /\ CutOff(c)
  /\ Ends(c)
  /\ shown' = [shown EXCEPT ![c] = "deleted"] /\ UNCHANGED <<issued, accepted>>

\* An operation that fails changes nothing more; an active client may be left cut off.
GivesUp(c) ==
  /\ c \in changing /\ changing' = changing \ {c} /\ failed' = failed \cup {c}
  /\ UNCHANGED <<shown, issued, accepted>>

\* Peers the panel did not know become clients without a configuration.
Import(new) ==
  /\ \A c \in new : shown[c] = "absent"
  /\ shown' = [c \in Client |-> IF c \in new THEN "active" ELSE shown[c]]
  /\ UNCHANGED <<issued, accepted, changing, failed>>

\* The server starts again from its file, which the commands of a failed operation
\* may not have reached.
Restart(lost, regained) ==
  /\ lost \cup regained \subseteq {c \in failed : shown[c] # "deleted" /\ issued[c] # <<>>}
  /\ accepted' = (accepted \ {Current(c) : c \in lost}) \cup {Current(c) : c \in regained}
  /\ UNCHANGED <<shown, issued, changing, failed>>

AccessInit ==
  /\ shown = [c \in Client |-> "absent"] /\ issued = [c \in Client |-> <<>>]
  /\ accepted = {} /\ changing = {} /\ failed = {}

AccessNext ==
  \/ \E c \in Client :
       \/ Begins(c) \/ Cut(c) \/ Admit(c) \/ \E k \in Key : Issue(c, k)
       \/ Enable(c) \/ Refuse(c) \/ Disable(c) \/ Delete(c) \/ GivesUp(c)
  \/ \E new \in SUBSET Client : Import(new)
  \/ \E lost, regained \in SUBSET Client : Restart(lost, regained)

AccessSpec == AccessInit /\ [][AccessNext]_accessVars

-----------------------------------------------------------------------------
AccessTypeOK ==
  /\ shown \in [Client -> {"absent", "active", "disabled", "deleted"}]
  /\ issued \in [Client -> Seq(Key)]
  /\ accepted \subseteq Key /\ changing \subseteq Client /\ failed \subseteq Client

\* The panel's promise: a configuration that was reissued does not connect, an active
\* client that has one and whose last operation succeeded connects, a deleted one does
\* not.
Promise ==
  \A c \in Client :
    /\ Old(c) \cap accepted = {}
    /\ shown[c] = "active" /\ issued[c] # <<>> /\ c \notin changing \cup failed => Accepted(c)
    /\ shown[c] = "deleted" => CutOff(c)
=============================================================================
