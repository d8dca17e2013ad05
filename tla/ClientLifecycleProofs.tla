------------------------ MODULE ClientLifecycleProofs ------------------------
(***************************************************************************)
(* Proofs about ClientLifecycle, for any clients, workers, keys and pool,  *)
(* in three layers of inductive invariants:                                *)
(*   BaseInv     types, reasons and configurations, with no assumption;    *)
(*   StrongInv   a configuration replaced by a newer one never works       *)
(*               again, for the protocol whose interface is saved (AWG2);  *)
(*   AddressInv  one operation at a time keeps addresses apart.            *)
(***************************************************************************)
EXTENDS ClientLifecycle, TLAPS

(***************************************************************************)
(* What an operation in progress knows: enough to type its commit, and to  *)
(* see that it writes a status together with a reason that fits it.        *)
(***************************************************************************)
Sound(o) ==
  /\ o.pc # "idle" => o.client \in Client
  /\ o.pc # "idle" /\ o.kind = "create" => o.seen = Fresh
  /\ o.pc # "idle" /\ o.kind # "create" => row[o.client].status # "absent"
  /\ o.kind = "enforce" => o.seen.due # "active"
  /\ o.pc = "remove" => o.seen.key # NoKey
  /\ o.key # NoKey => o.addr # NoAddr
  /\ o.pc \in {"add", "endpoint"} => o.key # NoKey
  /\ o.pc = "commit" /\ o.kind \in Issuing => o.key # NoKey

AbsentHasNoConfig == \A c \in Client : row[c].status = "absent" => revs[c] = <<>>

\* The file of the protocol that is not saved keeps no peer.
UnsavedIsEmpty == ~ Persistent => \A k \in Key : saved[k] = NoPeer

BaseInv ==
  /\ TypeOK
  /\ UnsavedIsEmpty
  /\ \A w \in Worker : Sound(op[w])
  /\ AbsentHasNoConfig
  /\ ConfigMatchesKey
  /\ ReasonMatchesStatus

-----------------------------------------------------------------------------
LEMMA IdleIsSound == Idle \in Op /\ Sound(Idle)
  BY ConstantsAssumption
     DEF Idle, Absent, Sound, Op, Row, Status, DisableReason, LimitState, PC, Kind, Issuing

LEMMA FreshTyped ==
  /\ Fresh \in Row
  /\ Fresh = [status |-> "active", reason |-> "none", due |-> "active",
              key |-> NoKey, addr |-> NoAddr]
  BY DEF Fresh, Absent, Row, Status, DisableReason, LimitState

LEMMA InitBase == Init => BaseInv
<1> SUFFICES ASSUME Init PROVE BaseInv
  OBVIOUS
<1> USE ConstantsAssumption DEF Init, Absent
<1>1. TypeOK
  BY IdleIsSound DEF TypeOK, Row, Peers, Status, DisableReason, LimitState
<1>2. \A w \in Worker : Sound(op[w])
  BY IdleIsSound
<1>3. AbsentHasNoConfig /\ ConfigMatchesKey /\ ReasonMatchesStatus
  BY DEF AbsentHasNoConfig, ConfigMatchesKey, ReasonMatchesStatus
<1>4. UnsavedIsEmpty
  BY DEF UnsavedIsEmpty
<1> QED BY <1>1, <1>2, <1>3, <1>4 DEF BaseInv

(***************************************************************************)
(* A step that leaves the database alone and moves one operation on        *)
(* preserves the invariant if what the operation knows afterwards is sound.*)
(***************************************************************************)
LEMMA OpStepBase ==
  ASSUME BaseInv, NEW w \in Worker, NEW o \in Op, Sound(o),
         op' = [op EXCEPT ![w] = o], UNCHANGED <<row, revs>>,
         live' \in Peers, saved' \in Peers, Persistent \/ saved' = saved,
         used' \subseteq Key, failed' \subseteq Client, everDeleted' \subseteq Client
  PROVE  BaseInv'
<1>1. TypeOK'
  BY DEF BaseInv, TypeOK
<1>2. ASSUME NEW v \in Worker PROVE Sound(op[v])'
  <2>1. op'[v] = IF v = w THEN o ELSE op[v]
    BY DEF BaseInv, TypeOK
  <2> QED BY <2>1 DEF BaseInv, Sound
<1>3. (AbsentHasNoConfig /\ ConfigMatchesKey /\ ReasonMatchesStatus)'
  BY DEF BaseInv, AbsentHasNoConfig, ConfigMatchesKey, ReasonMatchesStatus
<1>4. UnsavedIsEmpty'
  BY DEF BaseInv, UnsavedIsEmpty
<1> QED BY <1>1, <1>2, <1>3, <1>4 DEF BaseInv

\* An exception inside an operation preserves the invariant.
LEMMA RollbackBase ==
  ASSUME BaseInv, NEW w \in Worker, op[w].pc # "idle", Rollback(w)
  PROVE  BaseInv'
<1>1. op[w].client \in Client
  BY DEF BaseInv, Sound
<1> QED BY <1>1, OpStepBase, IdleIsSound DEF Rollback, Finish, BaseInv, TypeOK

LEMMA BeginBase ==
  ASSUME BaseInv, NEW w \in Worker, NEW c \in Client, NEW request \in Request, Begin(w, c, request)
  PROVE  BaseInv'
<1> DEFINE kind == Service(request)
           seen == IF kind = "create" THEN Fresh ELSE row[c]
           back == kind = "enable" /\ PutsPeerBack(seen, c)
           new == [pc |-> FirstStep(kind, seen, c), kind |-> kind, client |-> c, seen |-> seen,
                   key |-> IF back THEN seen.key ELSE NoKey,
                   addr |-> IF back THEN seen.addr ELSE NoAddr, rev |-> 0]
<1>1. op' = [op EXCEPT ![w] = new]
  BY DEF Begin
<1>2. UNCHANGED <<row, revs, live, saved, used, failed, everDeleted>>
  BY DEF Begin
<1>3. kind \in Kind
  BY DEF Request, Service, Kind
<1>4. seen \in Row
  BY FreshTyped DEF BaseInv, TypeOK
<1>5. FirstStep(kind, seen, c) \in {"remove", "pick", "add", "commit"}
  BY <1>3 DEF FirstStep
<1>6. new \in Op
  BY <1>3, <1>4, <1>5 DEF Op, Row, PC
<1>7. /\ FirstStep(kind, seen, c) = "add" => back
      /\ FirstStep(kind, seen, c) = "remove" => seen.key # NoKey
      /\ FirstStep(kind, seen, c) = "commit" => kind \notin Issuing
  BY <1>3 DEF FirstStep, Issuing, Kind
<1>8. kind # "create" => row[c].status # "absent"
  BY DEF Begin, Permitted, Service, Request
<1>9. kind = "enforce" => seen.due # "active"
  BY DEF Begin, Permitted, Service, Request
<1>10. back => seen.key # NoKey /\ seen.addr # NoAddr
  BY DEF PutsPeerBack
<1>11. Sound(new)
  BY <1>5, <1>7, <1>8, <1>9, <1>10 DEF Sound
<1> HIDE DEF new
<1> QED BY <1>1, <1>2, <1>6, <1>11, OpStepBase DEF BaseInv, TypeOK

LEMMA RemovePeerBase ==
  ASSUME BaseInv, NEW w \in Worker, RemovePeer(w)
  PROVE  BaseInv'
<1> DEFINE o == [op[w] EXCEPT !.pc = "save"]
<1>1. op[w] \in Op /\ Sound(op[w])
  BY DEF BaseInv, TypeOK
<1>2. o \in Op /\ Sound(o)
  BY <1>1 DEF RemovePeer, Sound, Op, PC
<1>3. op' = [op EXCEPT ![w] = o]
  BY DEF RemovePeer
<1>4. live' \in Peers
  BY <1>1 DEF RemovePeer, BaseInv, TypeOK, Peers
<1> HIDE DEF o
<1> QED BY <1>2, <1>3, <1>4, OpStepBase DEF RemovePeer, BaseInv, TypeOK

LEMMA SaveRuntimeBase ==
  ASSUME BaseInv, NEW w \in Worker, SaveRuntime(w)
  PROVE  BaseInv'
<1> DEFINE o == [op[w] EXCEPT !.pc = IF op[w].kind \notin Issuing THEN "commit"
                                     ELSE IF op[w].key = NoKey THEN "pick" ELSE "endpoint"]
<1>1. op[w] \in Op /\ Sound(op[w])
  BY DEF BaseInv, TypeOK
<1>2. o \in Op /\ Sound(o)
  BY <1>1 DEF SaveRuntime, Sound, Op, PC
<1>3. op' = [op EXCEPT ![w] = o]
  BY DEF SaveRuntime
<1>4. saved' \in Peers
  BY DEF SaveRuntime, BaseInv, TypeOK
<1> HIDE DEF o
<1> QED BY <1>2, <1>3, <1>4, OpStepBase DEF SaveRuntime, BaseInv, TypeOK

LEMMA PickAddressBase ==
  ASSUME BaseInv, NEW w \in Worker, PickAddress(w)
  PROVE  BaseInv'
<1>1. PICK k \in Key \ used, a \in Addr :
        /\ used' = used \cup {k}
        /\ op' = [op EXCEPT ![w].pc = "add", ![w].key = k, ![w].addr = a]
  BY DEF PickAddress, FreeHosts
<1> DEFINE o == [op[w] EXCEPT !.pc = "add", !.key = k, !.addr = a]
<1>2. op[w] \in Op /\ Sound(op[w])
  BY DEF BaseInv, TypeOK
<1>3. o \in Op /\ Sound(o)
  BY <1>2, ConstantsAssumption DEF PickAddress, Sound, Op, PC
<1>4. op' = [op EXCEPT ![w] = o]
  BY <1>1, <1>2 DEF BaseInv, TypeOK, Op
<1>5. UNCHANGED <<row, revs, live, saved, failed, everDeleted>>
  BY DEF PickAddress
<1>6. used' \subseteq Key
  BY <1>1 DEF BaseInv, TypeOK
<1> HIDE DEF o
<1> QED BY <1>3, <1>4, <1>5, <1>6, OpStepBase DEF BaseInv, TypeOK

LEMMA AddPeerBase ==
  ASSUME BaseInv, NEW w \in Worker, AddPeer(w)
  PROVE  BaseInv'
<1> DEFINE o == [op[w] EXCEPT !.pc = "save"]
<1>1. op[w] \in Op /\ Sound(op[w])
  BY DEF BaseInv, TypeOK
<1>2. o \in Op /\ Sound(o)
  BY <1>1 DEF AddPeer, Sound, Op, PC
<1>3. op' = [op EXCEPT ![w] = o]
  BY DEF AddPeer
<1>4. live' \in Peers
  BY <1>1 DEF AddPeer, Connect, BaseInv, TypeOK, Peers, Op
<1> HIDE DEF o
<1> QED BY <1>2, <1>3, <1>4, OpStepBase DEF AddPeer, BaseInv, TypeOK

LEMMA ResolveEndpointBase ==
  ASSUME BaseInv, NEW w \in Worker, ResolveEndpoint(w)
  PROVE  BaseInv'
<1> DEFINE r == Len(revs[op[w].client]) + 1
           o == [op[w] EXCEPT !.pc = "commit", !.rev = r]
<1>1. op[w] \in Op /\ Sound(op[w])
  BY DEF BaseInv, TypeOK
<1>2. r \in Nat
  <2>1. revs[op[w].client] \in Seq(Revision)
    BY <1>1 DEF ResolveEndpoint, Sound, BaseInv, TypeOK
  <2> QED BY <2>1
<1> HIDE DEF r
<1>3. o \in Op /\ Sound(o)
  BY <1>1, <1>2 DEF ResolveEndpoint, Sound, Op, PC
<1>4. op' = [op EXCEPT ![w] = o]
  BY <1>1 DEF ResolveEndpoint, BaseInv, TypeOK, Op, r
<1> HIDE DEF o
<1> QED BY <1>3, <1>4, OpStepBase DEF ResolveEndpoint, BaseInv, TypeOK

(***************************************************************************)
(* The commit of create_client and reissue_config: the new revision and    *)
(* the row are written together.                                           *)
(***************************************************************************)
LEMMA CommitConfigBase ==
  ASSUME BaseInv, NEW w \in Worker, CommitConfig(w)
  PROVE  BaseInv'
<1> DEFINE o == op[w]
           c == o.client
           base == IF o.kind = "create" THEN o.seen ELSE row[c]
           r == [base EXCEPT !.key = o.key, !.addr = o.addr]
           v == [key |-> o.key, addr |-> o.addr]
<1>1. o \in Op /\ Sound(o) /\ c \in Client
  BY DEF CommitConfig, BaseInv, TypeOK, Sound
<1>2. o.key \in Key /\ o.addr \in Addr
  BY <1>1 DEF CommitConfig, Sound, Op
<1>3. base \in Row /\ base.status # "absent"
  BY <1>1, FreshTyped DEF CommitConfig, Sound, BaseInv, TypeOK
<1> HIDE DEF base
<1>4. /\ r \in Row /\ r.key = o.key /\ r.addr = o.addr
      /\ r.status = base.status /\ r.reason = base.reason
  BY <1>2, <1>3 DEF Row
<1>5. row' = [row EXCEPT ![c] = r] /\ revs' = [revs EXCEPT ![c] = Append(@, v)]
  BY DEF CommitConfig, base
<1>6. op' = [op EXCEPT ![w] = Idle]
  BY DEF CommitConfig, Finish
<1>7. v \in Revision /\ v.key = o.key /\ v.addr = o.addr
  BY <1>2 DEF Revision
<1> HIDE DEF r, v
<1>8. revs[c] \in Seq(Revision)
  BY <1>1 DEF BaseInv, TypeOK
<1>9. /\ Append(revs[c], v) \in Seq(Revision)
      /\ Append(revs[c], v)[Len(Append(revs[c], v))] = v
  BY <1>7, <1>8
<1>10. TypeOK'
  BY <1>1, <1>4, <1>5, <1>6, <1>9, IdleIsSound DEF CommitConfig, BaseInv, TypeOK
<1>11. \A d \in Client : /\ row'[d] = IF d = c THEN r ELSE row[d]
                         /\ revs'[d] = IF d = c THEN Append(revs[c], v) ELSE revs[d]
  BY <1>1, <1>5 DEF BaseInv, TypeOK
<1>12. ASSUME NEW u \in Worker PROVE Sound(op[u])'
  <2>1. op'[u] = IF u = w THEN Idle ELSE op[u]
    BY <1>6 DEF BaseInv, TypeOK
  <2>2. \A d \in Client : row[d].status # "absent" => row'[d].status # "absent"
    BY <1>3, <1>4, <1>11
  <2> QED BY <2>1, <2>2, IdleIsSound DEF BaseInv, Sound
<1>13. AbsentHasNoConfig'
  BY <1>3, <1>4, <1>11 DEF BaseInv, AbsentHasNoConfig
<1>14. ConfigMatchesKey'
  BY <1>4, <1>7, <1>9, <1>11 DEF BaseInv, ConfigMatchesKey
<1>15. ReasonMatchesStatus'
  <2>1. /\ base.status = "active" => base.reason = "none"
        /\ base.status = "disabled" => base.reason # "none"
    BY <1>1, FreshTyped DEF base, Sound, CommitConfig, BaseInv, ReasonMatchesStatus
  <2> QED BY <2>1, <1>4, <1>11 DEF BaseInv, ReasonMatchesStatus
<1>16. UnsavedIsEmpty'
  BY DEF CommitConfig, BaseInv, UnsavedIsEmpty
<1> QED BY <1>10, <1>12, <1>13, <1>14, <1>15, <1>16 DEF BaseInv

(***************************************************************************)
(* The commit of set_status: whatever the loaded object was, the status    *)
(* and the reason it writes fit each other, and identity is not touched.   *)
(***************************************************************************)
LEMMA CommitStatusBase ==
  ASSUME BaseInv, NEW w \in Worker, CommitStatus(w)
  PROVE  BaseInv'
<1> DEFINE o == op[w]
           c == o.client
           s == NewStatus(o)
           n == NewReason(o, row[c].reason)
           r == [row[c] EXCEPT !.status = s, !.reason = n]
<1>1. o \in Op /\ Sound(o) /\ c \in Client /\ row[c] \in Row
  BY DEF CommitStatus, BaseInv, TypeOK, Sound
<1>2. /\ s \in Status \ {"absent"} /\ n \in DisableReason
      /\ s = "active" => n = "none"
      /\ s = "disabled" => n # "none"
  BY <1>1 DEF CommitStatus, NewStatus, NewReason, Sound, Op, Row, Status, LimitState, DisableReason
<1> HIDE DEF s, n
<1>3. /\ r \in Row /\ r.status = s /\ r.reason = n
      /\ r.key = row[c].key /\ r.addr = row[c].addr
  BY <1>1, <1>2 DEF Row
<1>4. row' = [row EXCEPT ![c] = r]
  BY <1>1 DEF CommitStatus, BaseInv, TypeOK, s, n
<1> HIDE DEF r
<1>5. op' = [op EXCEPT ![w] = Idle]
  BY DEF CommitStatus, Finish
<1>6. TypeOK'
  BY <1>1, <1>3, <1>4, <1>5, IdleIsSound DEF CommitStatus, BaseInv, TypeOK
<1>7. /\ \A d \in Client : row'[d] = IF d = c THEN r ELSE row[d]
      /\ revs' = revs
  BY <1>1, <1>4 DEF CommitStatus, BaseInv, TypeOK
<1>8. ASSUME NEW u \in Worker PROVE Sound(op[u])'
  <2>1. op'[u] = IF u = w THEN Idle ELSE op[u]
    BY <1>5 DEF BaseInv, TypeOK
  <2>2. \A d \in Client : row[d].status # "absent" => row'[d].status # "absent"
    BY <1>2, <1>3, <1>7
  <2> QED BY <2>1, <2>2, IdleIsSound DEF BaseInv, Sound
<1>9. AbsentHasNoConfig' /\ ConfigMatchesKey' /\ ReasonMatchesStatus'
  BY <1>2, <1>3, <1>7 DEF BaseInv, AbsentHasNoConfig, ConfigMatchesKey, ReasonMatchesStatus
<1>10. UnsavedIsEmpty'
  BY DEF CommitStatus, BaseInv, UnsavedIsEmpty
<1> QED BY <1>6, <1>8, <1>9, <1>10 DEF BaseInv

(***************************************************************************)
(* A step outside the operations: rows may change, but a client that       *)
(* exists keeps existing, and one with a configuration keeps its identity. *)
(***************************************************************************)
LEMMA EnvironmentBase ==
  ASSUME BaseInv, row' \in [Client -> Row], live' \in Peers,
         UNCHANGED <<revs, saved, op, used, failed, everDeleted>>,
         \A c \in Client :
           \/ /\ row'[c].status = row[c].status /\ row'[c].reason = row[c].reason
              /\ row'[c].key = row[c].key /\ row'[c].addr = row[c].addr
           \/ row[c].status = "absent" /\ row'[c].status = "active" /\ row'[c].reason = "none"
  PROVE  BaseInv'
<1>1. TypeOK'
  BY DEF BaseInv, TypeOK
<1>2. \A w \in Worker : Sound(op[w])'
  BY DEF BaseInv, Sound
<1>3. AbsentHasNoConfig' /\ ConfigMatchesKey' /\ ReasonMatchesStatus'
  BY DEF BaseInv, AbsentHasNoConfig, ConfigMatchesKey, ReasonMatchesStatus
<1>4. UnsavedIsEmpty'
  BY DEF BaseInv, UnsavedIsEmpty
<1> QED BY <1>1, <1>2, <1>3, <1>4 DEF BaseInv

LEMMA LimitReachedBase ==
  ASSUME BaseInv, NEW c \in Client, NEW v \in Violations, LimitReached(c, v)
  PROVE  BaseInv'
<1>1. v \in LimitState
  BY ConstantsAssumption DEF LimitState
<1> QED BY <1>1, EnvironmentBase DEF LimitReached, BaseInv, TypeOK, Row

LEMMA UpdateLimitsBase ==
  ASSUME BaseInv, NEW c \in Client, UpdateLimits(c)
  PROVE  BaseInv'
BY EnvironmentBase DEF UpdateLimits, BaseInv, TypeOK, Row, LimitState

LEMMA ImportBase ==
  ASSUME BaseInv, ImportRuntimePeers
  PROVE  BaseInv'
<1>1. PICK peers \in VisiblePeers :
        LET new == Unmanaged(peers)
            free == {c \in Client : row[c].status = "absent" /\ ~ Busy(c)}
        IN \E name \in [new -> free] :
             /\ new # {} /\ \A j, k \in new : name[j] = name[k] => j = k
             /\ row' = [c \in Client |->
                  IF \E k \in new : name[k] = c
                  THEN LET k == CHOOSE k \in new : name[k] = c
                       IN [Fresh EXCEPT !.key = k, !.addr = peers[k]]
                  ELSE row[c]]
  BY DEF ImportRuntimePeers
<1> DEFINE new == Unmanaged(peers)
           free == {c \in Client : row[c].status = "absent" /\ ~ Busy(c)}
           chosen(name, c) == CHOOSE k \in new : name[k] = c
<1>2. PICK name \in [new -> free] :
        row' = [c \in Client |-> IF \E k \in new : name[k] = c
                                 THEN [Fresh EXCEPT !.key = chosen(name, c), !.addr = peers[chosen(name, c)]]
                                 ELSE row[c]]
  BY <1>1
<1>3. peers \in Peers
  BY DEF VisiblePeers, BaseInv, TypeOK
<1>4. ASSUME NEW c \in Client, \E k \in new : name[k] = c
      PROVE  /\ row'[c] \in Row /\ row'[c].status = "active" /\ row'[c].reason = "none"
             /\ row[c].status = "absent"
  <2> DEFINE k == chosen(name, c)
  <2>1. k \in new /\ name[k] = c
    BY <1>4
  <2>2. k \in Key /\ peers[k] \in Addr \cup {NoAddr}
    BY <2>1, <1>3 DEF Unmanaged, Peers
  <2>3. c \in free
    BY <2>1
  <2>4. row'[c] = [Fresh EXCEPT !.key = k, !.addr = peers[k]]
    BY <1>2, <1>4
  <2> HIDE DEF k
  <2> QED BY <2>2, <2>3, <2>4, FreshTyped DEF Row
<1>5. ASSUME NEW c \in Client, ~ \E k \in new : name[k] = c
      PROVE  row'[c] = row[c]
  BY <1>2, <1>5
<1>6. row' \in [Client -> Row]
  <2>1. \A c \in Client : row'[c] \in Row
    BY <1>4, <1>5 DEF BaseInv, TypeOK
  <2> QED BY <2>1, <1>2
<1>7. UNCHANGED <<revs, live, saved, op, used, failed, everDeleted>>
  BY DEF ImportRuntimePeers
<1>8. live' \in Peers
  BY <1>7 DEF BaseInv, TypeOK
<1> HIDE DEF new, free
<1> QED BY <1>4, <1>5, <1>6, <1>7, <1>8, EnvironmentBase

LEMMA RestartBase ==
  ASSUME BaseInv, RestartContainer
  PROVE  BaseInv'
BY EnvironmentBase DEF RestartContainer, BaseInv, TypeOK

LEMMA NextBase == BaseInv /\ [Next]_vars => BaseInv'
<1> SUFFICES ASSUME BaseInv, [Next]_vars PROVE BaseInv'
  OBVIOUS
<1>1. ASSUME NEW w \in Worker, Step(w) PROVE BaseInv'
  <2>1. CASE \E c \in Client, request \in Request : Begin(w, c, request)
    BY <2>1, BeginBase
  <2>2. CASE RemovePeer(w)
    BY <2>2, RemovePeerBase
  <2>3. CASE SaveRuntime(w)
    BY <2>3, SaveRuntimeBase
  <2>4. CASE PickAddress(w)
    BY <2>4, PickAddressBase
  <2>5. CASE AddPeer(w)
    BY <2>5, AddPeerBase
  <2>6. CASE ResolveEndpoint(w)
    BY <2>6, ResolveEndpointBase
  <2>7. CASE CommitConfig(w)
    BY <2>7, CommitConfigBase
  <2>8. CASE CommitStatus(w)
    BY <2>8, CommitStatusBase
  <2>9. CASE Fail(w) \/ PoolExhausted(w) \/ RevisionConflict(w)
    <3>1. op[w].pc # "idle" /\ Rollback(w)
      BY <2>9 DEF Fail, PoolExhausted, RevisionConflict
    <3> QED BY <3>1, RollbackBase
  <2> QED BY <1>1, <2>1, <2>2, <2>3, <2>4, <2>5, <2>6, <2>7, <2>8, <2>9 DEF Step
<1>2. ASSUME NEW c \in Client, UpdateLimits(c) \/ \E v \in Violations : LimitReached(c, v)
      PROVE  BaseInv'
  BY <1>2, UpdateLimitsBase, LimitReachedBase
<1>3. CASE ImportRuntimePeers
  BY <1>3, ImportBase
<1>4. CASE RestartContainer
  BY <1>4, RestartBase
<1>5. CASE UNCHANGED vars
  BY <1>5 DEF vars, BaseInv, TypeOK, UnsavedIsEmpty, Sound, AbsentHasNoConfig, ConfigMatchesKey, ReasonMatchesStatus
<1> QED BY <1>1, <1>2, <1>3, <1>4, <1>5 DEF Next

THEOREM BaseInvariant == Spec => []BaseInv
  BY InitBase, NextBase, PTL DEF Spec

-----------------------------------------------------------------------------
\* Every variable keeps its type; in particular no operation commits a revision
\* without a key and an address.
THEOREM TypeCorrect == Spec => []TypeOK
<1>1. BaseInv => TypeOK
  BY DEF BaseInv
<1> QED BY <1>1, BaseInvariant, PTL

\* The configuration a client downloads is for the peer its row names, with any
\* number of processes, overlapping operations, failures and restarts.
THEOREM ConfigAlwaysMatchesKey == Spec => []ConfigMatchesKey
<1>1. BaseInv => ConfigMatchesKey
  BY DEF BaseInv
<1> QED BY <1>1, BaseInvariant, PTL

\* The status and the reason of a client never come from two operations.
THEOREM ReasonAlwaysMatchesStatus == Spec => []ReasonMatchesStatus
<1>1. BaseInv => ReasonMatchesStatus
  BY DEF BaseInv
<1> QED BY <1>1, BaseInvariant, PTL

-----------------------------------------------------------------------------
(***************************************************************************)
(* A configuration replaced by a newer one never works again, if           *)
(* operations on one client do not overlap and a container with a file     *)
(* does not restart between a peer change and its save.  One without may   *)
(* restart at any time: its file is empty.                                 *)
(***************************************************************************)
Assumed ==
  /\ "exclusive" \in Discipline
  /\ Persistent => "quiet_restart" \in Discipline

RevisionKeys(c) == {revs[c][i].key : i \in 1..Len(revs[c])}

\* A key pair is generated once, so it appears in one revision of one client.
RevisionKeysUsed == \A c \in Client : RevisionKeys(c) \subseteq used

RevisionKeysDistinct ==
  \A c, d \in Client : \A i \in 1..Len(revs[c]), j \in 1..Len(revs[d]) :
    revs[c][i].key = revs[d][j].key => c = d /\ i = j

\* Past the removal of the peer the operation replaces.
Replacing(o) ==
  \/ o.pc \in {"pick", "add", "endpoint", "commit"}
  \/ o.pc = "save" /\ o.key # NoKey

(***************************************************************************)
(* What the loaded object and the new peer of an operation have to do with *)
(* the database and the interface.                                         *)
(***************************************************************************)
Linked(o) ==
  /\ o.pc \in {"remove", "pick"} => o.key = NoKey
  /\ o.pc \in {"pick", "endpoint"} => o.kind \in Issuing
  /\ o.pc = "add" => o.kind \in Issuing \cup {"enable"}
  /\ o.kind \in Issuing /\ o.key # NoKey =>
       o.key \in used /\ \A c \in Client : o.key \notin RevisionKeys(c)
  /\ o.kind = "create" /\ o.pc # "idle" => row[o.client].status = "absent"
  /\ o.kind = "enable" /\ o.pc # "idle" /\ o.key # NoKey =>
       o.key = row[o.client].key /\ revs[o.client] # <<>>
  /\ o.kind = "reissue" /\ o.pc # "idle" /\ revs[o.client] # <<>> =>
       /\ o.seen.key = row[o.client].key
       /\ o.pc = "save" /\ o.key = NoKey => live[o.seen.key] = NoPeer
       /\ Replacing(o) => Gone(o.seen.key)

\* Two operations are on two clients, and add two peers.
Apart(o, p) ==
  /\ o.client \in Client => o.client # p.client
  /\ o.kind \in Issuing /\ p.kind \in Issuing /\ o.key # NoKey => o.key # p.key

StrongInv ==
  /\ BaseInv
  /\ RevisionKeysUsed /\ RevisionKeysDistinct
  /\ \A w \in Worker : Linked(op[w])
  /\ \A u, w \in Worker : u # w => Apart(op[u], op[w])
  /\ SupersededNotLive

-----------------------------------------------------------------------------
LEMMA IdleIsLinked == Linked(Idle) /\ \A o : Apart(Idle, o) /\ Apart(o, Idle)
  BY ConstantsAssumption DEF Idle, Linked, Apart, Issuing

LEMMA InitStrong == Init => StrongInv
<1> SUFFICES ASSUME Init PROVE StrongInv
  OBVIOUS
<1>1. BaseInv
  BY InitBase
<1>2. \A c \in Client : RevisionKeys(c) = {} /\ Superseded(c) = {}
  BY DEF Init, RevisionKeys, Superseded
<1>3. RevisionKeysUsed /\ RevisionKeysDistinct /\ SupersededNotLive
  BY <1>2 DEF Init, RevisionKeysUsed, RevisionKeysDistinct, SupersededNotLive
<1>4. \A w \in Worker : op[w] = Idle
  BY DEF Init
<1>5. \A u, w \in Worker : Apart(op[u], op[w])
  BY <1>4, IdleIsLinked
<1> QED BY <1>1, <1>3, <1>4, <1>5, IdleIsLinked DEF StrongInv

\* The key of a client with a configuration is that of its last revision.
LEMMA RowKeyIsRevisionKey ==
  ASSUME BaseInv, NEW c \in Client, revs[c] # <<>>
  PROVE  /\ Len(revs[c]) \in 1..Len(revs[c])
         /\ row[c].key = revs[c][Len(revs[c])].key
         /\ row[c].key \in RevisionKeys(c) /\ row[c].key \in Key
<1>1. revs[c] \in Seq(Revision)
  BY DEF BaseInv, TypeOK
<1>2. Len(revs[c]) \in 1..Len(revs[c])
  BY <1>1
<1>3. revs[c][Len(revs[c])] \in Revision
  BY <1>1, <1>2
<1>4. row[c].key = revs[c][Len(revs[c])].key
  BY DEF BaseInv, ConfigMatchesKey
<1> QED BY <1>2, <1>3, <1>4 DEF RevisionKeys, Revision

LEMMA SupersededIsRevisionKey ==
  ASSUME BaseInv, NEW c \in Client
  PROVE  /\ Superseded(c) \subseteq RevisionKeys(c)
         /\ RevisionKeys(c) \subseteq Key
<1>1. revs[c] \in Seq(Revision)
  BY DEF BaseInv, TypeOK
<1>2. Len(revs[c]) \in Nat /\ \A i \in 1..Len(revs[c]) : revs[c][i] \in Revision
  BY <1>1
<1>3. 1..(Len(revs[c]) - 1) \subseteq 1..Len(revs[c])
  BY <1>2
<1> QED BY <1>2, <1>3 DEF Superseded, RevisionKeys, Revision

\* A client's current key is not superseded, for it or for another client.
LEMMA CurrentNotSuperseded ==
  ASSUME StrongInv, NEW c \in Client, revs[c] # <<>>, NEW d \in Client
  PROVE  row[c].key \notin Superseded(d)
<1> SUFFICES ASSUME NEW i \in 1..(Len(revs[d]) - 1), revs[d][i].key = row[c].key
             PROVE  FALSE
  BY DEF Superseded
<1>1. Len(revs[d]) \in Nat
  BY DEF StrongInv, BaseInv, TypeOK
<1>2. i \in 1..Len(revs[d]) /\ i # Len(revs[d])
  BY <1>1
<1>3. c = d /\ i = Len(revs[c])
  BY <1>2, RowKeyIsRevisionKey DEF StrongInv, RevisionKeysDistinct
<1> QED BY <1>2, <1>3

\* The current keys of two clients with configurations differ.
LEMMA CurrentKeysDiffer ==
  ASSUME StrongInv, NEW c \in Client, NEW d \in Client, c # d, revs[c] # <<>>, revs[d] # <<>>
  PROVE  row[c].key # row[d].key
  BY RowKeyIsRevisionKey DEF StrongInv, RevisionKeysDistinct

(***************************************************************************)
(* A step of one operation that leaves the database alone.  It may bring   *)
(* back one peer, t, which is neither superseded nor being replaced.       *)
(***************************************************************************)
LEMMA OpStepStrong ==
  ASSUME StrongInv, BaseInv', NEW w \in Worker, NEW o,
         op' = [op EXCEPT ![w] = o], UNCHANGED <<row, revs>>, used \subseteq used',
         Linked(o)', \A u \in Worker \ {w} : Apart(op[u], o) /\ Apart(o, op[u]),
         NEW t,
         \A c \in Client : t \notin Superseded(c),
         \A u \in Worker \ {w} :
           op[u].pc # "idle" /\ revs[op[u].client] # <<>> => row[op[u].client].key # t,
         \A k \in Key \ {t} : /\ live[k] = NoPeer => live'[k] = NoPeer
                              /\ Gone(k) => Gone(k)'
  PROVE  StrongInv'
<1>1. \A u \in Worker : op'[u] = IF u = w THEN o ELSE op[u]
  BY DEF StrongInv, BaseInv, TypeOK
<1>2. /\ \A c \in Client : Superseded(c)' = Superseded(c) /\ RevisionKeys(c)' = RevisionKeys(c)
      /\ RevisionKeysDistinct'
  BY DEF Superseded, RevisionKeys, StrongInv, RevisionKeysDistinct
<1>3. RevisionKeysUsed'
  BY <1>2 DEF StrongInv, RevisionKeysUsed
<1>4. ASSUME NEW u \in Worker PROVE Linked(op[u])'
  <2>1. CASE u = w
    BY <1>1, <2>1
  <2>2. CASE u # w
    <3>0. PICK p : p = op[u]
      OBVIOUS
    <3>1. op'[u] = p /\ Linked(p) /\ Sound(p)
      BY <3>0, <1>1, <2>2 DEF StrongInv, BaseInv
    <3>2. ASSUME p.kind = "reissue", p.pc # "idle", revs[p.client] # <<>>
          PROVE  /\ p.seen.key = row[p.client].key
                 /\ p.pc = "save" /\ p.key = NoKey => live'[p.seen.key] = NoPeer
                 /\ Replacing(p) => Gone(p.seen.key)'
      <4>1. p.seen.key = row[p.client].key /\ p.client \in Client
        BY <3>1, <3>2 DEF Linked, Sound
      <4>2. p.seen.key \in Key \ {t}
        BY <4>1, <3>0, <3>2, <2>2, RowKeyIsRevisionKey DEF StrongInv
      <4> QED BY <3>1, <3>2, <4>1, <4>2 DEF Linked
    <3>3. Linked(p)'
      BY <3>1, <3>2, <1>2 DEF Linked, Replacing
    <3> QED BY <3>1, <3>3
  <2> QED BY <2>1, <2>2
<1>5. \A u, v \in Worker : u # v => Apart(op[u], op[v])'
  <2>1. \A u, v \in Worker : u # v => Apart(op'[u], op'[v])
    BY <1>1 DEF StrongInv
  <2> QED BY <2>1 DEF Apart
<1>6. SupersededNotLive'
  <2>1. \A c \in Client : \A k \in Superseded(c) : k \in Key \ {t} /\ Gone(k)
    BY SupersededIsRevisionKey DEF StrongInv, SupersededNotLive
  <2> QED BY <2>1, <1>2 DEF SupersededNotLive
<1> QED BY <1>2, <1>3, <1>4, <1>5, <1>6 DEF StrongInv

(***************************************************************************)
(* A step that leaves configurations and the interface alone, ends some    *)
(* operations, and does not change the key or the existence of the clients *)
(* of the others.                                                          *)
(***************************************************************************)
LEMMA RowStepStrong ==
  ASSUME StrongInv, BaseInv', UNCHANGED <<revs, live, saved, used>>,
         \A u \in Worker :
           \/ op'[u] = Idle
           \/ /\ op'[u] = op[u]
              /\ op[u].pc # "idle" =>
                   /\ row'[op[u].client].key = row[op[u].client].key
                   /\ row[op[u].client].status = "absent" => row'[op[u].client].status = "absent"
  PROVE  StrongInv'
<1>1. /\ \A c \in Client : Superseded(c)' = Superseded(c) /\ RevisionKeys(c)' = RevisionKeys(c)
      /\ \A k : Gone(k)' = Gone(k)
      /\ RevisionKeysDistinct'
  BY DEF Superseded, RevisionKeys, Gone, StrongInv, RevisionKeysDistinct
<1>2. RevisionKeysUsed' /\ SupersededNotLive'
  BY <1>1 DEF StrongInv, RevisionKeysUsed, SupersededNotLive
<1>3. ASSUME NEW u \in Worker PROVE Linked(op[u])'
  <2>1. CASE op'[u] = Idle
    BY <2>1, IdleIsLinked DEF Linked, Idle, Issuing
  <2>2. CASE op'[u] # Idle
    <3>0. PICK p : p = op[u]
      OBVIOUS
    <3>1. /\ op'[u] = p /\ Linked(p)
          /\ p.pc # "idle" =>
               /\ row'[p.client].key = row[p.client].key
               /\ row[p.client].status = "absent" => row'[p.client].status = "absent"
      BY <3>0, <2>2 DEF StrongInv
    <3>2. Linked(p)'
      BY <3>1, <1>1 DEF Linked, Replacing
    <3> QED BY <3>1, <3>2
  <2> QED BY <2>1, <2>2
<1>4. \A u, v \in Worker : u # v => Apart(op[u], op[v])'
  <2>1. \A u, v \in Worker : u # v => Apart(op'[u], op'[v])
    BY IdleIsLinked DEF StrongInv
  <2> QED BY <2>1 DEF Apart
<1> QED BY <1>1, <1>2, <1>3, <1>4 DEF StrongInv
\* A step of one operation that brings no peer back.
LEMMA QuietStepStrong ==
  ASSUME StrongInv, BaseInv', NEW w \in Worker, NEW o,
         op' = [op EXCEPT ![w] = o], UNCHANGED <<row, revs>>, used \subseteq used',
         Linked(o)', \A u \in Worker \ {w} : Apart(op[u], o) /\ Apart(o, op[u]),
         \A k \in Key : /\ live[k] = NoPeer => live'[k] = NoPeer
                        /\ Gone(k) => Gone(k)'
  PROVE  StrongInv'
<1>1. \A c \in Client : NoKey \notin Superseded(c)
  BY SupersededIsRevisionKey, ConstantsAssumption DEF StrongInv
<1>2. ASSUME NEW u \in Worker, op[u].pc # "idle", revs[op[u].client] # <<>>
      PROVE  row[op[u].client].key # NoKey
  BY <1>2, RowKeyIsRevisionKey, ConstantsAssumption DEF StrongInv, BaseInv, Sound
<1> QED BY <1>1, <1>2, OpStepStrong

\* The facts about one operation, as a constant, that its steps start from.
LEMMA OpFacts ==
  ASSUME StrongInv, NEW w \in Worker
  PROVE  /\ op[w] \in Op /\ Sound(op[w]) /\ Linked(op[w])
         /\ \A u \in Worker \ {w} : Apart(op[u], op[w]) /\ Apart(op[w], op[u])
  BY DEF StrongInv, BaseInv, TypeOK

LEMMA BeginStrong ==
  ASSUME Assumed, StrongInv, BaseInv', NEW w \in Worker, NEW c \in Client, NEW request \in Request,
         Begin(w, c, request)
  PROVE  StrongInv'
<1> DEFINE kind == Service(request)
           seen == IF kind = "create" THEN Fresh ELSE row[c]
           back == kind = "enable" /\ PutsPeerBack(seen, c)
           new == [pc |-> FirstStep(kind, seen, c), kind |-> kind, client |-> c, seen |-> seen,
                   key |-> IF back THEN seen.key ELSE NoKey,
                   addr |-> IF back THEN seen.addr ELSE NoAddr, rev |-> 0]
<1>1. op' = [op EXCEPT ![w] = new]
  BY DEF Begin
<1>2. UNCHANGED <<row, revs, live, saved, used>>
  BY DEF Begin
<1>3. /\ kind \in Kind
      /\ kind = "create" => row[c].status = "absent"
  BY DEF Begin, Request, Service, Kind, Permitted
<1>4. \A u \in Worker : op[u].client # c
  BY DEF Begin, Busy, Assumed
<1>5. /\ FirstStep(kind, seen, c) \in {"remove", "pick", "add", "commit"}
      /\ FirstStep(kind, seen, c) = "add" => back
      /\ back => FirstStep(kind, seen, c) = "add"
      /\ FirstStep(kind, seen, c) = "pick" => kind \in Issuing
      /\ kind = "reissue" /\ seen.key # NoKey => FirstStep(kind, seen, c) = "remove"
  BY <1>3 DEF FirstStep, Issuing, Kind
<1>6. back => seen = row[c] /\ revs[c] # <<>>
  BY DEF PutsPeerBack
<1>7. kind = "reissue" /\ revs[c] # <<>> => seen.key = row[c].key /\ seen.key # NoKey
  BY RowKeyIsRevisionKey, ConstantsAssumption DEF StrongInv
<1>8. PICK o : o = new
  OBVIOUS
<1>9. /\ o.pc = FirstStep(kind, seen, c) /\ o.kind = kind /\ o.client = c /\ o.seen = seen
      /\ o.key = IF back THEN seen.key ELSE NoKey
  BY <1>8
<1> HIDE DEF new, kind, seen, back
<1>10. kind = "enable" <=> kind \notin Issuing /\ kind = "enable"
  BY DEF Issuing
<1>11. back => kind = "enable"
  BY DEF back
<1>12. Linked(o)
  BY <1>3, <1>5, <1>6, <1>7, <1>9, <1>11 DEF Linked, Replacing, Issuing
<1>13. Linked(o)'
  BY <1>2, <1>12 DEF Linked, Replacing, Gone, RevisionKeys
<1>14. \A u \in Worker \ {w} : Apart(op[u], o) /\ Apart(o, op[u])
  BY <1>4, <1>9, <1>11 DEF Apart, Issuing
<1>15. op' = [op EXCEPT ![w] = o]
  BY <1>1, <1>8
<1> QED BY <1>2, <1>13, <1>14, <1>15, QuietStepStrong DEF Gone

LEMMA RemovePeerStrong ==
  ASSUME StrongInv, BaseInv', NEW w \in Worker, RemovePeer(w)
  PROVE  StrongInv'
<1>1. PICK p : p = op[w]
  OBVIOUS
<1>2. PICK o : o = [p EXCEPT !.pc = "save"]
  OBVIOUS
<1>3. /\ p \in Op /\ Sound(p) /\ Linked(p) /\ p.pc = "remove"
      /\ \A u \in Worker \ {w} : Apart(op[u], p) /\ Apart(p, op[u])
  BY <1>1, OpFacts DEF RemovePeer
<1>4. /\ o.pc = "save" /\ o.kind = p.kind /\ o.client = p.client /\ o.seen = p.seen
      /\ o.key = p.key
  BY <1>2, <1>3 DEF Op
<1>5. op' = [op EXCEPT ![w] = o]
  BY <1>1, <1>2 DEF RemovePeer
<1>6. p.seen.key \in Key
  BY <1>3 DEF Sound, Op, Row
<1>7. /\ \A k \in Key : live'[k] = IF k = p.seen.key THEN NoPeer ELSE live[k]
      /\ UNCHANGED <<row, revs, saved, used>>
  BY <1>1 DEF RemovePeer, StrongInv, BaseInv, TypeOK, Peers
<1>8. Linked(o)'
  BY <1>3, <1>4, <1>6, <1>7 DEF Linked, Replacing, RevisionKeys
<1>9. \A u \in Worker \ {w} : Apart(op[u], o) /\ Apart(o, op[u])
  BY <1>3, <1>4 DEF Apart
<1> QED BY <1>5, <1>7, <1>8, <1>9, QuietStepStrong DEF Gone

LEMMA SaveRuntimeStrong ==
  ASSUME Assumed, StrongInv, BaseInv', NEW w \in Worker, SaveRuntime(w)
  PROVE  StrongInv'
<1>1. PICK p : p = op[w]
  OBVIOUS
<1>2. PICK o : o = [p EXCEPT !.pc = IF p.kind \notin Issuing THEN "commit"
                                    ELSE IF p.key = NoKey THEN "pick" ELSE "endpoint"]
  OBVIOUS
<1>3. /\ p \in Op /\ Sound(p) /\ Linked(p) /\ p.pc = "save"
      /\ \A u \in Worker \ {w} : Apart(op[u], p) /\ Apart(p, op[u])
  BY <1>1, OpFacts DEF SaveRuntime
<1>4. /\ o.pc = IF p.kind \notin Issuing THEN "commit"
                ELSE IF p.key = NoKey THEN "pick" ELSE "endpoint"
      /\ o.kind = p.kind /\ o.client = p.client /\ o.seen = p.seen /\ o.key = p.key
  BY <1>2, <1>3 DEF Op
<1>5. op' = [op EXCEPT ![w] = o]
  BY <1>1, <1>2 DEF SaveRuntime
<1>6. /\ saved' = IF Persistent THEN live ELSE saved
      /\ UNCHANGED <<row, revs, live, used>>
  BY DEF SaveRuntime
<1>7. Linked(o)'
  <2>1. ASSUME NEW k \in Key, live[k] = NoPeer PROVE Gone(k)'
    BY <1>6, <2>1 DEF Gone, StrongInv, BaseInv, UnsavedIsEmpty
  <2>2. p.kind = "reissue" /\ revs[p.client] # <<>> => p.seen.key \in Key
    <3>1. p.client \in Client /\ (p.kind = "reissue" /\ revs[p.client] # <<>> => p.seen.key = row[p.client].key)
      BY <1>3 DEF Linked, Sound
    <3> QED
      BY <1>3, <3>1, RowKeyIsRevisionKey DEF Op, Row, StrongInv
  <2>3. ASSUME o.kind = "reissue", revs[o.client] # <<>> PROVE Gone(o.seen.key)'
    <3>1. live[o.seen.key] = NoPeer
      BY <1>3, <1>4, <2>3 DEF Linked, Replacing, Gone
    <3> QED
      BY <1>4, <2>1, <2>2, <2>3, <3>1
  <2>4. o.pc # "remove" /\ o.pc # "save" /\ o.pc # "add"
    BY <1>4
  <2> QED
    BY <1>3, <1>4, <1>6, <2>3, <2>4 DEF Linked, RevisionKeys, Issuing
<1>8. \A u \in Worker \ {w} : Apart(op[u], o) /\ Apart(o, op[u])
  BY <1>3, <1>4 DEF Apart
<1> QED BY <1>5, <1>6, <1>7, <1>8, QuietStepStrong DEF Gone

LEMMA PickAddressStrong ==
  ASSUME StrongInv, BaseInv', NEW w \in Worker, PickAddress(w)
  PROVE  StrongInv'
<1>1. PICK p : p = op[w]
  OBVIOUS
<1>2. PICK k \in Key \ used, a \in Addr :
        /\ used' = used \cup {k}
        /\ op' = [op EXCEPT ![w].pc = "add", ![w].key = k, ![w].addr = a]
  BY DEF PickAddress, FreeHosts
<1>3. PICK o : o = [p EXCEPT !.pc = "add", !.key = k, !.addr = a]
  OBVIOUS
<1>4. /\ p \in Op /\ Sound(p) /\ Linked(p) /\ p.pc = "pick"
      /\ \A u \in Worker \ {w} : /\ Apart(op[u], p) /\ Apart(p, op[u])
                                 /\ op[u].key # NoKey /\ op[u].kind \in Issuing => op[u].key \in used
  BY <1>1, OpFacts DEF PickAddress, StrongInv, Linked
<1>5. /\ o.pc = "add" /\ o.kind = p.kind /\ o.client = p.client /\ o.seen = p.seen
      /\ o.key = k
  BY <1>3, <1>4 DEF Op
<1>6. op' = [op EXCEPT ![w] = o]
  BY <1>1, <1>2, <1>3 DEF StrongInv, BaseInv, TypeOK, Op
<1>7. UNCHANGED <<row, revs, live, saved>>
  BY DEF PickAddress
<1>8. k # NoKey /\ \A c \in Client : k \notin RevisionKeys(c)
  BY ConstantsAssumption DEF StrongInv, RevisionKeysUsed
<1>9. Linked(o)'
  BY <1>2, <1>4, <1>5, <1>7, <1>8 DEF Linked, Replacing, RevisionKeys, Gone, Issuing
<1>10. \A u \in Worker \ {w} : Apart(op[u], o) /\ Apart(o, op[u])
  BY <1>4, <1>5, <1>8 DEF Apart
<1> QED BY <1>2, <1>6, <1>7, <1>9, <1>10, QuietStepStrong DEF Gone

LEMMA AddPeerStrong ==
  ASSUME StrongInv, BaseInv', NEW w \in Worker, AddPeer(w)
  PROVE  StrongInv'
<1>1. PICK p : p = op[w]
  OBVIOUS
<1>2. PICK o : o = [p EXCEPT !.pc = "save"]
  OBVIOUS
<1>3. /\ p \in Op /\ Sound(p) /\ Linked(p) /\ p.pc = "add" /\ p.client \in Client
      /\ \A u \in Worker \ {w} : Apart(op[u], p) /\ Apart(p, op[u])
  BY <1>1, OpFacts DEF AddPeer, Sound
<1>4. /\ o.pc = "save" /\ o.kind = p.kind /\ o.client = p.client /\ o.seen = p.seen
      /\ o.key = p.key
  BY <1>2, <1>3 DEF Op
<1>5. op' = [op EXCEPT ![w] = o]
  BY <1>1, <1>2 DEF AddPeer
<1>6. p.key \in Key /\ p.addr \in Addr /\ p.addr # NoPeer
  BY <1>3, ConstantsAssumption DEF Sound, Op
<1>7. UNCHANGED <<row, revs, saved, used>>
  BY DEF AddPeer
<1>8. \A k \in Key : k # p.key /\ live[k] = NoPeer => live'[k] = NoPeer
  BY <1>1, <1>6 DEF AddPeer, Connect
<1>9. p.kind = "enable" => p.key = row[p.client].key /\ revs[p.client] # <<>>
  BY <1>3, <1>6, ConstantsAssumption DEF Linked
<1>10. p.kind \in Issuing => \A c \in Client : p.key \notin RevisionKeys(c)
  BY <1>3, <1>6, ConstantsAssumption DEF Linked
<1>11. p.kind \in Issuing \/ p.kind = "enable"
  BY <1>3 DEF Linked
<1>12. \A c \in Client : p.key \notin Superseded(c)
  BY <1>3, <1>9, <1>10, <1>11, CurrentNotSuperseded, SupersededIsRevisionKey DEF StrongInv
<1>13. ASSUME NEW u \in Worker \ {w}, op[u].pc # "idle", revs[op[u].client] # <<>>
       PROVE  row[op[u].client].key # p.key
  <2>1. op[u].client \in Client /\ op[u].client # p.client
    BY <1>3, <1>13 DEF Apart, StrongInv, BaseInv, Sound
  <2>2. CASE p.kind \in Issuing
    BY <2>1, <2>2, <1>10, <1>13, RowKeyIsRevisionKey DEF StrongInv
  <2>3. CASE p.kind = "enable"
    BY <2>1, <2>3, <1>3, <1>9, <1>13, CurrentKeysDiffer
  <2> QED BY <2>2, <2>3, <1>11
<1>14. \A k \in Key \ {p.key} : /\ live[k] = NoPeer => live'[k] = NoPeer
                                /\ Gone(k) => Gone(k)'
  BY <1>7, <1>8 DEF Gone
<1>15. ASSUME p.kind = "reissue", revs[p.client] # <<>>
       PROVE  /\ p.seen.key = row[p.client].key /\ Gone(p.seen.key)'
  <2>1. p.seen.key = row[p.client].key /\ Gone(p.seen.key)
    BY <1>3, <1>15 DEF Linked, Replacing
  <2>2. p.seen.key \in Key \ {p.key}
    BY <2>1, <1>3, <1>10, <1>15, RowKeyIsRevisionKey DEF StrongInv, Issuing
  <2> QED BY <2>1, <2>2, <1>14
<1>16. Linked(o)'
  BY <1>3, <1>4, <1>6, <1>7, <1>15, ConstantsAssumption DEF Linked, Replacing, RevisionKeys, Issuing
<1>17. \A u \in Worker \ {w} : Apart(op[u], o) /\ Apart(o, op[u])
  BY <1>3, <1>4 DEF Apart
<1> QED BY <1>5, <1>7, <1>12, <1>13, <1>14, <1>16, <1>17, OpStepStrong

LEMMA ResolveEndpointStrong ==
  ASSUME StrongInv, BaseInv', NEW w \in Worker, ResolveEndpoint(w)
  PROVE  StrongInv'
<1>1. PICK p : p = op[w]
  OBVIOUS
<1>2. PICK r : r = Len(revs[p.client]) + 1
  OBVIOUS
<1>3. PICK o : o = [p EXCEPT !.pc = "commit", !.rev = r]
  OBVIOUS
<1>4. /\ p \in Op /\ Sound(p) /\ Linked(p) /\ p.pc = "endpoint"
      /\ \A u \in Worker \ {w} : Apart(op[u], p) /\ Apart(p, op[u])
  BY <1>1, OpFacts DEF ResolveEndpoint
<1>5. /\ o.pc = "commit" /\ o.kind = p.kind /\ o.client = p.client /\ o.seen = p.seen
      /\ o.key = p.key
  BY <1>3, <1>4 DEF Op
<1>6. op' = [op EXCEPT ![w] = o]
  BY <1>1, <1>2, <1>3, OpFacts DEF ResolveEndpoint, Op, StrongInv, BaseInv, TypeOK
<1>7. UNCHANGED <<row, revs, live, saved, used>>
  BY DEF ResolveEndpoint
<1>8. Linked(o)'
  BY <1>4, <1>5, <1>7 DEF Linked, Replacing, RevisionKeys, Gone, Issuing
<1>9. \A u \in Worker \ {w} : Apart(op[u], o) /\ Apart(o, op[u])
  BY <1>4, <1>5 DEF Apart
<1> QED BY <1>6, <1>7, <1>8, <1>9, QuietStepStrong DEF Gone
(***************************************************************************)
(* The commit of a configuration: the key it replaces is gone already, and *)
(* no operation in progress brings it back.                                *)
(***************************************************************************)
LEMMA CommitConfigStrong ==
  ASSUME StrongInv, BaseInv', NEW w \in Worker, CommitConfig(w)
  PROVE  StrongInv'
<1>1. PICK p : p = op[w]
  OBVIOUS
<1>2. PICK c : c = p.client
  OBVIOUS
<1>3. PICK n : n = Len(revs[c])
  OBVIOUS
<1>4. /\ p \in Op /\ Sound(p) /\ Linked(p) /\ p.pc = "commit" /\ p.kind \in Issuing
      /\ \A u \in Worker \ {w} : Apart(op[u], p) /\ Apart(p, op[u])
  BY <1>1, OpFacts DEF CommitConfig
<1>5. c \in Client /\ p.key \in Key /\ p.key # NoKey
  BY <1>2, <1>4, ConstantsAssumption DEF Sound, Op
<1>6. /\ revs[c] \in Seq(Revision) /\ n \in Nat
      /\ revs[c] # <<>> => n # 0
  BY <1>3, <1>5 DEF StrongInv, BaseInv, TypeOK
<1>7. PICK v : v = [key |-> p.key, addr |-> p.addr]
  OBVIOUS
<1>8. /\ revs' = [revs EXCEPT ![c] = Append(@, v)]
      /\ UNCHANGED <<live, saved, used>>
      /\ op' = [op EXCEPT ![w] = Idle]
      /\ \A d \in Client \ {c} : row'[d] = row[d]
  BY <1>1, <1>2, <1>7 DEF CommitConfig, Finish, StrongInv, BaseInv, TypeOK
<1>9. /\ \A d \in Client \ {c} : revs'[d] = revs[d]
      /\ Len(revs'[c]) = n + 1
      /\ \A i \in 1..n : revs'[c][i] = revs[c][i]
      /\ revs'[c][n + 1] = v
  <2>1. /\ \A d \in Client \ {c} : revs'[d] = revs[d]
        /\ revs'[c] = Append(revs[c], v)
    BY <1>5, <1>8 DEF StrongInv, BaseInv, TypeOK
  <2>2. v \in Revision
    BY <1>4, <1>5, <1>7 DEF Sound, Op, Revision
  <2>3. /\ Len(Append(revs[c], v)) = n + 1
        /\ \A i \in 1..n : Append(revs[c], v)[i] = revs[c][i]
        /\ Append(revs[c], v)[n + 1] = v
    BY <1>3, <1>6, <2>2
  <2> QED BY <2>1, <2>3
<1>10. /\ \A d \in Client \ {c} : RevisionKeys(d)' = RevisionKeys(d)
       /\ RevisionKeys(c)' = RevisionKeys(c) \cup {p.key}
  BY <1>3, <1>6, <1>7, <1>9 DEF RevisionKeys
<1>11. /\ \A d \in Client \ {c} : Superseded(d)' = Superseded(d)
       /\ revs[c] = <<>> => Superseded(c)' = {}
       /\ revs[c] # <<>> => Superseded(c)' = Superseded(c) \cup {row[c].key}
  <2>1. \A d \in Client \ {c} : Superseded(d)' = Superseded(d)
    BY <1>9 DEF Superseded
  <2>2. Superseded(c)' = {revs[c][i].key : i \in 1..n}
    BY <1>6, <1>9 DEF Superseded
  <2>3. ASSUME revs[c] # <<>>
        PROVE  Superseded(c)' = Superseded(c) \cup {row[c].key}
    <3>1. n \in 1..n /\ 1..n = 1..(n - 1) \cup {n} /\ row[c].key = revs[c][n].key
      BY <2>3, <1>3, <1>5, <1>6, RowKeyIsRevisionKey DEF StrongInv
    <3> QED BY <2>2, <3>1, <1>3 DEF Superseded
  <2>4. revs[c] = <<>> => n = 0
    BY <1>3
  <2> QED BY <2>1, <2>2, <2>3, <2>4
<1>12. p.key \in used /\ \A d \in Client : p.key \notin RevisionKeys(d)
  BY <1>4, <1>5 DEF Linked
<1>13. RevisionKeysUsed'
  BY <1>8, <1>10, <1>12 DEF StrongInv, RevisionKeysUsed
<1>14. RevisionKeysDistinct'
  <2> SUFFICES ASSUME NEW d \in Client, NEW e \in Client,
                      NEW i \in 1..Len(revs'[d]), NEW j \in 1..Len(revs'[e]),
                      revs'[d][i].key = revs'[e][j].key
               PROVE  d = e /\ i = j
    BY DEF RevisionKeysDistinct
  <2>1. \A f \in Client : \A k \in 1..Len(revs'[f]) :
          \/ /\ k \in 1..Len(revs[f]) /\ revs'[f][k].key = revs[f][k].key
             /\ revs'[f][k].key \in RevisionKeys(f)
          \/ f = c /\ k = n + 1 /\ revs'[f][k].key = p.key
    BY <1>3, <1>6, <1>7, <1>9 DEF RevisionKeys
  <2>2. CASE revs'[d][i].key = p.key
    <3>1. d = c /\ i = n + 1
      BY <2>1, <2>2, <1>12
    <3>2. e = c /\ j = n + 1
      BY <2>1, <2>2, <1>12
    <3> QED BY <3>1, <3>2
  <2>3. CASE revs'[d][i].key # p.key
    BY <2>1, <2>3, <1>12 DEF StrongInv, RevisionKeysDistinct
  <2> QED BY <2>2, <2>3
<1>15. ASSUME NEW u \in Worker PROVE Linked(op[u])'
  <2>1. CASE u = w
    <3>1. op'[u] = Idle
      BY <1>8, <2>1 DEF StrongInv, BaseInv, TypeOK
    <3> QED BY <3>1, IdleIsLinked DEF Linked, Idle, Issuing
  <2>2. CASE u # w
    <3>1. PICK q : q = op[u]
      OBVIOUS
    <3>2. op'[u] = q /\ Linked(q) /\ Sound(q) /\ Apart(q, p)
      BY <3>1, <2>2, <1>4, <1>8 DEF StrongInv, BaseInv, TypeOK
    <3>3. q.pc # "idle" => q.client \in Client \ {c}
      BY <3>2, <1>2 DEF Sound, Apart
    <3>4. q.pc # "idle" => row'[q.client] = row[q.client] /\ revs'[q.client] = revs[q.client]
      BY <3>3, <1>8, <1>9
    <3>5. q.kind \in Issuing /\ q.key # NoKey =>
            q.key # p.key /\ \A d \in Client : q.key \notin RevisionKeys(d)'
      BY <3>2, <1>4, <1>10 DEF Linked, Apart
    <3>6. Linked(q)'
      BY <3>2, <3>4, <3>5, <1>8 DEF Linked, Replacing, Gone
    <3> QED BY <3>2, <3>6
  <2> QED BY <2>1, <2>2
<1>16. \A u, x \in Worker : u # x => Apart(op[u], op[x])'
  <2>1. \A u \in Worker : op'[u] = IF u = w THEN Idle ELSE op[u]
    BY <1>8 DEF StrongInv, BaseInv, TypeOK
  <2>2. \A u, x \in Worker : u # x => Apart(op'[u], op'[x])
    BY <2>1, IdleIsLinked DEF StrongInv
  <2> QED BY <2>2 DEF Apart
<1>17. SupersededNotLive'
  <2>1. revs[c] # <<>> => Gone(row[c].key)
    <3>1. ASSUME revs[c] # <<>> PROVE p.kind = "reissue"
      BY <3>1, <1>2, <1>4, <1>5 DEF Linked, Issuing, StrongInv, BaseInv, AbsentHasNoConfig
    <3> QED BY <3>1, <1>2, <1>4 DEF Linked, Replacing
  <2>2. \A d \in Client : \A k \in Superseded(d)' : Gone(k)
    BY <2>1, <1>11 DEF StrongInv, SupersededNotLive
  <2> QED BY <2>2, <1>8 DEF SupersededNotLive, Gone
<1> QED BY <1>13, <1>14, <1>15, <1>16, <1>17 DEF StrongInv

LEMMA CommitStatusStrong ==
  ASSUME StrongInv, BaseInv', NEW w \in Worker, CommitStatus(w)
  PROVE  StrongInv'
<1>1. op[w].client \in Client
  BY OpFacts DEF CommitStatus, Sound
<1>2. /\ UNCHANGED <<revs, live, saved, used>>
      /\ op' = [op EXCEPT ![w] = Idle]
      /\ \A d \in Client : d # op[w].client => row'[d] = row[d]
  BY DEF CommitStatus, Finish, StrongInv, BaseInv, TypeOK
<1>3. \A u \in Worker : \/ op'[u] = Idle
                        \/ op'[u] = op[u] /\ u # w
  BY <1>2 DEF StrongInv, BaseInv, TypeOK
<1>4. ASSUME NEW u \in Worker, u # w, op[u].pc # "idle" PROVE row'[op[u].client] = row[op[u].client]
  <2>1. op[u].client \in Client /\ op[u].client # op[w].client
    BY <1>4 DEF StrongInv, BaseInv, Sound, Apart
  <2> QED BY <2>1, <1>2
<1> QED BY <1>2, <1>3, <1>4, RowStepStrong

LEMMA RollbackStrong ==
  ASSUME StrongInv, BaseInv', NEW w \in Worker, Rollback(w)
  PROVE  StrongInv'
<1>1. /\ UNCHANGED <<row, revs, live, saved, used>>
      /\ \A u \in Worker : op'[u] = Idle \/ op'[u] = op[u]
  BY DEF Rollback, Finish, StrongInv, BaseInv, TypeOK
<1> QED BY <1>1, RowStepStrong

LEMMA LimitsStrong ==
  ASSUME StrongInv, BaseInv', NEW c \in Client,
         UpdateLimits(c) \/ \E v \in Violations : LimitReached(c, v)
  PROVE  StrongInv'
<1>1. UNCHANGED <<revs, live, saved, used, op>>
  BY DEF UpdateLimits, LimitReached
<1>2. \A d \in Client : row'[d].key = row[d].key /\ row'[d].status = row[d].status
  <2>1. PICK v : row' = [row EXCEPT ![c].due = v]
    BY DEF UpdateLimits, LimitReached
  <2> QED BY <2>1 DEF StrongInv, BaseInv, TypeOK, Row
<1>3. \A u \in Worker : op[u].pc # "idle" => op[u].client \in Client
  BY DEF StrongInv, BaseInv, Sound
<1> QED BY <1>1, <1>2, <1>3, RowStepStrong

LEMMA ImportStrong ==
  ASSUME Assumed, StrongInv, BaseInv', ImportRuntimePeers
  PROVE  StrongInv'
<1>1. UNCHANGED <<revs, live, saved, used, op>>
  BY DEF ImportRuntimePeers
<1>2. \A u \in Worker : op[u].pc = "idle"
  BY DEF ImportRuntimePeers, Assumed
<1> QED BY <1>1, <1>2, RowStepStrong

(***************************************************************************)
(* No operation is between a peer change and its save, so a superseded or  *)
(* replaced key that is off the interface is out of the file as well.  A   *)
(* protocol that is not saved comes back with no peer at all.              *)
(***************************************************************************)
LEMMA RestartStrong ==
  ASSUME Assumed, StrongInv, BaseInv', RestartContainer
  PROVE  StrongInv'
<1>1. live' = saved /\ UNCHANGED <<row, revs, saved, op, used>>
  BY DEF RestartContainer
<1>2. Persistent => \A u \in Worker : op[u].pc # "save"
  BY DEF RestartContainer, Assumed
<1>3. \A k : Gone(k) => Gone(k)'
  BY <1>1 DEF Gone
<1>4. /\ RevisionKeysUsed' /\ RevisionKeysDistinct'
      /\ \A c \in Client : Superseded(c)' = Superseded(c)
  BY <1>1 DEF RevisionKeysUsed, RevisionKeysDistinct, RevisionKeys, Superseded, StrongInv
<1>5. ASSUME NEW u \in Worker PROVE Linked(op[u])'
  <2>1. PICK p : p = op[u]
    OBVIOUS
  <2>2. Linked(p) /\ Sound(p) /\ (Persistent => p.pc # "save") /\ op'[u] = p
    BY <2>1, <1>1, <1>2 DEF StrongInv, BaseInv
  <2>3. p.kind = "reissue" /\ p.pc = "save" /\ p.key = NoKey /\ revs[p.client] # <<>> => live'[p.seen.key] = NoPeer
    <3> SUFFICES ASSUME p.kind = "reissue", p.pc = "save", p.key = NoKey, revs[p.client] # <<>>
                 PROVE  live'[p.seen.key] = NoPeer
      OBVIOUS
    <3>1. p.client \in Client /\ p.seen.key = row[p.client].key
      BY <2>2 DEF Linked, Sound
    <3>2. p.seen.key \in Key
      BY <3>1, RowKeyIsRevisionKey DEF StrongInv
    <3> QED
      BY <2>2, <3>2, <1>1 DEF StrongInv, BaseInv, UnsavedIsEmpty
  <2>4. Linked(p)'
    BY <2>2, <2>3, <1>1, <1>3 DEF Linked, Replacing, RevisionKeys
  <2> QED BY <2>2, <2>4
<1>6. \A u, x \in Worker : u # x => Apart(op[u], op[x])'
  BY <1>1 DEF StrongInv, Apart
<1>7. SupersededNotLive'
  BY <1>3, <1>4 DEF StrongInv, SupersededNotLive
<1> QED BY <1>4, <1>5, <1>6, <1>7 DEF StrongInv

LEMMA NextStrong == Assumed /\ StrongInv /\ [Next]_vars => StrongInv'
<1> SUFFICES ASSUME Assumed, StrongInv, [Next]_vars PROVE StrongInv'
  OBVIOUS
<1>0. BaseInv'
  BY NextBase DEF StrongInv
<1>1. ASSUME NEW w \in Worker, Step(w) PROVE StrongInv'
  <2>1. CASE \E c \in Client, request \in Request : Begin(w, c, request)
    BY <2>1, <1>0, BeginStrong
  <2>2. CASE RemovePeer(w)
    BY <2>2, <1>0, RemovePeerStrong
  <2>3. CASE SaveRuntime(w)
    BY <2>3, <1>0, SaveRuntimeStrong
  <2>4. CASE PickAddress(w)
    BY <2>4, <1>0, PickAddressStrong
  <2>5. CASE AddPeer(w)
    BY <2>5, <1>0, AddPeerStrong
  <2>6. CASE ResolveEndpoint(w)
    BY <2>6, <1>0, ResolveEndpointStrong
  <2>7. CASE CommitConfig(w)
    BY <2>7, <1>0, CommitConfigStrong
  <2>8. CASE CommitStatus(w)
    BY <2>8, <1>0, CommitStatusStrong
  <2>9. CASE Fail(w) \/ PoolExhausted(w) \/ RevisionConflict(w)
    BY <2>9, <1>0, RollbackStrong DEF Fail, PoolExhausted, RevisionConflict
  <2> QED BY <1>1, <2>1, <2>2, <2>3, <2>4, <2>5, <2>6, <2>7, <2>8, <2>9 DEF Step
<1>2. ASSUME NEW c \in Client, UpdateLimits(c) \/ \E v \in Violations : LimitReached(c, v)
      PROVE  StrongInv'
  BY <1>0, <1>2, LimitsStrong
<1>3. CASE ImportRuntimePeers
  BY <1>0, <1>3, ImportStrong
<1>4. CASE RestartContainer
  BY <1>0, <1>4, RestartStrong
<1>5. CASE UNCHANGED vars
  <2>1. \A u \in Worker : op'[u] = op[u]
    BY <1>5 DEF vars
  <2> QED BY <1>0, <1>5, <2>1, RowStepStrong DEF vars
<1> QED BY <1>1, <1>2, <1>3, <1>4, <1>5 DEF Next

-----------------------------------------------------------------------------
\* After reissue_config has replaced a client's configuration, the old key is
\* never again a peer of the interface or of its saved file: failures between
\* any two steps, other clients' operations and restarts included, whether the
\* protocol's changes are saved or not.
THEOREM SupersededNeverLive == ASSUME Assumed PROVE Spec => []SupersededNotLive
<1>1. Init => StrongInv
  BY InitStrong
<1>2. StrongInv /\ [Next]_vars => StrongInv'
  BY NextStrong
<1>3. StrongInv => SupersededNotLive
  BY DEF StrongInv
<1> QED BY <1>1, <1>2, <1>3, PTL DEF Spec

-----------------------------------------------------------------------------
(***************************************************************************)
(* Addresses.  One operation at a time gives a new peer an address that is *)
(* in nobody's row, and the peers that failed operations leave behind - no *)
(* row has their keys until an import makes them clients - keep addresses  *)
(* of their own.  A client that is restored after deletion brings its old  *)
(* address back, whoever has it now.                                       *)
(***************************************************************************)
Held(c) == row[c].status \in {"active", "disabled"}
Reserved(a) == \E c \in Client : Held(c) /\ row[c].addr = a
Orphan(k) == \A c \in Client : row[c].key # k

\* Every key in the panel or on the interface was generated.
RowKeysUsed == \A c \in Client : row[c].key # NoKey => row[c].key \in used
PeersUsed == \A k \in Key \ used : Gone(k)

DeletedRemembered == \A c \in Client : row[c].status = "deleted" => c \in everDeleted
RowsHaveKeys == \A c \in Client : row[c].status = "absent" <=> row[c].key = NoKey

OneAddressEach(peers) == \A j, k \in Key : peers[j] = peers[k] /\ peers[j] \in Addr => j = k

OrphansApart(peers) ==
  \A k \in Key, c \in Client \ everDeleted :
    Orphan(k) /\ peers[k] \in Addr /\ Held(c) => row[c].addr # peers[k]

\* What the file remembers of orphans is on the interface, or given to a client since.
SavedOrphans ==
  \A k \in Key : Orphan(k) /\ saved[k] \in Addr =>
    /\ \A x \in Key : Orphan(x) /\ live[x] = saved[k] => x = k
    /\ live[k] = saved[k] \/ Reserved(saved[k])

\* A container without a file has restarted, and has no peers.
Cleared == ~ Persistent /\ live = saved

(***************************************************************************)
(* What the only operation relies on: its new address is not reserved, no  *)
(* other orphan is saved with it, its peer is on the interface unless a    *)
(* restart took it off, and the peer it replaces is gone.                  *)
(***************************************************************************)
Placing(o) ==
  /\ o.pc \in {"remove", "pick"} => o.key = NoKey
  /\ o.pc \in {"pick", "endpoint"} => o.kind \in Issuing
  /\ o.pc = "add" => o.kind \in Issuing \cup {"enable"}
  /\ o.pc # "idle" /\ o.kind = "create" => row[o.client].status = "absent"
  /\ o.pc # "idle" /\ o.kind # "create" => o.seen.key = row[o.client].key
  /\ o.pc # "idle" /\ o.kind \in Issuing /\ o.key # NoKey =>
       /\ o.key \in used /\ Orphan(o.key) /\ ~ Reserved(o.addr)
       /\ o.pc \in {"add", "save"} => \A k \in Key \ {o.key} : Orphan(k) => saved[k] # o.addr
       /\ o.pc = "add" => Gone(o.key)
       /\ o.pc # "add" => live[o.key] = o.addr \/ Cleared
  /\ o.pc # "idle" /\ o.kind = "reissue" =>
       /\ o.pc = "save" /\ o.key = NoKey => live[o.seen.key] = NoPeer
       /\ Replacing(o) => Gone(o.seen.key)
  /\ o.pc # "idle" /\ o.kind = "enable" /\ o.key # NoKey =>
       /\ o.key = row[o.client].key /\ o.addr = row[o.client].addr
       /\ row[o.client].status = "disabled"
  /\ o.pc = "endpoint" \/ (o.pc = "commit" /\ o.kind # "enable") => ~ Persistent \/ saved = live

PeerAddresses ==
  /\ PeersUsed /\ OneAddressEach(live) /\ OneAddressEach(saved)
  /\ OrphansApart(live) /\ OrphansApart(saved) /\ SavedOrphans

RowFacts == RowKeysUsed /\ DeletedRemembered /\ RowsHaveKeys /\ SharedAddressOnlyAfterDelete

AddressInv ==
  /\ BaseInv /\ RowFacts /\ PeerAddresses
  /\ \A w \in Worker : Placing(op[w])

OneWorker == \A u, w \in Worker : u = w

-----------------------------------------------------------------------------
LEMMA AddressFacts ==
  ASSUME AddressInv, NEW w \in Worker
  PROVE  op[w] \in Op /\ Sound(op[w]) /\ Placing(op[w]) /\ (op[w].pc # "idle" => op[w].client \in Client)
BY DEF AddressInv, BaseInv, TypeOK, Sound

\* A file that is never written remembers nobody.
LEMMA NothingSaved ==
  ASSUME BaseInv, ~ Persistent
  PROVE  (\A k \in Key : saved[k] \notin Addr) /\ (Cleared => \A k \in Key : live[k] = NoPeer)
BY ConstantsAssumption DEF BaseInv, UnsavedIsEmpty, Cleared

\* A step that leaves the rows alone.
LEMMA SameRows ==
  ASSUME UNCHANGED <<row, everDeleted>>
  PROVE  /\ \A k : Orphan(k)' <=> Orphan(k)
         /\ \A a : Reserved(a)' <=> Reserved(a)
         /\ \A c : Held(c)' <=> Held(c)
BY DEF Orphan, Reserved, Held

LEMMA OpStepAddress ==
  ASSUME OneWorker, AddressInv, BaseInv', NEW w \in Worker, NEW o \in Op, op' = [op EXCEPT ![w] = o],
         UNCHANGED <<row, everDeleted>>, used \subseteq used', PeerAddresses', Placing(o)'
  PROVE  AddressInv'
PROOF
<1>1. \A u \in Worker : op'[u] = o
  BY DEF OneWorker, AddressInv, BaseInv, TypeOK
<1>2. RowFacts'
  BY DEF AddressInv, RowFacts, RowKeysUsed, DeletedRemembered, RowsHaveKeys, SharedAddressOnlyAfterDelete
<1> QED
  BY <1>1, <1>2 DEF AddressInv

LEMMA SamePeersAddress ==
  ASSUME AddressInv, UNCHANGED <<row, everDeleted, live, saved>>, used \subseteq used'
  PROVE  PeerAddresses'
BY SameRows DEF AddressInv, PeerAddresses, PeersUsed, Gone, OneAddressEach, OrphansApart, SavedOrphans

LEMMA BeginAddress ==
  ASSUME OneWorker, AddressInv, BaseInv', NEW w \in Worker, NEW c \in Client, NEW request \in Request,
         Begin(w, c, request)
  PROVE  AddressInv'
PROOF
<1> DEFINE kind == Service(request)
           seen == IF kind = "create" THEN Fresh ELSE row[c]
           back == kind = "enable" /\ PutsPeerBack(seen, c)
           new == [pc |-> FirstStep(kind, seen, c), kind |-> kind, client |-> c, seen |-> seen,
                   key |-> IF back THEN seen.key ELSE NoKey,
                   addr |-> IF back THEN seen.addr ELSE NoAddr, rev |-> 0]
<1>1. op' = [op EXCEPT ![w] = new] /\ UNCHANGED <<row, revs, live, saved, used, everDeleted>>
  BY DEF Begin
<1>2. kind \in Kind /\ seen \in Row /\ (kind # "create" => seen = row[c])
  BY FreshTyped DEF Request, Service, Kind, AddressInv, BaseInv, TypeOK
<1>3. /\ kind # "create" => row[c].status # "absent" /\ seen.key # NoKey
      /\ kind = "create" => row[c].status = "absent"
  BY <1>2 DEF Begin, Permitted, Service, Request, AddressInv, RowFacts, RowsHaveKeys
<1>4. /\ FirstStep(kind, seen, c) \in {"remove", "pick", "add", "commit"}
      /\ FirstStep(kind, seen, c) = "add" => back
      /\ FirstStep(kind, seen, c) = "pick" => kind \in Issuing
      /\ kind \notin {"create", "enable"} => FirstStep(kind, seen, c) = "remove"
      /\ FirstStep(kind, seen, c) = "remove" => kind # "enable"
      /\ FirstStep(kind, seen, c) = "commit" => kind = "enable"
  BY <1>2, <1>3 DEF FirstStep, Issuing, Kind
<1>5. back => kind = "enable" /\ seen.status = "disabled"
  BY DEF PutsPeerBack
<1>6. new \in Op
  BY <1>2, <1>4 DEF Op, Row, PC
<1>7. PICK o \in Op : o = new
  BY <1>6
<1>8. /\ o.pc = FirstStep(kind, seen, c) /\ o.kind = kind /\ o.client = c /\ o.seen = seen
      /\ o.key = (IF back THEN seen.key ELSE NoKey) /\ o.addr = (IF back THEN seen.addr ELSE NoAddr)
  BY <1>7
<1>9. op' = [op EXCEPT ![w] = o]
  BY <1>1, <1>7
<1> HIDE DEF new, kind, seen, back
<1>10. Placing(o)'
  BY <1>1, <1>2, <1>3, <1>4, <1>5, <1>8 DEF Placing, Replacing, Issuing
<1> QED
  BY <1>1, <1>9, <1>10, SamePeersAddress, OpStepAddress

LEMMA RemovePeerAddress ==
  ASSUME OneWorker, AddressInv, BaseInv', NEW w \in Worker, RemovePeer(w)
  PROVE  AddressInv'
PROOF
<1>1. PICK p \in Op : p = op[w]
  BY AddressFacts
<1>2. PICK o \in Op : o = [p EXCEPT !.pc = "save"]
  BY DEF Op, PC
<1>3. Sound(p) /\ Placing(p) /\ p.pc = "remove" /\ p.client \in Client
  BY <1>1, AddressFacts DEF RemovePeer
<1>4. /\ o.pc = "save" /\ o.kind = p.kind /\ o.client = p.client /\ o.seen = p.seen
      /\ o.key = NoKey /\ p.key = NoKey
  BY <1>2, <1>3 DEF Op, Placing
<1>5. op' = [op EXCEPT ![w] = o] /\ UNCHANGED <<row, saved, used, everDeleted>>
  BY <1>1, <1>2 DEF RemovePeer
<1>6. p.seen.key \in Key /\ ~ Orphan(p.seen.key)
  BY <1>3, FreshTyped DEF Sound, Op, Row, Placing, Orphan
<1>7. \A k \in Key : live'[k] = IF k = p.seen.key THEN NoPeer ELSE live[k]
  BY <1>1 DEF RemovePeer, AddressInv, BaseInv, TypeOK, Peers
<1>8. Placing(o)'
  BY <1>3, <1>4, <1>5, <1>6, <1>7 DEF Placing, Replacing
<1>9. PeerAddresses'
  <2>1. PeersUsed' /\ OneAddressEach(live)' /\ OneAddressEach(saved)'
    BY <1>5, <1>7, ConstantsAssumption DEF AddressInv, PeerAddresses, PeersUsed, Gone, OneAddressEach
  <2>2. OrphansApart(live)' /\ OrphansApart(saved)'
    BY <1>5, <1>6, <1>7, SameRows DEF AddressInv, PeerAddresses, OrphansApart
  <2>3. SavedOrphans'
    BY <1>5, <1>6, <1>7, SameRows DEF AddressInv, PeerAddresses, SavedOrphans
  <2> QED
    BY <2>1, <2>2, <2>3 DEF PeerAddresses
<1> QED
  BY <1>5, <1>8, <1>9, OpStepAddress

LEMMA SaveRuntimeAddress ==
  ASSUME Assumed, OneWorker, AddressInv, BaseInv', NEW w \in Worker, SaveRuntime(w)
  PROVE  AddressInv'
PROOF
<1>1. PICK p \in Op : p = op[w]
  BY AddressFacts
<1>2. PICK o \in Op : o = [p EXCEPT !.pc = IF p.kind \notin Issuing THEN "commit"
                                            ELSE IF p.key = NoKey THEN "pick" ELSE "endpoint"]
  BY DEF Op, PC
<1>3. Placing(p) /\ p.pc = "save"
  BY <1>1, AddressFacts DEF SaveRuntime
<1>4. /\ o.pc = IF p.kind \notin Issuing THEN "commit"
                ELSE IF p.key = NoKey THEN "pick" ELSE "endpoint"
      /\ o.kind = p.kind /\ o.client = p.client /\ o.seen = p.seen /\ o.key = p.key /\ o.addr = p.addr
  BY <1>2 DEF Op
<1>5. /\ op' = [op EXCEPT ![w] = o] /\ UNCHANGED <<row, live, used, everDeleted>>
      /\ saved' = IF Persistent THEN live ELSE saved
  BY <1>1, <1>2 DEF SaveRuntime
<1>6. CASE Persistent
  <2>1. Placing(o)'
    BY <1>3, <1>4, <1>5, <1>6, SameRows DEF Placing, Replacing, Issuing, Gone, Cleared
  <2>2. PeerAddresses'
    BY <1>5, <1>6, SameRows
       DEF AddressInv, PeerAddresses, PeersUsed, Gone, OneAddressEach, OrphansApart, SavedOrphans
  <2> QED
    BY <1>5, <2>1, <2>2, OpStepAddress
<1>7. CASE ~ Persistent
  <2>1. ASSUME p.kind = "reissue" PROVE p.seen.key \in Key
    BY <1>1, <1>3, <2>1, AddressFacts, ConstantsAssumption
       DEF Placing, Sound, AddressInv, RowFacts, RowsHaveKeys, Op, Row
  <2>2. \A k \in Key : saved[k] = NoPeer
    BY <1>7 DEF AddressInv, BaseInv, UnsavedIsEmpty
  <2>3. UNCHANGED <<live, saved>>
    BY <1>5, <1>7
  <2>4. Placing(o)'
    BY <1>3, <1>4, <1>5, <1>7, <2>1, <2>2, <2>3, SameRows DEF Placing, Replacing, Issuing, Gone, Cleared
  <2> QED
    BY <1>5, <2>3, <2>4, SamePeersAddress, OpStepAddress
<1> QED
  BY <1>6, <1>7

\* Whichever peers the operation looked at, no saved orphan has the address it picks.
LEMMA PickAddressAddress ==
  ASSUME OneWorker, AddressInv, BaseInv', NEW w \in Worker, PickAddress(w)
  PROVE  AddressInv'
PROOF
<1>1. PICK p \in Op : p = op[w]
  BY AddressFacts
<1>2. PICK k \in Key \ used, peers \in VisiblePeers : \E a \in FreeHosts(peers) :
        /\ used' = used \cup {k}
        /\ op' = [op EXCEPT ![w].pc = "add", ![w].key = k, ![w].addr = a]
  BY DEF PickAddress
<1>3. PICK a \in FreeHosts(peers) :
        /\ used' = used \cup {k}
        /\ op' = [op EXCEPT ![w].pc = "add", ![w].key = k, ![w].addr = a]
  BY <1>2
<1>4. /\ a \in Addr /\ ~ Reserved(a) /\ \A x \in Key : peers[x] # a
      /\ peers = live \/ peers = saved
  BY DEF FreeHosts, TakenBy, Reserved, Held, VisiblePeers
<1>5. PICK o \in Op : o = [p EXCEPT !.pc = "add", !.key = k, !.addr = a]
  BY <1>4 DEF Op, PC
<1>6. Placing(p) /\ p.pc = "pick"
  BY <1>1, AddressFacts DEF PickAddress
<1>7. /\ o.pc = "add" /\ o.kind = p.kind /\ o.client = p.client /\ o.seen = p.seen
      /\ o.key = k /\ o.addr = a
  BY <1>5 DEF Op
<1>8. op' = [op EXCEPT ![w] = o]
  BY <1>1, <1>3, <1>5 DEF AddressInv, BaseInv, TypeOK, Op
<1>9. UNCHANGED <<row, live, saved, everDeleted>>
  BY DEF PickAddress
<1>10. p.kind \in Issuing
  BY <1>6 DEF Placing
<1>11. k # NoKey /\ Orphan(k) /\ Gone(k)
  BY ConstantsAssumption DEF AddressInv, RowFacts, PeerAddresses, RowKeysUsed, PeersUsed, Orphan
<1>12. \A x \in Key : Orphan(x) => saved[x] # a
  BY <1>4 DEF AddressInv, PeerAddresses, SavedOrphans
<1>13. Placing(o)'
  BY <1>3, <1>4, <1>6, <1>7, <1>9, <1>10, <1>11, <1>12, SameRows DEF Placing, Replacing, Issuing, Gone
<1> QED
  BY <1>3, <1>8, <1>9, <1>13, SamePeersAddress, OpStepAddress

\* The interface moves the address to the added peer: that of a disabled client, or one
\* that nobody reserves.
LEMMA AddPeerAddress ==
  ASSUME OneWorker, AddressInv, BaseInv', NEW w \in Worker, AddPeer(w)
  PROVE  AddressInv'
PROOF
<1>1. PICK p \in Op : p = op[w]
  BY AddressFacts
<1>2. PICK o \in Op : o = [p EXCEPT !.pc = "save"]
  BY DEF Op, PC
<1>3. Sound(p) /\ Placing(p) /\ p.pc = "add" /\ p.client \in Client
  BY <1>1, AddressFacts DEF AddPeer
<1>4. /\ o.pc = "save" /\ o.kind = p.kind /\ o.client = p.client /\ o.seen = p.seen
      /\ o.key = p.key /\ o.addr = p.addr
  BY <1>2 DEF Op
<1>5. op' = [op EXCEPT ![w] = o] /\ UNCHANGED <<row, saved, used, everDeleted>>
  BY <1>1, <1>2 DEF AddPeer
<1>6. p.key \in Key /\ p.key # NoKey /\ p.addr \in Addr /\ p.addr # NoPeer
  BY <1>3, ConstantsAssumption DEF Sound, Op
<1>7. \A k \in Key : live'[k] = IF k = p.key THEN p.addr ELSE IF live[k] = p.addr THEN NoAddr ELSE live[k]
  BY <1>1 DEF AddPeer, Connect
<1>8. /\ p.kind \in Issuing => /\ p.key \in used /\ Orphan(p.key) /\ ~ Reserved(p.addr) /\ Gone(p.key)
                               /\ \A k \in Key \ {p.key} : Orphan(k) => saved[k] # p.addr
      /\ p.kind = "enable" => /\ p.key = row[p.client].key /\ p.addr = row[p.client].addr
                              /\ row[p.client].status = "disabled"
      /\ p.kind \in Issuing \/ p.kind = "enable"
  BY <1>3, <1>6 DEF Placing
<1>9. p.kind = "enable" => ~ Orphan(p.key) /\ Reserved(p.addr) /\ p.key \in used
  BY <1>3, <1>6, <1>8 DEF Orphan, Reserved, Held, AddressInv, RowFacts, RowKeysUsed
<1>10. NoAddr \notin Addr /\ NoPeer \notin Addr /\ NoAddr # NoPeer
  BY ConstantsAssumption
<1>11. Placing(o)'
  <2>1. o.kind = "reissue" => o.seen.key # p.key /\ o.seen.key \in Key
    <3>1. o.kind = "reissue" => o.seen.key = row[p.client].key /\ row[p.client].key # NoKey
      BY <1>3, <1>4 DEF Placing, Sound, AddressInv, RowFacts, RowsHaveKeys
    <3> QED
      BY <1>3, <1>4, <1>8, <3>1 DEF Orphan, Issuing, Op, Row
  <2> QED
    BY <1>3, <1>4, <1>5, <1>6, <1>7, <1>8, <1>10, <2>1, SameRows DEF Placing, Replacing, Issuing, Gone
<1>12. PeerAddresses'
  <2>1. PeersUsed'
    BY <1>5, <1>6, <1>7, <1>8, <1>9, <1>10 DEF AddressInv, PeerAddresses, PeersUsed, Gone
  <2>2. OneAddressEach(live)' /\ OneAddressEach(saved)'
    BY <1>5, <1>6, <1>7, <1>10 DEF AddressInv, PeerAddresses, OneAddressEach
  <2>3. OrphansApart(live)'
    <3> SUFFICES ASSUME NEW k \in Key, NEW c \in Client \ everDeleted,
                        Orphan(k), live'[k] \in Addr, Held(c)
                 PROVE  row[c].addr # live'[k]
      BY <1>5, SameRows DEF OrphansApart
    <3>1. CASE k = p.key
      BY <1>6, <1>7, <1>8, <1>9, <3>1 DEF Reserved
    <3>2. CASE k # p.key
      BY <1>7, <1>10, <3>2 DEF AddressInv, PeerAddresses, OrphansApart
    <3> QED
      BY <3>1, <3>2
  <2>4. OrphansApart(saved)'
    BY <1>5, SameRows DEF AddressInv, PeerAddresses, OrphansApart
  <2>5. SavedOrphans'
    <3> SUFFICES ASSUME NEW k \in Key, Orphan(k), saved[k] \in Addr
                 PROVE  /\ \A x \in Key : Orphan(x) /\ live'[x] = saved[k] => x = k
                        /\ live'[k] = saved[k] \/ Reserved(saved[k])
      BY <1>5, SameRows DEF SavedOrphans
    <3>1. /\ \A x \in Key : Orphan(x) /\ live[x] = saved[k] => x = k
          /\ live[k] = saved[k] \/ Reserved(saved[k])
      BY DEF AddressInv, PeerAddresses, SavedOrphans
    <3>2. p.kind \in Issuing => saved[k] # p.addr
      BY <1>8, <1>10 DEF Gone
    <3>3. k # p.key
      BY <1>8, <1>9, <1>10 DEF Gone
    <3> QED
      BY <1>6, <1>7, <1>8, <1>9, <1>10, <3>1, <3>2, <3>3
  <2> QED
    BY <2>1, <2>2, <2>3, <2>4, <2>5 DEF PeerAddresses
<1> QED
  BY <1>5, <1>11, <1>12, OpStepAddress

LEMMA ResolveEndpointAddress ==
  ASSUME OneWorker, AddressInv, BaseInv', NEW w \in Worker, ResolveEndpoint(w)
  PROVE  AddressInv'
PROOF
<1>1. PICK p \in Op : p = op[w]
  BY AddressFacts
<1>2. Placing(p) /\ p.pc = "endpoint" /\ p.client \in Client
  BY <1>1, AddressFacts DEF ResolveEndpoint
<1>3. PICK r \in Nat : r = Len(revs[p.client]) + 1
  BY <1>2 DEF AddressInv, BaseInv, TypeOK
<1>4. PICK o \in Op : o = [p EXCEPT !.pc = "commit", !.rev = r]
  BY DEF Op, PC
<1>5. /\ o.pc = "commit" /\ o.kind = p.kind /\ o.client = p.client /\ o.seen = p.seen
      /\ o.key = p.key /\ o.addr = p.addr
  BY <1>4 DEF Op
<1>6. op' = [op EXCEPT ![w] = o]
  BY <1>1, <1>3, <1>4 DEF ResolveEndpoint, AddressInv, BaseInv, TypeOK, Op
<1>7. UNCHANGED <<row, live, saved, used, everDeleted>>
  BY DEF ResolveEndpoint
<1>8. Placing(o)'
  BY <1>2, <1>5, <1>7, SameRows DEF Placing, Replacing, Issuing, Gone, Cleared
<1> QED
  BY <1>6, <1>7, <1>8, SamePeersAddress, OpStepAddress

-----------------------------------------------------------------------------
\* The end of the only operation.
LEMMA EndStepAddress ==
  ASSUME OneWorker, AddressInv, BaseInv', NEW w \in Worker, op' = [op EXCEPT ![w] = Idle],
         RowFacts', PeerAddresses'
  PROVE  AddressInv'
PROOF
<1>1. \A u \in Worker : op'[u] = Idle
  BY DEF OneWorker, AddressInv, BaseInv, TypeOK
<1>2. \A u \in Worker : Placing(op[u])'
  BY <1>1 DEF Placing, Idle
<1> QED
  BY <1>2 DEF AddressInv

\* The client's new address was nobody's, and its old peer is gone.
LEMMA CommitConfigAddress ==
  ASSUME OneWorker, AddressInv, BaseInv', NEW w \in Worker, CommitConfig(w)
  PROVE  AddressInv'
PROOF
<1>1. PICK p \in Op : p = op[w]
  BY AddressFacts
<1>2. PICK c \in Client : c = p.client
  BY <1>1, AddressFacts DEF CommitConfig
<1>3. Sound(p) /\ Placing(p) /\ p.pc = "commit" /\ p.kind \in Issuing
  BY <1>1, AddressFacts DEF CommitConfig
<1>4. /\ p.key \in Key /\ p.key # NoKey /\ p.key \in used /\ Orphan(p.key) /\ ~ Reserved(p.addr)
      /\ p.addr \in Addr /\ (live[p.key] = p.addr \/ Cleared) /\ (~ Persistent \/ saved = live)
  BY <1>3, ConstantsAssumption DEF Sound, Placing, Op, Issuing
<1>5. UNCHANGED <<live, saved, used, everDeleted>> /\ op' = [op EXCEPT ![w] = Idle]
  BY DEF CommitConfig, Finish
<1>6. row' = [row EXCEPT ![c] = [(IF p.kind = "create" THEN p.seen ELSE row[c])
                                   EXCEPT !.key = p.key, !.addr = p.addr]]
  BY <1>1, <1>2 DEF CommitConfig
<1>7. /\ row'[c].key = p.key /\ row'[c].addr = p.addr
      /\ row'[c].status = IF p.kind = "create" THEN "active" ELSE row[c].status
      /\ \A d \in Client \ {c} : row'[d] = row[d]
  <2>1. p.kind = "create" => p.seen = Fresh
    BY <1>3 DEF Sound
  <2> QED
    BY <1>6, <2>1, FreshTyped DEF AddressInv, BaseInv, TypeOK, Row, Op
<1>8. ASSUME NEW k \in Key, Orphan(k)', live[k] # NoPeer PROVE Orphan(k) /\ k # p.key
  <2>1. k # p.key /\ \A d \in Client \ {c} : row[d].key # k
    BY <1>7, <1>8 DEF Orphan
  <2>2. row[c].key # k
    <3>1. CASE p.kind = "create"
      BY <1>2, <1>3, <3>1, ConstantsAssumption DEF Placing, AddressInv, RowFacts, RowsHaveKeys
    <3>2. CASE p.kind = "reissue"
      BY <1>2, <1>3, <1>8, <3>2 DEF Placing, Replacing, Gone
    <3> QED
      BY <1>3, <3>1, <3>2 DEF Issuing
  <2> QED
    BY <2>1, <2>2 DEF Orphan
<1>9. RowFacts'
  <2>1. p.kind # "create" => row[c].status # "absent"
    BY <1>2, <1>3 DEF Sound
  <2>2. RowKeysUsed' /\ DeletedRemembered' /\ RowsHaveKeys'
    BY <1>4, <1>5, <1>7, <2>1 DEF AddressInv, RowFacts, RowKeysUsed, DeletedRemembered, RowsHaveKeys
  <2>3. \A d \in Client \ {c} : Held(d) => row[d].addr # p.addr
    BY <1>4 DEF Reserved
  <2>4. SharedAddressOnlyAfterDelete'
    BY <1>5, <1>7, <2>3 DEF AddressInv, RowFacts, SharedAddressOnlyAfterDelete, Held
  <2> QED
    BY <2>2, <2>4 DEF RowFacts
<1>10. PeerAddresses'
  <2>1. PeersUsed' /\ OneAddressEach(live)' /\ OneAddressEach(saved)'
    BY <1>5 DEF AddressInv, PeerAddresses, PeersUsed, Gone, OneAddressEach
  <2>2. OrphansApart(live)'
    <3> SUFFICES ASSUME NEW k \in Key, NEW d \in Client \ everDeleted,
                        Orphan(k)', live[k] \in Addr, Held(d)'
                 PROVE  row'[d].addr # live[k]
      BY <1>5 DEF OrphansApart
    <3>1. Orphan(k) /\ k # p.key
      BY <1>8, ConstantsAssumption
    <3>2. CASE d = c
      <4>1. ~ Cleared
        BY NothingSaved, ConstantsAssumption DEF AddressInv, Cleared
      <4> QED
        BY <1>4, <1>7, <3>1, <3>2, <4>1 DEF AddressInv, PeerAddresses, OneAddressEach
    <3>3. CASE d # c
      BY <1>7, <3>1, <3>3 DEF AddressInv, PeerAddresses, OrphansApart, Held
    <3> QED
      BY <3>2, <3>3
  <2>3. OrphansApart(saved)'
    <3>1. CASE Persistent
      BY <1>4, <1>5, <2>2, <3>1 DEF OrphansApart
    <3>2. CASE ~ Persistent
      BY <1>5, <3>2, NothingSaved DEF AddressInv, OrphansApart
    <3> QED
      BY <3>1, <3>2
  <2>4. SavedOrphans'
    <3>1. CASE Persistent
      BY <1>4, <1>5, <3>1 DEF AddressInv, PeerAddresses, OneAddressEach, SavedOrphans
    <3>2. CASE ~ Persistent
      BY <1>5, <3>2, NothingSaved DEF AddressInv, SavedOrphans
    <3> QED
      BY <3>1, <3>2
  <2> QED
    BY <2>1, <2>2, <2>3, <2>4 DEF PeerAddresses
<1> QED
  BY <1>5, <1>9, <1>10, EndStepAddress

\* Deleting frees an address once the interface and its file agree; a client that is not
\* deleted any more is remembered to have been.
LEMMA CommitStatusAddress ==
  ASSUME OneWorker, AddressInv, BaseInv', NEW w \in Worker, CommitStatus(w)
  PROVE  AddressInv'
PROOF
<1>1. PICK p \in Op : p = op[w]
  BY AddressFacts
<1>2. PICK c \in Client : c = p.client
  BY <1>1, AddressFacts DEF CommitStatus
<1>3. Sound(p) /\ Placing(p) /\ p.pc = "commit" /\ p.kind \notin Issuing
  BY <1>1, AddressFacts DEF CommitStatus
<1>4. /\ UNCHANGED <<live, saved, used>> /\ op' = [op EXCEPT ![w] = Idle]
      /\ everDeleted' = IF p.kind = "delete" THEN everDeleted \cup {c} ELSE everDeleted
  BY <1>1, <1>2 DEF CommitStatus, Finish
<1>5. /\ \A d \in Client : row'[d].key = row[d].key /\ row'[d].addr = row[d].addr
      /\ \A d \in Client : row'[d].status = IF d = c THEN NewStatus(p) ELSE row[d].status
  BY <1>1, <1>2 DEF CommitStatus, AddressInv, BaseInv, TypeOK, Row
<1>6. /\ NewStatus(p) \in {"active", "disabled", "deleted"}
      /\ NewStatus(p) = "deleted" <=> p.kind = "delete"
  BY DEF NewStatus
<1>7. row[c].status \in {"active", "disabled", "deleted"}
  <2>1. row[c].status # "absent"
    BY <1>2, <1>3 DEF Sound, Issuing
  <2> QED
    BY <2>1 DEF AddressInv, BaseInv, TypeOK, Row, Status
<1>8. ASSUME NEW d \in Client, Held(d)' PROVE Held(d) \/ d \in everDeleted
  BY <1>5, <1>7, <1>8 DEF Held, AddressInv, RowFacts, DeletedRemembered
<1>9. \A k : Orphan(k)' <=> Orphan(k)
  BY <1>5 DEF Orphan
<1>10. RowFacts'
  <2>1. RowKeysUsed' /\ DeletedRemembered' /\ RowsHaveKeys'
    BY <1>4, <1>5, <1>6, <1>7 DEF AddressInv, RowFacts, RowKeysUsed, DeletedRemembered, RowsHaveKeys
  <2>2. SharedAddressOnlyAfterDelete'
    BY <1>4, <1>5, <1>8 DEF AddressInv, RowFacts, SharedAddressOnlyAfterDelete, Held
  <2> QED
    BY <2>1, <2>2 DEF RowFacts
<1>11. PeerAddresses'
  <2>1. PeersUsed' /\ OneAddressEach(live)' /\ OneAddressEach(saved)'
    BY <1>4 DEF AddressInv, PeerAddresses, PeersUsed, Gone, OneAddressEach
  <2>2. OrphansApart(live)' /\ OrphansApart(saved)'
    BY <1>4, <1>5, <1>8, <1>9 DEF AddressInv, PeerAddresses, OrphansApart
  <2>3. SavedOrphans'
    <3>1. CASE p.kind = "delete"
      <4>1. CASE ~ Persistent
        BY <1>4, <4>1, NothingSaved DEF AddressInv, SavedOrphans
      <4>2. CASE saved = live
        BY <1>4, <4>2 DEF AddressInv, PeerAddresses, OneAddressEach, SavedOrphans
      <4> QED
        BY <1>3, <3>1, <4>1, <4>2 DEF Placing
    <3>2. CASE p.kind # "delete"
      <4>1. \A a : Reserved(a) => Reserved(a)'
        BY <1>5, <1>6, <3>2 DEF Reserved, Held
      <4> QED
        BY <1>4, <1>9, <4>1 DEF AddressInv, PeerAddresses, SavedOrphans
    <3> QED
      BY <3>1, <3>2
  <2> QED
    BY <2>1, <2>2, <2>3 DEF PeerAddresses
<1> QED
  BY <1>4, <1>10, <1>11, EndStepAddress

LEMMA RollbackAddress ==
  ASSUME OneWorker, AddressInv, BaseInv', NEW w \in Worker, Rollback(w)
  PROVE  AddressInv'
PROOF
<1>1. UNCHANGED <<row, live, saved, used, everDeleted>> /\ op' = [op EXCEPT ![w] = Idle]
  BY DEF Rollback, Finish
<1>2. RowFacts'
  BY <1>1 DEF AddressInv, RowFacts, RowKeysUsed, DeletedRemembered, RowsHaveKeys, SharedAddressOnlyAfterDelete
<1> QED
  BY <1>1, <1>2, SamePeersAddress, EndStepAddress

-----------------------------------------------------------------------------
\* A step that changes neither identities nor statuses nor the interface.
LEMMA SameIdentitiesAddress ==
  ASSUME AddressInv, BaseInv', UNCHANGED <<live, saved, used, op, everDeleted>>,
         \A d \in Client : /\ row'[d].key = row[d].key /\ row'[d].addr = row[d].addr
                           /\ row'[d].status = row[d].status
  PROVE  AddressInv'
PROOF
<1>1. /\ \A k : Orphan(k)' <=> Orphan(k)
      /\ \A a : Reserved(a)' <=> Reserved(a)
      /\ \A c \in Client : Held(c)' <=> Held(c)
  BY DEF Orphan, Reserved, Held
<1>2. RowFacts'
  BY DEF AddressInv, RowFacts, RowKeysUsed, DeletedRemembered, RowsHaveKeys, SharedAddressOnlyAfterDelete
<1>3. PeerAddresses'
  BY <1>1 DEF AddressInv, PeerAddresses, PeersUsed, Gone, OneAddressEach, OrphansApart, SavedOrphans
<1>4. ASSUME NEW u \in Worker PROVE Placing(op[u])'
  <2>1. PICK p \in Op : p = op[u] /\ Placing(p) /\ (p.pc # "idle" => p.client \in Client)
    BY AddressFacts
  <2>2. Placing(p)'
    BY <1>1, <2>1 DEF Placing, Replacing, Gone, Cleared
  <2> QED
    BY <2>1, <2>2
<1> QED
  BY <1>2, <1>3, <1>4 DEF AddressInv

LEMMA LimitsKeepIdentities ==
  ASSUME TypeOK, NEW c \in Client, UpdateLimits(c) \/ \E v \in Violations : LimitReached(c, v)
  PROVE  /\ UNCHANGED <<revs, live, saved, used, op, failed, everDeleted>>
         /\ \A d \in Client : /\ row'[d].key = row[d].key /\ row'[d].addr = row[d].addr
                              /\ row'[d].status = row[d].status
PROOF
<1>1. PICK v : row' = [row EXCEPT ![c].due = v]
  BY DEF UpdateLimits, LimitReached
<1>2. UNCHANGED <<revs, live, saved, used, op, failed, everDeleted>>
  BY DEF UpdateLimits, LimitReached
<1> QED
  BY <1>1, <1>2 DEF TypeOK, Row

\* What an import that read these peers does to the rows: each row that it creates is for an
\* orphan among them, and no two are for the same.
ImportsRows(peers) ==
  /\ \A c \in Client :
       \/ row'[c] = row[c]
       \/ /\ row[c].status = "absent" /\ row'[c].status = "active"
          /\ row'[c].key \in Key /\ Orphan(row'[c].key)
          /\ peers[row'[c].key] # NoPeer /\ row'[c].addr = peers[row'[c].key]
  /\ \A c, d \in Client : c # d /\ row'[c] # row[c] /\ row'[d] # row[d]
                         => row'[c].key # row'[d].key

\* Every import is of that shape for the peers that it read.
LEMMA ImportedAddresses ==
  ASSUME TypeOK, ImportRuntimePeers
  PROVE  \E peers \in VisiblePeers : ImportsRows(peers)
PROOF
<1>1. PICK peers \in VisiblePeers :
        \E name \in [Unmanaged(peers) -> {c \in Client : row[c].status = "absent" /\ ~ Busy(c)}] :
          /\ \A j, k \in Unmanaged(peers) : name[j] = name[k] => j = k
          /\ row' = [c \in Client |->
               IF \E k \in Unmanaged(peers) : name[k] = c
               THEN LET k == CHOOSE k \in Unmanaged(peers) : name[k] = c
                    IN [Fresh EXCEPT !.key = k, !.addr = peers[k]]
               ELSE row[c]]
  BY DEF ImportRuntimePeers
<1>2. PICK name \in [Unmanaged(peers) -> {c \in Client : row[c].status = "absent" /\ ~ Busy(c)}] :
          /\ \A j, k \in Unmanaged(peers) : name[j] = name[k] => j = k
          /\ row' = [c \in Client |->
               IF \E k \in Unmanaged(peers) : name[k] = c
               THEN LET k == CHOOSE k \in Unmanaged(peers) : name[k] = c
                    IN [Fresh EXCEPT !.key = k, !.addr = peers[k]]
               ELSE row[c]]
  BY <1>1
<1>3. \A k \in Unmanaged(peers) : k \in Key /\ peers[k] # NoPeer /\ Orphan(k)
  BY DEF Unmanaged, Orphan
<1>4. ASSUME NEW c \in Client
      PROVE  \/ row'[c] = row[c]
             \/ \E k \in Unmanaged(peers) : /\ name[k] = c /\ row'[c].key = k /\ row'[c].addr = peers[k]
                                            /\ row[c].status = "absent" /\ row'[c].status = "active"
  <2>1. CASE \E k \in Unmanaged(peers) : name[k] = c
    <3>1. PICK k \in Unmanaged(peers) :
            name[k] = c /\ row'[c] = [Fresh EXCEPT !.key = k, !.addr = peers[k]]
      BY <1>2, <2>1
    <3> QED
      BY <3>1, FreshTyped
  <2>2. CASE ~ \E k \in Unmanaged(peers) : name[k] = c
    BY <1>2, <2>2
  <2> QED
    BY <2>1, <2>2
<1>5. ASSUME NEW c \in Client, row'[c] # row[c]
      PROVE  /\ row[c].status = "absent" /\ row'[c].status = "active"
             /\ row'[c].key \in Key /\ Orphan(row'[c].key)
             /\ peers[row'[c].key] # NoPeer /\ row'[c].addr = peers[row'[c].key]
             /\ row'[c].key \in Unmanaged(peers) /\ name[row'[c].key] = c
  BY <1>3, <1>4, <1>5
<1>6. ASSUME NEW c \in Client, NEW d \in Client, c # d, row'[c] # row[c], row'[d] # row[d]
      PROVE  row'[c].key # row'[d].key
  BY <1>5, <1>6
<1>7. ImportsRows(peers)
  BY <1>5, <1>6 DEF ImportsRows
<1> QED
  BY <1>7

\* Orphans have addresses of their own, on the interface and in the file together.
LEMMA OrphansDiffer ==
  ASSUME AddressInv, NEW p \in {live, saved}, NEW q \in {live, saved},
         NEW x \in Key, NEW k \in Key, Orphan(x), Orphan(k), p[x] = q[k], q[k] \in Addr
  PROVE  x = k
PROOF
<1>1. CASE p = q
  BY <1>1 DEF AddressInv, PeerAddresses, OneAddressEach
<1>2. CASE p = live /\ q = saved
  BY <1>2 DEF AddressInv, PeerAddresses, SavedOrphans
<1>3. CASE p = saved /\ q = live
  BY <1>3 DEF AddressInv, PeerAddresses, SavedOrphans
<1> QED
  BY <1>1, <1>2, <1>3

LEMMA ImportAddress ==
  ASSUME Assumed, AddressInv, BaseInv', ImportRuntimePeers
  PROVE  AddressInv'
PROOF
<1>1. UNCHANGED <<live, saved, used, op, everDeleted>> /\ \A u \in Worker : op[u].pc = "idle"
  BY DEF ImportRuntimePeers, Assumed
<1>0. PICK peers \in VisiblePeers : ImportsRows(peers)
  BY ImportedAddresses DEF AddressInv, BaseInv
<1>2. /\ \A c \in Client :
           \/ row'[c] = row[c]
           \/ /\ row[c].status = "absent" /\ row'[c].status = "active"
              /\ row'[c].key \in Key /\ Orphan(row'[c].key)
              /\ peers[row'[c].key] # NoPeer /\ row'[c].addr = peers[row'[c].key]
      /\ \A c, d \in Client : c # d /\ row'[c] # row[c] /\ row'[d] # row[d]
                             => row'[c].key # row'[d].key
  BY <1>0 DEF ImportsRows
<1>3. peers \in {live, saved} /\ peers \in Peers
  BY DEF VisiblePeers, AddressInv, BaseInv, TypeOK
<1>4. ASSUME NEW c \in Client, row'[c] # row[c]
      PROVE  /\ row[c].status = "absent" /\ row'[c].status = "active"
             /\ row'[c].key \in Key /\ row'[c].key \in used /\ Orphan(row'[c].key)
             /\ row'[c].addr = peers[row'[c].key] /\ row'[c].addr \in Addr \cup {NoAddr}
  <2>1. row'[c].key \in used
    BY <1>2, <1>3, <1>4 DEF AddressInv, PeerAddresses, PeersUsed, Gone
  <2>2. peers[row'[c].key] \in Addr \cup {NoAddr}
    BY <1>2, <1>3, <1>4 DEF Peers
  <2> QED
    BY <1>2, <1>4, <2>1, <2>2
<1>5. \A k : Orphan(k)' /\ k \in Key => Orphan(k)
  <2> SUFFICES ASSUME NEW k \in Key, Orphan(k)', NEW c \in Client, row[c].key = k PROVE FALSE
    BY DEF Orphan
  <2>1. row[c].status # "absent"
    BY ConstantsAssumption DEF AddressInv, RowFacts, RowsHaveKeys
  <2> QED
    BY <1>4, <2>1 DEF Orphan
<1>6. RowFacts'
  <2>1. RowKeysUsed' /\ DeletedRemembered' /\ RowsHaveKeys'
    BY <1>1, <1>4, ConstantsAssumption DEF AddressInv, RowFacts, RowKeysUsed, DeletedRemembered, RowsHaveKeys
  <2>2. ASSUME NEW c \in Client, NEW d \in Client, c # d, row'[c] # row[c], row'[c].addr = row'[d].addr,
               row'[c].addr # NoAddr, Held(d)', d \notin everDeleted
        PROVE  FALSE
    <3>1. row'[c].addr \in Addr
      BY <1>4, <2>2
    <3>2. CASE row'[d] = row[d]
      BY <1>3, <1>4, <2>2, <3>1, <3>2 DEF AddressInv, PeerAddresses, OrphansApart, Held
    <3>3. CASE row'[d] # row[d]
      BY <1>2, <1>3, <1>4, <2>2, <3>1, <3>3 DEF AddressInv, PeerAddresses, OneAddressEach
    <3> QED
      BY <3>2, <3>3
  <2>3. SharedAddressOnlyAfterDelete'
    BY <1>1, <2>2 DEF AddressInv, RowFacts, SharedAddressOnlyAfterDelete, Held
  <2> QED
    BY <2>1, <2>3 DEF RowFacts
<1>7. PeerAddresses'
  <2>1. PeersUsed' /\ OneAddressEach(live)' /\ OneAddressEach(saved)'
    BY <1>1 DEF AddressInv, PeerAddresses, PeersUsed, Gone, OneAddressEach
  <2>2. ASSUME NEW q \in {live, saved}, NEW k \in Key, NEW c \in Client \ everDeleted,
               Orphan(k)', q[k] \in Addr, Held(c)'
        PROVE  row'[c].addr # q[k]
    <3>1. CASE row'[c] = row[c]
      BY <1>5, <2>2, <3>1 DEF AddressInv, PeerAddresses, OrphansApart, Held
    <3>2. CASE row'[c] # row[c]
      <4>1. k # row'[c].key
        BY <2>2 DEF Orphan
      <4> QED
        BY <1>3, <1>4, <1>5, <2>2, <3>2, <4>1, OrphansDiffer
    <3> QED
      BY <3>1, <3>2
  <2>3. OrphansApart(live)' /\ OrphansApart(saved)'
    BY <1>1, <2>2 DEF OrphansApart
  <2>4. \A a : Reserved(a) => Reserved(a)'
    BY <1>4 DEF Reserved, Held
  <2>5. SavedOrphans'
    BY <1>1, <1>5, <2>4 DEF AddressInv, PeerAddresses, SavedOrphans
  <2> QED
    BY <2>1, <2>3, <2>5 DEF PeerAddresses
<1>8. ASSUME NEW u \in Worker PROVE Placing(op[u])'
  BY <1>1 DEF Placing
<1> QED
  BY <1>6, <1>7, <1>8 DEF AddressInv

LEMMA RestartAddress ==
  ASSUME Assumed, AddressInv, BaseInv', RestartContainer
  PROVE  AddressInv'
PROOF
<1>1. /\ live' = saved /\ UNCHANGED <<row, saved, op, used, everDeleted>>
      /\ Persistent => \A u \in Worker : op[u].pc # "save"
  BY DEF RestartContainer, Assumed
<1>2. RowFacts'
  BY <1>1 DEF AddressInv, RowFacts, RowKeysUsed, DeletedRemembered, RowsHaveKeys, SharedAddressOnlyAfterDelete
<1>3. PeerAddresses'
  BY <1>1, SameRows DEF AddressInv, PeerAddresses, PeersUsed, Gone, OneAddressEach, OrphansApart, SavedOrphans
<1>4. ASSUME NEW u \in Worker PROVE Placing(op[u])'
  <2>1. PICK p \in Op : p = op[u] /\ Placing(p) /\ Sound(p) /\ (p.pc # "idle" => p.client \in Client)
    BY AddressFacts
  <2>2. CASE Persistent
    <3>1. p.pc \in {"idle", "remove", "pick", "add", "endpoint", "commit"}
      BY <1>1, <2>1, <2>2 DEF Op, PC
    <3>2. Placing(p)'
      BY <1>1, <2>1, <2>2, <3>1, SameRows DEF Placing, Replacing, Gone, Issuing, Cleared
    <3> QED
      BY <1>1, <2>1, <3>2
  <2>3. CASE ~ Persistent
    <3>1. ASSUME p.pc # "idle", p.kind = "reissue" PROVE p.seen.key \in Key
      BY <2>1, <3>1, ConstantsAssumption
         DEF Placing, Sound, AddressInv, RowFacts, RowsHaveKeys, Op, Row
    <3>2. Cleared' /\ \A k \in Key : live'[k] = NoPeer /\ saved'[k] = NoPeer
      BY <1>1, <2>3 DEF AddressInv, BaseInv, UnsavedIsEmpty, Cleared
    <3>3. Placing(p)'
      BY <1>1, <2>1, <2>3, <3>1, <3>2, SameRows DEF Placing, Replacing, Gone, Issuing
    <3> QED
      BY <1>1, <2>1, <3>3
  <2> QED
    BY <2>2, <2>3
<1> QED
  BY <1>2, <1>3, <1>4 DEF AddressInv

LEMMA InitAddress == Init => AddressInv
PROOF
<1> SUFFICES ASSUME Init PROVE AddressInv
  OBVIOUS
<1>1. \A c \in Client : row[c].status = "absent" /\ row[c].key = NoKey
  BY DEF Init, Absent
<1>2. RowFacts
  BY <1>1 DEF RowFacts, RowKeysUsed, DeletedRemembered, RowsHaveKeys, SharedAddressOnlyAfterDelete
<1>3. PeerAddresses
  BY ConstantsAssumption
     DEF Init, PeerAddresses, PeersUsed, Gone, OneAddressEach, OrphansApart, SavedOrphans
<1>4. \A w \in Worker : Placing(op[w])
  BY DEF Init, Idle, Placing
<1> QED
  BY <1>2, <1>3, <1>4, InitBase DEF AddressInv

LEMMA NextAddress == Assumed /\ OneWorker /\ AddressInv /\ [Next]_vars => AddressInv'
PROOF
<1> SUFFICES ASSUME Assumed, OneWorker, AddressInv, [Next]_vars PROVE AddressInv'
  OBVIOUS
<1>1. BaseInv'
  BY NextBase DEF AddressInv
<1>2. ASSUME NEW w \in Worker, Step(w) PROVE AddressInv'
  BY <1>1, <1>2, BeginAddress, RemovePeerAddress, SaveRuntimeAddress, PickAddressAddress, AddPeerAddress,
     ResolveEndpointAddress, CommitConfigAddress, CommitStatusAddress, RollbackAddress
     DEF Step, Fail, PoolExhausted, RevisionConflict
<1>3. ASSUME NEW c \in Client, UpdateLimits(c) \/ \E v \in Violations : LimitReached(c, v)
      PROVE  AddressInv'
  BY <1>1, <1>3, LimitsKeepIdentities, SameIdentitiesAddress DEF AddressInv, BaseInv
<1>4. CASE UNCHANGED vars
  <2>1. UNCHANGED <<row, live, saved, used, op, everDeleted>>
    BY <1>4 DEF vars
  <2> QED
    BY <1>1, <2>1, SameIdentitiesAddress
<1> QED
  BY <1>1, <1>2, <1>3, <1>4, ImportAddress, RestartAddress DEF Next

\* With one operation at a time, whatever fails, two clients that were never deleted
\* never have the same address: neither do the peers that an import makes clients.
THEOREM AddressesAlwaysApart ==
  ASSUME Assumed, OneWorker PROVE Spec => []SharedAddressOnlyAfterDelete
PROOF
<1>1. Init => AddressInv
  BY InitAddress
<1>2. AddressInv /\ [Next]_vars => AddressInv'
  BY NextAddress
<1>3. AddressInv => SharedAddressOnlyAfterDelete
  BY DEF AddressInv, RowFacts
<1> QED
  BY <1>1, <1>2, <1>3, PTL DEF Spec
=============================================================================
