------------------------ MODULE LifecycleAccessProofs ------------------------
(***************************************************************************)
(* Proof that ClientLifecycle implements ClientAccess, under the           *)
(* assumptions of SupersededNeverLive, if operators use the buttons of the *)
(* client's card and peer changes are saved; any step may fail.  Two more  *)
(* layers of inductive invariants and a refinement mapping:                *)
(*   CutInv      disabling and deleting cut the peer;                      *)
(*   AccessInv   what an operation in progress has done to its client's    *)
(*               access, and where the file agrees with the interface.     *)
(***************************************************************************)
EXTENDS ClientLifecycleProofs, ClientLifecycleAccess, SequenceTheorems

AssumedCard == Assumed /\ "card" \in Discipline

Cutting == {"disable", "delete", "enforce"}

\* A key belongs to one client: whoever adds a peer connects no other client.
RowKeysDistinct ==
  \A c, d \in Client : c # d /\ row[c].key # NoKey => row[c].key # row[d].key

(***************************************************************************)
(* What an operation in progress relies on: the status its card showed,    *)
(* that its new key is nobody's, and how far it has cut the peer.          *)
(***************************************************************************)
Tied(o) == o.pc # "idle" =>
  /\ o.kind \in Issuing /\ o.key # NoKey => o.key \in used /\ \A c \in Client : row[c].key # o.key
  /\ o.kind = "enable" => /\ row[o.client].status = "disabled"
                          /\ o.key # NoKey => o.key = row[o.client].key
  /\ o.kind = "reissue" => row[o.client].status # "deleted"
  /\ o.kind \in Cutting =>
       /\ o.pc \in {"remove", "save", "commit"} /\ o.key = NoKey
       /\ o.seen.key = row[o.client].key
       /\ o.seen.key # NoKey => /\ o.pc = "save" => live[o.seen.key] = NoPeer
                                /\ o.pc = "commit" => Gone(o.seen.key)

CutExtra ==
  /\ RowKeysUsed /\ PeersUsed /\ RowKeysDistinct /\ DeletedHasNoPeer
  /\ \A w \in Worker : Tied(op[w])

CutInv == StrongInv /\ CutExtra

-----------------------------------------------------------------------------
\* A step of one operation that leaves the rows alone.  It may bring back one peer,
\* t, that no deleted client has and no other operation cuts.
LEMMA OpStepCut ==
  ASSUME CutInv, NEW w \in Worker, NEW o \in Op,
         op' = [op EXCEPT ![w] = o], UNCHANGED row, used \subseteq used', PeersUsed', Tied(o)',
         NEW t,
         \A c \in Client : row[c].status = "deleted" => row[c].key # t,
         \A u \in Worker \ {w} : op[u].pc # "idle" => row[op[u].client].key # t,
         \A k \in Key \ {t} : /\ live[k] = NoPeer => live'[k] = NoPeer
                              /\ Gone(k) => Gone(k)'
  PROVE  CutExtra'
PROOF
<1>1. \A u \in Worker : op'[u] = IF u = w THEN o ELSE op[u]
  BY DEF CutInv, StrongInv, BaseInv, TypeOK
<1>2. RowKeysUsed' /\ RowKeysDistinct'
  BY DEF CutInv, CutExtra, RowKeysUsed, RowKeysDistinct
<1>3. DeletedHasNoPeer'
  BY DEF CutInv, CutExtra, DeletedHasNoPeer, StrongInv, BaseInv, TypeOK, Row
<1>4. ASSUME NEW u \in Worker PROVE Tied(op[u])'
  <2>1. CASE u = w
    BY <1>1, <2>1
  <2>2. CASE u # w
    <3>1. PICK p \in Op : p = op[u]
      BY DEF CutInv, StrongInv, BaseInv, TypeOK
    <3>2. op'[u] = p /\ Tied(p) /\ Sound(p)
      BY <3>1, <1>1, <2>2 DEF CutInv, CutExtra, StrongInv, BaseInv
    <3>3. ASSUME p.pc # "idle", p.kind \in Cutting, p.seen.key # NoKey
          PROVE  /\ p.pc = "save" => live'[p.seen.key] = NoPeer
                 /\ p.pc = "commit" => Gone(p.seen.key)'
      <4>1. p.seen.key \in Key \ {t}
        BY <2>2, <3>1, <3>2, <3>3 DEF Tied, Op, Row
      <4> QED
        BY <3>2, <3>3, <4>1 DEF Tied
    <3>4. Tied(p)'
      BY <3>2, <3>3 DEF Tied
    <3> QED
      BY <3>2, <3>4
  <2> QED
    BY <2>1, <2>2
<1> QED
  BY <1>2, <1>3, <1>4 DEF CutExtra

\* Such a step that brings no peer back.
LEMMA QuietStepCut ==
  ASSUME CutInv, NEW w \in Worker, NEW o \in Op,
         op' = [op EXCEPT ![w] = o], UNCHANGED row, used \subseteq used', Tied(o)',
         \A k \in Key : /\ live[k] = NoPeer => live'[k] = NoPeer
                        /\ Gone(k) => Gone(k)'
  PROVE  CutExtra'
PROOF
<1>1. PeersUsed'
  BY DEF CutInv, CutExtra, PeersUsed
<1>2. PICK t : /\ \A c \in Client : row[c].key # t
               /\ \A u \in Worker : op[u].pc # "idle" => row[op[u].client].key # t
  <2>1. PICK t : t \notin Key \cup {NoKey}
    BY NoSetContainsEverything
  <2>2. \A c \in Client : row[c].key \in Key \cup {NoKey}
    BY DEF CutInv, StrongInv, BaseInv, TypeOK, Row
  <2>3. \A u \in Worker : op[u].pc # "idle" => op[u].client \in Client
    BY DEF CutInv, StrongInv, BaseInv, Sound
  <2> QED
    BY <2>1, <2>2, <2>3
<1> QED
  BY <1>1, <1>2, OpStepCut

\* The facts about one operation that its steps start from.
LEMMA CutFacts ==
  ASSUME CutInv, NEW w \in Worker
  PROVE  /\ op[w] \in Op /\ Sound(op[w]) /\ Linked(op[w]) /\ Tied(op[w])
         /\ \A u \in Worker \ {w} : Apart(op[u], op[w]) /\ Apart(op[w], op[u])
         /\ op[w].pc # "idle" => op[w].client \in Client
         /\ \A u \in Worker \ {w} : op[u].pc # "idle" => op[u].client \in Client \ {op[w].client}
BY OpFacts DEF CutInv, CutExtra, StrongInv, BaseInv, Sound, Apart

LEMMA BeginCut ==
  ASSUME AssumedCard, CutInv, NEW w \in Worker, NEW c \in Client, NEW request \in Request,
         Begin(w, c, request)
  PROVE  CutExtra'
PROOF
<1> DEFINE kind == Service(request)
           seen == IF kind = "create" THEN Fresh ELSE row[c]
           back == kind = "enable" /\ PutsPeerBack(seen, c)
           new == [pc |-> FirstStep(kind, seen, c), kind |-> kind, client |-> c, seen |-> seen,
                   key |-> IF back THEN seen.key ELSE NoKey,
                   addr |-> IF back THEN seen.addr ELSE NoAddr, rev |-> 0]
<1>1. op' = [op EXCEPT ![w] = new] /\ UNCHANGED <<row, revs, live, saved, used>>
  BY DEF Begin
<1>2. kind \in Kind /\ seen \in Row /\ (kind # "create" => seen = row[c])
  BY FreshTyped DEF Request, Service, Kind, CutInv, StrongInv, BaseInv, TypeOK
<1>3. /\ kind = "enable" => row[c].status = "disabled"
      /\ kind = "reissue" => row[c].status # "deleted"
  <2>1. OnCard(request, row[c].status)
    BY DEF Begin, AssumedCard
  <2>2. request = "portal_reissue" => row[c].status = "active"
    BY DEF Begin, Permitted
  <2> QED
    BY <2>1, <2>2 DEF OnCard, Service, Request
<1>4. /\ FirstStep(kind, seen, c) \in {"remove", "pick", "add", "commit"}
      /\ FirstStep(kind, seen, c) = "add" => kind = "enable"
      /\ FirstStep(kind, seen, c) = "pick" => kind \in Issuing
      /\ kind \in Cutting /\ seen.key # NoKey => FirstStep(kind, seen, c) = "remove"
  BY <1>2 DEF FirstStep, Issuing, Kind, Cutting
<1>5. new \in Op
  BY <1>2, <1>4 DEF Op, Row, PC
<1>6. PICK o \in Op : o = new
  BY <1>5
<1>7. /\ o.pc = FirstStep(kind, seen, c) /\ o.kind = kind /\ o.client = c /\ o.seen = seen
      /\ o.key = IF back THEN seen.key ELSE NoKey
  BY <1>6
<1>8. back => kind = "enable"
  OBVIOUS
<1>9. op' = [op EXCEPT ![w] = o]
  BY <1>1, <1>6
<1> HIDE DEF new, kind, seen, back
<1>10. Tied(o)'
  BY <1>1, <1>2, <1>3, <1>4, <1>7, <1>8 DEF Tied, Cutting, Issuing
<1> QED
  BY <1>1, <1>9, <1>10, QuietStepCut DEF Gone

LEMMA RemovePeerCut ==
  ASSUME CutInv, NEW w \in Worker, RemovePeer(w)
  PROVE  CutExtra'
PROOF
<1>1. PICK p \in Op : p = op[w]
  BY CutFacts
<1>2. PICK o \in Op : o = [p EXCEPT !.pc = "save"]
  BY DEF Op, PC
<1>3. Sound(p) /\ Linked(p) /\ Tied(p) /\ p.pc = "remove"
  BY <1>1, CutFacts DEF RemovePeer
<1>4. o.pc = "save" /\ o.kind = p.kind /\ o.client = p.client /\ o.seen = p.seen /\ o.key = p.key
  BY <1>2 DEF Op
<1>5. op' = [op EXCEPT ![w] = o] /\ UNCHANGED <<row, saved, used>>
  BY <1>1, <1>2 DEF RemovePeer
<1>6. p.seen.key \in Key
  BY <1>3 DEF Sound, Op, Row
<1>7. \A k \in Key : live'[k] = IF k = p.seen.key THEN NoPeer ELSE live[k]
  BY <1>1 DEF RemovePeer, CutInv, StrongInv, BaseInv, TypeOK, Peers
<1>8. Tied(o)'
  BY <1>3, <1>4, <1>5, <1>6, <1>7 DEF Tied, Linked
<1> QED
  BY <1>5, <1>7, <1>8, QuietStepCut DEF Gone

LEMMA SaveRuntimeCut ==
  ASSUME Assumed, CutInv, NEW w \in Worker, SaveRuntime(w)
  PROVE  CutExtra'
PROOF
<1>1. PICK p \in Op : p = op[w]
  BY CutFacts
<1>2. PICK o \in Op : o = [p EXCEPT !.pc = IF p.kind \notin Issuing THEN "commit"
                                            ELSE IF p.key = NoKey THEN "pick" ELSE "endpoint"]
  BY DEF Op, PC
<1>3. Tied(p) /\ p.pc = "save"
  BY <1>1, CutFacts DEF SaveRuntime
<1>4. /\ o.pc = IF p.kind \notin Issuing THEN "commit"
                ELSE IF p.key = NoKey THEN "pick" ELSE "endpoint"
      /\ o.kind = p.kind /\ o.client = p.client /\ o.seen = p.seen /\ o.key = p.key
  BY <1>2 DEF Op
<1>5. /\ op' = [op EXCEPT ![w] = o] /\ UNCHANGED <<row, live, used>>
      /\ saved' = IF Persistent THEN live ELSE saved
  BY <1>1, <1>2 DEF SaveRuntime
<1>6. CASE Persistent
  <2>1. Tied(o)'
    BY <1>3, <1>4, <1>5, <1>6 DEF Tied, Gone, Cutting, Issuing
  <2> QED
    BY <1>5, <1>6, <2>1, QuietStepCut DEF Gone
<1>7. CASE ~ Persistent
  <2>1. UNCHANGED <<row, live, saved, used>> /\ \A k \in Key : saved[k] = NoPeer
    BY <1>5, <1>7 DEF CutInv, StrongInv, BaseInv, UnsavedIsEmpty
  <2>2. o.seen.key \in Key \cup {NoKey}
    BY DEF Op, Row
  <2>3. Tied(o)'
    BY <1>3, <1>4, <2>1, <2>2 DEF Tied, Gone, Cutting, Issuing
  <2> QED
    BY <1>5, <2>1, <2>3, QuietStepCut DEF Gone
<1> QED
  BY <1>6, <1>7

LEMMA PickAddressCut ==
  ASSUME CutInv, NEW w \in Worker, PickAddress(w)
  PROVE  CutExtra'
PROOF
<1>1. PICK p \in Op : p = op[w]
  BY CutFacts
<1>2. PICK k \in Key \ used, a \in Addr :
        op' = [op EXCEPT ![w].pc = "add", ![w].key = k, ![w].addr = a] /\ used' = used \cup {k}
  BY DEF PickAddress, FreeHosts
<1>3. PICK o \in Op : o = [p EXCEPT !.pc = "add", !.key = k, !.addr = a]
  BY <1>2 DEF Op, PC
<1>4. Tied(p) /\ Linked(p) /\ p.pc = "pick"
  BY <1>1, CutFacts DEF PickAddress
<1>5. o.pc = "add" /\ o.kind = p.kind /\ o.client = p.client /\ o.seen = p.seen /\ o.key = k
  BY <1>3 DEF Op
<1>6. op' = [op EXCEPT ![w] = o] /\ UNCHANGED <<row, live, saved>>
  BY <1>1, <1>2, <1>3 DEF PickAddress, CutInv, StrongInv, BaseInv, TypeOK, Op
<1>7. k # NoKey /\ \A c \in Client : row[c].key # k
  BY ConstantsAssumption DEF CutInv, CutExtra, RowKeysUsed
<1>8. p.kind \in Issuing
  BY <1>4 DEF Linked
<1>9. Tied(o)'
  BY <1>2, <1>4, <1>5, <1>6, <1>7, <1>8 DEF Tied, Cutting, Issuing
<1> QED
  BY <1>2, <1>6, <1>9, QuietStepCut DEF Gone

LEMMA ResolveEndpointCut ==
  ASSUME CutInv, NEW w \in Worker, ResolveEndpoint(w)
  PROVE  CutExtra'
PROOF
<1>1. PICK p \in Op : p = op[w]
  BY CutFacts
<1>2. Tied(p) /\ Linked(p) /\ p.pc = "endpoint" /\ p.client \in Client
  BY <1>1, CutFacts DEF ResolveEndpoint
<1>3. PICK r \in Nat : r = Len(revs[p.client]) + 1
  BY <1>2 DEF CutInv, StrongInv, BaseInv, TypeOK
<1>4. PICK o \in Op : o = [p EXCEPT !.pc = "commit", !.rev = r]
  BY DEF Op, PC
<1>5. o.pc = "commit" /\ o.kind = p.kind /\ o.client = p.client /\ o.seen = p.seen /\ o.key = p.key
  BY <1>4 DEF Op
<1>6. op' = [op EXCEPT ![w] = o] /\ UNCHANGED <<row, live, saved, used>>
  BY <1>1, <1>3, <1>4 DEF ResolveEndpoint, CutInv, StrongInv, BaseInv, TypeOK, Op
<1>7. Tied(o)'
  BY <1>2, <1>5, <1>6 DEF Tied, Linked, Cutting, Issuing
<1> QED
  BY <1>6, <1>7, QuietStepCut DEF Gone

\* The key that is added is new, or that of the disabled client being enabled.
LEMMA AddPeerCut ==
  ASSUME CutInv, NEW w \in Worker, AddPeer(w)
  PROVE  CutExtra'
PROOF
<1>1. PICK p \in Op : p = op[w]
  BY CutFacts
<1>2. PICK o \in Op : o = [p EXCEPT !.pc = "save"]
  BY DEF Op, PC
<1>3. Sound(p) /\ Linked(p) /\ Tied(p) /\ p.pc = "add" /\ p.client \in Client
  BY <1>1, CutFacts DEF AddPeer
<1>4. o.pc = "save" /\ o.kind = p.kind /\ o.client = p.client /\ o.seen = p.seen /\ o.key = p.key
  BY <1>2 DEF Op
<1>5. op' = [op EXCEPT ![w] = o] /\ UNCHANGED <<row, saved, used>>
  BY <1>1, <1>2 DEF AddPeer
<1>6. p.key \in Key /\ p.key # NoKey /\ p.addr \in Addr
  BY <1>3, ConstantsAssumption DEF Sound, Op
<1>7. \A k \in Key \ {p.key} : /\ live[k] = NoPeer => live'[k] = NoPeer
                               /\ Gone(k) => Gone(k)'
  BY <1>1, <1>5, <1>6, ConstantsAssumption DEF AddPeer, Connect, Gone
<1>8. /\ p.kind \in Issuing => p.key \in used /\ \A c \in Client : row[c].key # p.key
      /\ p.kind = "enable" => p.key = row[p.client].key /\ row[p.client].status = "disabled"
      /\ p.kind \in Issuing \/ p.kind = "enable"
  BY <1>3, <1>6 DEF Tied, Linked
<1>9. p.key \in used /\ \A c \in Client : c # p.client => row[c].key # p.key
  BY <1>3, <1>6, <1>8 DEF CutInv, CutExtra, RowKeysUsed, RowKeysDistinct
<1>10. PeersUsed'
  BY <1>5, <1>7, <1>9 DEF CutInv, CutExtra, PeersUsed
<1>11. \A c \in Client : row[c].status = "deleted" => row[c].key # p.key
  BY <1>8, <1>9
<1>12. \A u \in Worker \ {w} : op[u].pc # "idle" => row[op[u].client].key # p.key
  BY <1>1, <1>9, CutFacts
<1>13. Tied(o)'
  BY <1>3, <1>4, <1>5 DEF Tied, Cutting
<1> QED
  BY <1>5, <1>7, <1>10, <1>11, <1>12, <1>13, OpStepCut

-----------------------------------------------------------------------------
\* A step that leaves the interface alone and ends some operations.  Those that go
\* on keep the key and the status of their client.
LEMMA RowStepCut ==
  ASSUME CutInv, UNCHANGED <<live, saved, used>>,
         RowKeysUsed', RowKeysDistinct', DeletedHasNoPeer',
         \A u \in Worker :
           \/ op'[u].pc = "idle"
           \/ /\ op'[u] = op[u]
              /\ row'[op[u].client].key = row[op[u].client].key
              /\ row'[op[u].client].status = row[op[u].client].status
              /\ op[u].kind \in Issuing /\ op[u].key # NoKey => \A c \in Client : row'[c].key # op[u].key
  PROVE  CutExtra'
PROOF
<1>1. PeersUsed'
  BY DEF CutInv, CutExtra, PeersUsed, Gone
<1>2. ASSUME NEW u \in Worker PROVE Tied(op[u])'
  <2>1. CASE op'[u].pc = "idle"
    BY <2>1 DEF Tied
  <2>2. CASE op'[u].pc # "idle"
    <3>1. PICK p \in Op : p = op[u]
      BY CutFacts
    <3>2. /\ op'[u] = p /\ Tied(p)
          /\ row'[p.client].key = row[p.client].key /\ row'[p.client].status = row[p.client].status
          /\ p.kind \in Issuing /\ p.key # NoKey => \A c \in Client : row'[c].key # p.key
      BY <2>2, <3>1, CutFacts
    <3>3. Tied(p)'
      BY <3>2 DEF Tied, Gone
    <3> QED
      BY <3>2, <3>3
  <2> QED
    BY <2>1, <2>2
<1> QED
  BY <1>1, <1>2 DEF CutExtra

LEMMA CommitConfigCut ==
  ASSUME CutInv, NEW w \in Worker, CommitConfig(w)
  PROVE  CutExtra'
PROOF
<1>1. PICK p \in Op : p = op[w]
  BY CutFacts
<1>2. PICK c \in Client : c = p.client
  BY <1>1, CutFacts DEF CommitConfig
<1>3. /\ Sound(p) /\ Linked(p) /\ Tied(p) /\ p.pc = "commit" /\ p.kind \in Issuing
      /\ \A u \in Worker \ {w} : Apart(op[u], p)
  BY <1>1, CutFacts DEF CommitConfig
<1>4. p.key \in used /\ p.key # NoKey /\ \A d \in Client : row[d].key # p.key
  BY <1>3 DEF Sound, Tied
<1>5. /\ row'[c].key = p.key /\ row'[c].status # "deleted"
      /\ \A d \in Client \ {c} : row'[d] = row[d]
  <2>1. row' = [row EXCEPT ![c] = [(IF p.kind = "create" THEN p.seen ELSE row[c])
                                     EXCEPT !.key = p.key, !.addr = p.addr]]
    BY <1>1, <1>2 DEF CommitConfig
  <2>2. row[c] \in Row /\ p.seen \in Row
    BY DEF Op, CutInv, StrongInv, BaseInv, TypeOK
  <2>3. (p.kind = "create" => p.seen.status = "active") /\ (p.kind # "create" => row[c].status # "deleted")
    BY <1>2, <1>3, FreshTyped DEF Sound, Tied, Issuing
  <2> QED
    BY <2>1, <2>2, <2>3 DEF CutInv, StrongInv, BaseInv, TypeOK, Row
<1>6. UNCHANGED <<live, saved, used>> /\ op' = [op EXCEPT ![w] = Idle]
  BY DEF CommitConfig, Finish
<1>7. RowKeysUsed' /\ RowKeysDistinct'
  BY <1>4, <1>5, <1>6 DEF CutInv, CutExtra, RowKeysUsed, RowKeysDistinct
<1>8. DeletedHasNoPeer'
  BY <1>5, <1>6 DEF CutInv, CutExtra, DeletedHasNoPeer, Gone
<1>9. ASSUME NEW u \in Worker, op'[u].pc # "idle"
      PROVE  /\ op'[u] = op[u] /\ op[u].client \in Client \ {c}
             /\ op[u].kind \in Issuing /\ op[u].key # NoKey => \A d \in Client : row'[d].key # op[u].key
  <2>1. u # w /\ op'[u] = op[u] /\ op[u].pc # "idle"
    BY <1>6, <1>9 DEF Idle, CutInv, StrongInv, BaseInv, TypeOK
  <2>2. op[u].client \in Client \ {c} /\ Tied(op[u])
    BY <1>1, <1>2, <2>1, CutFacts
  <2>3. op[u].kind \in Issuing /\ op[u].key # NoKey => op[u].key # p.key
    BY <1>3, <2>1 DEF Apart
  <2> QED
    BY <1>5, <2>1, <2>2, <2>3 DEF Tied
<1> QED
  BY <1>5, <1>6, <1>7, <1>8, <1>9, RowStepCut

\* Whoever saves "deleted" has cut the peer and saved the interface before.
LEMMA CommitStatusCut ==
  ASSUME CutInv, NEW w \in Worker, CommitStatus(w)
  PROVE  CutExtra'
PROOF
<1>1. PICK p \in Op : p = op[w]
  BY CutFacts
<1>2. PICK c \in Client : c = p.client
  BY <1>1, CutFacts DEF CommitStatus
<1>3. Tied(p) /\ p.pc = "commit"
  BY <1>1, CutFacts DEF CommitStatus
<1>4. /\ row'[c].key = row[c].key /\ row'[c].status = NewStatus(p)
      /\ \A d \in Client \ {c} : row'[d] = row[d]
  BY <1>1, <1>2 DEF CommitStatus, CutInv, StrongInv, BaseInv, TypeOK, Row
<1>5. UNCHANGED <<live, saved, used>> /\ op' = [op EXCEPT ![w] = Idle]
  BY DEF CommitStatus, Finish
<1>6. RowKeysUsed' /\ RowKeysDistinct'
  BY <1>4, <1>5 DEF CutInv, CutExtra, RowKeysUsed, RowKeysDistinct
<1>7. row'[c].status = "deleted" /\ row[c].key # NoKey => Gone(row[c].key)
  BY <1>2, <1>3, <1>4 DEF NewStatus, Tied, Cutting
<1>8. DeletedHasNoPeer'
  BY <1>4, <1>5, <1>7 DEF CutInv, CutExtra, DeletedHasNoPeer, Gone
<1>9. ASSUME NEW u \in Worker, op'[u].pc # "idle"
      PROVE  op'[u] = op[u] /\ op[u].client \in Client \ {c} /\ Tied(op[u]) /\ op[u].pc # "idle"
  <2>1. u # w /\ op'[u] = op[u] /\ op[u].pc # "idle"
    BY <1>5, <1>9 DEF Idle, CutInv, StrongInv, BaseInv, TypeOK
  <2> QED
    BY <1>1, <1>2, <2>1, CutFacts
<1>10. \A d \in Client : row'[d].key = row[d].key
  BY <1>4
<1>11. ASSUME NEW u \in Worker, op'[u].pc # "idle", op[u].kind \in Issuing, op[u].key # NoKey
       PROVE  \A d \in Client : row'[d].key # op[u].key
  BY <1>9, <1>10, <1>11 DEF Tied
<1> QED
  BY <1>4, <1>5, <1>6, <1>8, <1>9, <1>11, RowStepCut

LEMMA RollbackCut ==
  ASSUME CutInv, NEW w \in Worker, Rollback(w)
  PROVE  CutExtra'
PROOF
<1>1. UNCHANGED <<row, live, saved, used>> /\ op' = [op EXCEPT ![w] = Idle]
  BY DEF Rollback, Finish
<1>2. RowKeysUsed' /\ RowKeysDistinct' /\ DeletedHasNoPeer'
  BY <1>1 DEF CutInv, CutExtra, RowKeysUsed, RowKeysDistinct, DeletedHasNoPeer, Gone
<1>3. ASSUME NEW u \in Worker, op'[u].pc # "idle"
      PROVE  op'[u] = op[u] /\ Tied(op[u]) /\ op[u].pc # "idle"
  BY <1>1, <1>3, CutFacts DEF Idle, CutInv, StrongInv, BaseInv, TypeOK
<1>4. ASSUME NEW u \in Worker, op'[u].pc # "idle", op[u].kind \in Issuing, op[u].key # NoKey
      PROVE  \A d \in Client : row'[d].key # op[u].key
  BY <1>1, <1>3, <1>4 DEF Tied
<1> QED
  BY <1>1, <1>2, <1>3, <1>4, RowStepCut

\* A step that changes neither keys nor statuses nor the interface.
LEMMA SameKeysCut ==
  ASSUME CutInv, UNCHANGED <<live, saved, used, op>>,
         \A d \in Client : row'[d].key = row[d].key /\ row'[d].status = row[d].status
  PROVE  CutExtra'
PROOF
<1>1. RowKeysUsed' /\ RowKeysDistinct' /\ DeletedHasNoPeer'
  BY DEF CutInv, CutExtra, RowKeysUsed, RowKeysDistinct, DeletedHasNoPeer, Gone
<1>2. ASSUME NEW u \in Worker, op[u].pc # "idle"
      PROVE  op[u].client \in Client /\ Tied(op[u])
  BY <1>2, CutFacts
<1>3. ASSUME NEW u \in Worker, op[u].pc # "idle", op[u].kind \in Issuing, op[u].key # NoKey
      PROVE  \A d \in Client : row'[d].key # op[u].key
  BY <1>2, <1>3 DEF Tied
<1> QED
  BY <1>1, <1>2, <1>3, RowStepCut

\* Limits that run out or are lifted are such steps.
LEMMA LimitsKeep ==
  ASSUME CutInv, NEW c \in Client, UpdateLimits(c) \/ \E v \in Violations : LimitReached(c, v)
  PROVE  /\ UNCHANGED <<live, saved, used, op>>
         /\ \A d \in Client : row'[d].key = row[d].key /\ row'[d].status = row[d].status
BY LimitsKeepIdentities DEF CutInv, StrongInv, BaseInv

\* An imported peer was generated and is nobody's, and it is given to one row.
LEMMA ImportedRows ==
  ASSUME CutInv, ImportRuntimePeers
  PROVE  /\ \A c \in Client : \/ row'[c] = row[c]
                            \/ /\ row[c].status = "absent"
                               /\ row'[c].status = "active" /\ row'[c].key \in used
                               /\ ~ Gone(row'[c].key)
                               /\ \A d \in Client : row[d].key # row'[c].key
         /\ \A c, d \in Client : c # d /\ row'[c] # row[c] /\ row'[d] # row[d]
                               => row'[c].key # row'[d].key
PROOF
<1>1. PICK peers \in {live, saved} : ImportsRows(peers)
  BY ImportedAddresses DEF VisiblePeers, CutInv, StrongInv, BaseInv
<1>2. \A k \in Key : peers[k] # NoPeer => k \in used /\ ~ Gone(k)
  BY <1>1 DEF CutInv, CutExtra, PeersUsed, Gone
<1> QED
  BY <1>1, <1>2 DEF ImportsRows, Orphan

LEMMA ImportCut ==
  ASSUME Assumed, CutInv, ImportRuntimePeers
  PROVE  CutExtra'
PROOF
<1>1. UNCHANGED <<live, saved, used, op>> /\ \A u \in Worker : op[u].pc = "idle"
  BY DEF ImportRuntimePeers, Assumed
<1>2. RowKeysUsed'
  BY <1>1, ImportedRows DEF CutInv, CutExtra, RowKeysUsed
<1>3. RowKeysDistinct'
  BY ImportedRows DEF CutInv, CutExtra, RowKeysDistinct
<1>4. DeletedHasNoPeer'
  BY <1>1, ImportedRows DEF CutInv, CutExtra, DeletedHasNoPeer, Gone
<1> QED
  BY <1>1, <1>2, <1>3, <1>4, RowStepCut

\* The file has no peer that was cut: no operation is about to save, or it has none at all.
LEMMA RestartCut ==
  ASSUME Assumed, CutInv, RestartContainer
  PROVE  CutExtra'
PROOF
<1>1. /\ live' = saved /\ UNCHANGED <<row, saved, op, used>>
      /\ Persistent => \A u \in Worker : op[u].pc # "save"
  BY DEF RestartContainer, Assumed
<1>2. RowKeysUsed' /\ PeersUsed' /\ RowKeysDistinct' /\ DeletedHasNoPeer'
  BY <1>1 DEF CutInv, CutExtra, RowKeysUsed, PeersUsed, RowKeysDistinct, DeletedHasNoPeer, Gone
<1>3. ASSUME NEW u \in Worker PROVE Tied(op[u])'
  <2>1. PICK p \in Op : p = op[u]
    BY CutFacts
  <2>2. Tied(p) /\ op'[u] = p /\ (Persistent => p.pc # "save")
    BY <1>1, <2>1, CutFacts
  <2>3. CASE Persistent
    <3>1. Tied(p)'
      BY <1>1, <2>2, <2>3 DEF Tied, Gone
    <3> QED
      BY <2>2, <3>1
  <2>4. CASE ~ Persistent
    <3>1. \A k \in Key : live'[k] = NoPeer /\ saved'[k] = NoPeer
      BY <1>1, <2>4 DEF CutInv, StrongInv, BaseInv, UnsavedIsEmpty
    <3>2. p.seen.key \in Key \cup {NoKey}
      BY DEF Op, Row
    <3>3. Tied(p)'
      BY <1>1, <2>2, <3>1, <3>2 DEF Tied, Gone
    <3> QED
      BY <2>2, <3>3
  <2> QED
    BY <2>3, <2>4
<1> QED
  BY <1>2, <1>3 DEF CutExtra

LEMMA NextCut == AssumedCard /\ CutInv /\ [Next]_vars => CutInv'
PROOF
<1> SUFFICES ASSUME AssumedCard, CutInv, [Next]_vars PROVE CutInv'
  OBVIOUS
<1>1. StrongInv'
  BY NextStrong DEF AssumedCard, CutInv
<1>2. ASSUME NEW w \in Worker, Step(w) PROVE CutExtra'
  BY <1>2, BeginCut, RemovePeerCut, SaveRuntimeCut, PickAddressCut, AddPeerCut, ResolveEndpointCut,
     CommitConfigCut, CommitStatusCut, RollbackCut
     DEF AssumedCard, Step, Fail, PoolExhausted, RevisionConflict
<1>3. ASSUME UNCHANGED vars PROVE CutExtra'
  <2>1. UNCHANGED <<row, live, saved, used, op>>
    BY <1>3 DEF vars
  <2>2. \A d \in Client : row'[d].key = row[d].key /\ row'[d].status = row[d].status
    BY <2>1
  <2> QED
    BY <2>1, <2>2, SameKeysCut
<1> QED
  BY <1>1, <1>2, <1>3, LimitsKeep, SameKeysCut, ImportCut, RestartCut DEF Next, CutInv, AssumedCard

LEMMA InitCut == Init => CutInv
  BY InitStrong DEF Init, CutInv, CutExtra, RowKeysUsed, PeersUsed, RowKeysDistinct, DeletedHasNoPeer,
     Gone, Tied, Absent, Idle

LEMMA AlwaysCut == ASSUME AssumedCard PROVE Spec => []CutInv
PROOF
<1>1. Init => CutInv
  BY InitCut
<1>2. CutInv /\ [Next]_vars => CutInv'
  BY NextCut
<1> QED
  BY <1>1, <1>2, PTL DEF Spec

\* A deleted client has no peer, now or after a restart, whatever failed before: for
\* either protocol.
THEOREM DeletedNeverHasPeer == ASSUME AssumedCard PROVE Spec => []DeletedHasNoPeer
PROOF
<1>1. CutInv => DeletedHasNoPeer
  BY DEF CutInv, CutExtra
<1> QED
  BY <1>1, AlwaysCut, PTL

\* Only one step turns an active client into one that is disabled or deleted.
LEMMA WhoDisables ==
  ASSUME CutInv, Next, NEW c \in Client, row[c].status = "active",
         row'[c].status \in {"disabled", "deleted"}
  PROVE  \E w \in Worker : CommitStatus(w) /\ op[w].client = c
PROOF
<1>1. row[c] \in Row /\ row' # row
  BY DEF CutInv, StrongInv, BaseInv, TypeOK
<1>2. ASSUME NEW w \in Worker, CommitConfig(w) PROVE FALSE
  <2>1. PICK p \in Op : p = op[w]
    BY CutFacts
  <2>2. row' = [row EXCEPT ![p.client] = [(IF p.kind = "create" THEN p.seen ELSE row[p.client])
                                             EXCEPT !.key = p.key, !.addr = p.addr]]
    BY <1>2, <2>1 DEF CommitConfig
  <2>3. p.kind = "create" => p.seen.status = "active"
    BY <1>2, <2>1, CutFacts, FreshTyped DEF CommitConfig, Sound
  <2>4. p.seen \in Row
    BY DEF Op
  <2> QED
    BY <1>1, <2>2, <2>3, <2>4 DEF CutInv, StrongInv, BaseInv, TypeOK, Row
<1>3. ASSUME NEW w \in Worker, CommitStatus(w) PROVE op[w].client = c
  BY <1>3 DEF CommitStatus, CutInv, StrongInv, BaseInv, TypeOK
<1>4. ASSUME NEW w \in Worker, Step(w) PROVE CommitConfig(w) \/ CommitStatus(w)
  BY <1>1, <1>4 DEF Step, Begin, RemovePeer, SaveRuntime, PickAddress, AddPeer, ResolveEndpoint,
     Fail, PoolExhausted, RevisionConflict, Rollback
<1>5. ~ RestartContainer
  BY <1>1 DEF RestartContainer
<1>6. ~ ImportRuntimePeers
  BY ImportedRows
<1> QED
  BY <1>2, <1>3, <1>4, <1>5, <1>6, LimitsKeep DEF Next

\* When an active client becomes disabled or deleted, its peer is off the interface
\* and out of the file: for either protocol.
THEOREM DisableAlwaysCutsPeer == ASSUME AssumedCard PROVE Spec => DisableCutsPeer
PROOF
<1> DEFINE Cuts == \A c \in Client :
       /\ row[c].status = "active" /\ row'[c].status \in {"disabled", "deleted"}
       /\ row'[c].key # NoKey
       => live'[row'[c].key] = NoPeer /\ saved'[row'[c].key] = NoPeer
<1>1. ASSUME CutInv, [Next]_vars PROVE [Cuts]_vars
  <2> SUFFICES ASSUME NEW c \in Client, row[c].status = "active", Next,
                      row'[c].status \in {"disabled", "deleted"}, row'[c].key # NoKey
               PROVE  live'[row'[c].key] = NoPeer /\ saved'[row'[c].key] = NoPeer
    BY <1>1
  <2>1. PICK w \in Worker : CommitStatus(w) /\ op[w].client = c
    BY <1>1, WhoDisables
  <2>2. PICK p \in Op : p = op[w]
    BY <1>1, CutFacts
  <2>3. Tied(p) /\ p.pc = "commit" /\ p.kind \notin Issuing /\ p.client = c /\ p.kind \in Kind
    BY <1>1, <2>1, <2>2, CutFacts DEF CommitStatus, Op
  <2>4. p.kind \in Cutting /\ p.seen.key = row[c].key
    BY <2>3 DEF Tied, Kind, Issuing, Cutting
  <2>5. row'[c].key = row[c].key /\ UNCHANGED <<live, saved>>
    BY <1>1, <2>1 DEF CommitStatus, CutInv, StrongInv, BaseInv, TypeOK, Row
  <2> QED
    BY <2>3, <2>4, <2>5 DEF Tied, Gone
<1>2. CutInv /\ [Next]_vars => [Cuts]_vars
  BY <1>1
<1> QED
  BY <1>2, AlwaysCut, PTL DEF Spec, DisableCutsPeer

-----------------------------------------------------------------------------
(***************************************************************************)
(* How far an operation in progress has changed its client's access, and   *)
(* the status that its end will change.  A container without a file drops  *)
(* the peers of clients whose operations all succeeded when it restarts,   *)
(* so from here on the protocol is one whose changes are saved.            *)
(***************************************************************************)
AssumedSaved == AssumedCard /\ Persistent

Admitting(o) ==
  /\ o.pc = "idle" => o.client = NoClient
  /\ o.pc # "idle" =>
       /\ o.kind # "create" => o.seen.key = row[o.client].key
       /\ o.kind \in {"disable", "enforce"} => row[o.client].status \in {"active", "deleted"}
       /\ o.kind = "delete" => row[o.client].status \in {"active", "disabled"}
       /\ o.kind \in Issuing \cup {"enable"} /\ o.key # NoKey =>
            /\ o.pc = "save" => live[o.key] # NoPeer
            /\ o.pc \in {"endpoint", "commit"} => live[o.key] # NoPeer /\ saved[o.key] # NoPeer
       /\ o.kind = "enable" /\ o.seen.due = "active" /\ revs[o.client] # <<>> =>
            o.key = row[o.client].key

\* A key in a row is in no other client's configurations.
RowKeyIsOwn == \A c, d \in Client : row[c].key \in RevisionKeys(d) => c = d

\* The file agrees with the interface about a client whose last operation did not fail
\* and that no operation is about to save.
Saving(c) == \E w \in Worker : op[w].client = c /\ op[w].pc = "save"
InStep ==
  \A c \in Client : revs[c] # <<>> /\ c \notin failed /\ ~ Saving(c) =>
    (live[row[c].key] = NoPeer <=> saved[row[c].key] = NoPeer)

AccessExtra == RowKeyIsOwn /\ InStep /\ \A w \in Worker : Admitting(op[w])
AccessInv == CutInv /\ AccessExtra

-----------------------------------------------------------------------------
\* The facts about a client with a configuration.
LEMMA ConfiguredFacts ==
  ASSUME AccessInv, NEW c \in Client, revs[c] # <<>>
  PROVE  /\ row[c].key \in Key /\ row[c].key # NoKey
         /\ row[c].key \in RevisionKeys(c)
         /\ \A d \in Client \ {c} : row[d].key # row[c].key
         /\ row[c].status # "absent"
PROOF
<1>1. row[c].key \in RevisionKeys(c) /\ row[c].key \in Key
  BY RowKeyIsRevisionKey DEF AccessInv, CutInv, StrongInv
<1>2. row[c].status # "absent"
  BY DEF AccessInv, CutInv, StrongInv, BaseInv, AbsentHasNoConfig
<1> QED
  BY <1>1, <1>2, ConstantsAssumption DEF AccessInv, CutInv, CutExtra, RowKeysDistinct

LEMMA AccessFacts ==
  ASSUME AccessInv, NEW w \in Worker
  PROVE  /\ op[w] \in Op /\ Sound(op[w]) /\ Linked(op[w]) /\ Tied(op[w]) /\ Admitting(op[w])
         /\ op[w].pc # "idle" => op[w].client \in Client
         /\ op[w].client \in Client => \A u \in Worker \ {w} : op[u].client # op[w].client
PROOF
<1>1. CutInv /\ Admitting(op[w])
  BY DEF AccessInv, AccessExtra
<1>2. op[w].client \in Client => \A u \in Worker \ {w} : op[u].client # op[w].client
  BY <1>1 DEF CutInv, StrongInv, Apart
<1> QED
  BY <1>1, <1>2, CutFacts

\* The key another operation adds or puts back is not that of this operation's client.
LEMMA AddedKeysApart ==
  ASSUME AccessInv, NEW w \in Worker, NEW u \in Worker, u # w,
         op[w].pc # "idle", op[u].pc # "idle", op[u].kind \in Issuing \cup {"enable"}, op[u].key # NoKey
  PROVE  row[op[w].client].key # op[u].key
PROOF
<1>1. op[w].client \in Client /\ op[u].client \in Client /\ op[u].client # op[w].client
  BY AccessFacts
<1>2. CASE op[u].kind \in Issuing
  BY <1>1, <1>2, AccessFacts DEF Tied
<1>3. CASE op[u].kind = "enable"
  <2>1. row[op[u].client].key = op[u].key
    BY <1>3, AccessFacts DEF Tied
  <2> QED
    BY <1>1, <2>1 DEF AccessInv, CutInv, CutExtra, RowKeysDistinct
<1> QED
  BY <1>2, <1>3

(***************************************************************************)
(* A step of one operation on the interface, after which it is o.  It keeps*)
(* the peers that other operations have added, and leaves in step every    *)
(* client but the one that it is about to save.                            *)
(***************************************************************************)
KeepsAdded(w) ==
  \A u \in Worker \ {w} :
    /\ op[u].pc # "idle" /\ op[u].kind \in Issuing \cup {"enable"} /\ op[u].key # NoKey
    /\ live[op[u].key] # NoPeer
    => live'[op[u].key] # NoPeer

LeavesInStep(w, o) ==
  \A c \in Client : revs[c] # <<>> =>
    \/ o.client = c /\ o.pc = "save"
    \/ saved' = live'
    \/ /\ ~ (op[w].client = c /\ op[w].pc = "save") /\ saved' = saved
       /\ live'[row[c].key] = NoPeer <=> live[row[c].key] = NoPeer

LEMMA OpStepAccess ==
  ASSUME AccessInv, NEW w \in Worker, NEW o \in Op,
         op' = [op EXCEPT ![w] = o], UNCHANGED <<row, revs, failed>>, Admitting(o)',
         saved' = saved \/ saved' = live, KeepsAdded(w), LeavesInStep(w, o)
  PROVE  AccessExtra'
PROOF
<1>1. \A u \in Worker : op'[u] = IF u = w THEN o ELSE op[u]
  BY DEF AccessInv, CutInv, StrongInv, BaseInv, TypeOK
<1>2. RowKeyIsOwn'
  BY DEF AccessInv, AccessExtra, RowKeyIsOwn, RevisionKeys
<1>3. ASSUME NEW u \in Worker PROVE Admitting(op[u])'
  <2>1. CASE u = w
    BY <1>1, <2>1
  <2>2. CASE u # w
    <3>1. PICK p \in Op : p = op[u]
      BY AccessFacts
    <3>2. op'[u] = p /\ Admitting(p)
      BY <3>1, <1>1, <2>2, AccessFacts
    <3>3. ASSUME p.pc # "idle", p.kind \in Issuing \cup {"enable"}, p.key # NoKey, live[p.key] # NoPeer
          PROVE  live'[p.key] # NoPeer
      BY <2>2, <3>1, <3>3 DEF KeepsAdded
    <3>4. Admitting(p)'
      BY <3>2, <3>3 DEF Admitting
    <3> QED
      BY <3>2, <3>4
  <2> QED
    BY <2>1, <2>2
<1>4. InStep'
  <2> SUFFICES ASSUME NEW c \in Client, revs[c] # <<>>, c \notin failed, ~ Saving(c)'
               PROVE  live'[row[c].key] = NoPeer <=> saved'[row[c].key] = NoPeer
    BY DEF InStep
  <2>1. \A u \in Worker : op'[u].client = c => op'[u].pc # "save"
    BY DEF Saving
  <2>2. CASE saved' = live'
    BY <2>2
  <2>3. CASE saved' # live'
    <3>1. ~ (o.client = c /\ o.pc = "save")
      BY <1>1, <2>1
    <3>2. /\ ~ (op[w].client = c /\ op[w].pc = "save") /\ saved' = saved
          /\ live'[row[c].key] = NoPeer <=> live[row[c].key] = NoPeer
      BY <2>3, <3>1 DEF LeavesInStep
    <3>3. ~ Saving(c)
      BY <1>1, <2>1, <3>2 DEF Saving
    <3> QED
      BY <3>2, <3>3 DEF AccessInv, AccessExtra, InStep
  <2> QED
    BY <2>2, <2>3
<1> QED
  BY <1>2, <1>3, <1>4 DEF AccessExtra

(***************************************************************************)
(* A step that leaves the interface alone and ends some operations.  Those *)
(* that go on keep their client's key, status and configurations.          *)
(***************************************************************************)
LEMMA RowStepAccess ==
  ASSUME AccessInv, UNCHANGED <<live, saved>>, RowKeyIsOwn', InStep',
         \A u \in Worker :
           \/ op'[u] = Idle
           \/ /\ op'[u] = op[u]
              /\ op[u].pc # "idle" => /\ row'[op[u].client].key = row[op[u].client].key
                                      /\ row'[op[u].client].status = row[op[u].client].status
                                      /\ revs'[op[u].client] = revs[op[u].client]
  PROVE  AccessExtra'
PROOF
<1>1. ASSUME NEW u \in Worker PROVE Admitting(op[u])'
  <2>1. CASE op'[u] = Idle
    BY <2>1 DEF Admitting, Idle
  <2>2. CASE op'[u] # Idle
    <3>1. PICK p \in Op : p = op[u]
      BY AccessFacts
    <3>2. /\ op'[u] = p /\ Admitting(p)
          /\ p.pc # "idle" => /\ row'[p.client].key = row[p.client].key
                              /\ row'[p.client].status = row[p.client].status
                              /\ revs'[p.client] = revs[p.client]
      BY <2>2, <3>1, AccessFacts
    <3>3. Admitting(p)'
      BY <3>2 DEF Admitting
    <3> QED
      BY <3>2, <3>3
  <2> QED
    BY <2>1, <2>2
<1> QED
  BY <1>1 DEF AccessExtra

LEMMA BeginAccess ==
  ASSUME AssumedCard, AccessInv, NEW w \in Worker, NEW c \in Client, NEW request \in Request,
         Begin(w, c, request)
  PROVE  AccessExtra'
PROOF
<1> DEFINE kind == Service(request)
           seen == IF kind = "create" THEN Fresh ELSE row[c]
           back == kind = "enable" /\ PutsPeerBack(seen, c)
           new == [pc |-> FirstStep(kind, seen, c), kind |-> kind, client |-> c, seen |-> seen,
                   key |-> IF back THEN seen.key ELSE NoKey,
                   addr |-> IF back THEN seen.addr ELSE NoAddr, rev |-> 0]
<1>1. op' = [op EXCEPT ![w] = new] /\ UNCHANGED <<row, revs, live, saved, failed>>
  BY DEF Begin
<1>2. kind \in Kind /\ seen \in Row /\ (kind # "create" => seen = row[c])
  BY FreshTyped DEF Request, Service, Kind, AccessInv, CutInv, StrongInv, BaseInv, TypeOK
<1>3. /\ kind \in {"disable", "enforce"} => row[c].status \in {"active", "deleted"}
      /\ kind = "delete" => row[c].status \in {"active", "disabled"}
      /\ kind = "enable" => row[c].status = "disabled"
  <2>1. OnCard(request, row[c].status)
    BY DEF Begin, AssumedCard
  <2>2. row[c].status \in Status
    BY DEF AccessInv, CutInv, StrongInv, BaseInv, TypeOK, Row
  <2>3. Permitted(request, c)
    BY DEF Begin
  <2> QED
    BY <2>1, <2>2, <2>3 DEF OnCard, Service, Request, Permitted, Status
<1>4. /\ FirstStep(kind, seen, c) \in {"remove", "pick", "add", "commit"}
      /\ back => FirstStep(kind, seen, c) = "add"
  BY <1>2 DEF FirstStep, Issuing, Kind
<1>5. ASSUME kind = "enable", seen.due = "active", revs[c] # <<>> PROVE back
  <2>1. seen = row[c] /\ seen.key # NoKey /\ seen.addr # NoAddr
    <3>1. revs[c] \in Seq(Revision) /\ Len(revs[c]) \in 1..Len(revs[c])
      BY <1>5, RowKeyIsRevisionKey DEF AccessInv, CutInv, StrongInv, BaseInv, TypeOK
    <3>2. revs[c][Len(revs[c])] \in Revision
      BY <3>1
    <3>3. row[c].addr \in Addr /\ row[c].key \in Key
      BY <1>5, <3>2 DEF AccessInv, CutInv, StrongInv, BaseInv, ConfigMatchesKey, Revision
    <3> QED
      BY <1>2, <1>5, <3>3, ConstantsAssumption
  <2> QED
    BY <1>3, <1>5, <2>1 DEF PutsPeerBack
<1>6. new \in Op
  BY <1>2, <1>4 DEF Op, Row, PC
<1>7. PICK o \in Op : o = new
  BY <1>6
<1>8. /\ o.pc = FirstStep(kind, seen, c) /\ o.kind = kind /\ o.client = c /\ o.seen = seen
      /\ o.key = IF back THEN seen.key ELSE NoKey
  BY <1>7
<1>9. op' = [op EXCEPT ![w] = o] /\ op[w].pc = "idle"
  BY <1>1, <1>7 DEF Begin
<1>10. back => kind = "enable"
  OBVIOUS
<1> HIDE DEF new, kind, seen, back
<1>11. Admitting(o)'
  BY <1>1, <1>2, <1>3, <1>4, <1>5, <1>8, <1>10 DEF Admitting, Issuing
<1>12. KeepsAdded(w) /\ LeavesInStep(w, o)
  BY <1>1, <1>9 DEF KeepsAdded, LeavesInStep
<1> QED
  BY <1>1, <1>9, <1>11, <1>12, OpStepAccess

LEMMA RemovePeerAccess ==
  ASSUME AccessInv, NEW w \in Worker, RemovePeer(w)
  PROVE  AccessExtra'
PROOF
<1>1. PICK p \in Op : p = op[w]
  BY AccessFacts
<1>2. PICK o \in Op : o = [p EXCEPT !.pc = "save"]
  BY DEF Op, PC
<1>3. /\ Sound(p) /\ Linked(p) /\ Tied(p) /\ Admitting(p) /\ p.pc = "remove" /\ p.client \in Client
  BY <1>1, AccessFacts DEF RemovePeer
<1>4. o.pc = "save" /\ o.kind = p.kind /\ o.client = p.client /\ o.seen = p.seen /\ o.key = NoKey
  BY <1>2, <1>3 DEF Op, Linked
<1>5. op' = [op EXCEPT ![w] = o] /\ UNCHANGED <<row, revs, saved, failed>>
  BY <1>1, <1>2 DEF RemovePeer
<1>6. p.seen.key \in Key /\ p.seen.key = row[p.client].key
  BY <1>3, FreshTyped DEF Sound, Op, Row, Admitting
<1>7. \A k \in Key : live'[k] = IF k = p.seen.key THEN NoPeer ELSE live[k]
  BY <1>1 DEF RemovePeer, AccessInv, CutInv, StrongInv, BaseInv, TypeOK, Peers
<1>8. Admitting(o)'
  BY <1>3, <1>4, <1>5, <1>6 DEF Admitting, Linked, Issuing
<1>9. ASSUME NEW u \in Worker \ {w}, op[u].pc # "idle", op[u].kind \in Issuing \cup {"enable"},
             op[u].key # NoKey, live[op[u].key] # NoPeer
      PROVE  live'[op[u].key] # NoPeer
  <2>1. op[u].key \in Key /\ op[u].key # p.seen.key
    BY <1>1, <1>3, <1>6, <1>9, AddedKeysApart, AccessFacts DEF Op
  <2> QED
    BY <1>7, <1>9, <2>1
<1>10. ASSUME NEW c \in Client, revs[c] # <<>>, c # p.client
       PROVE  live'[row[c].key] = live[row[c].key]
  BY <1>3, <1>6, <1>7, <1>10, ConfiguredFacts
<1>11. KeepsAdded(w)
  BY <1>9 DEF KeepsAdded
<1>12. LeavesInStep(w, o)
  BY <1>1, <1>3, <1>4, <1>5, <1>10 DEF LeavesInStep
<1> QED
  BY <1>5, <1>8, <1>11, <1>12, OpStepAccess

LEMMA SaveRuntimeAccess ==
  ASSUME Assumed, Persistent, AccessInv, NEW w \in Worker, SaveRuntime(w)
  PROVE  AccessExtra'
PROOF
<1>1. PICK p \in Op : p = op[w]
  BY AccessFacts
<1>2. PICK o \in Op : o = [p EXCEPT !.pc = IF p.kind \notin Issuing THEN "commit"
                                            ELSE IF p.key = NoKey THEN "pick" ELSE "endpoint"]
  BY DEF Op, PC
<1>3. Admitting(p) /\ p.pc = "save"
  BY <1>1, AccessFacts DEF SaveRuntime
<1>4. /\ o.pc = IF p.kind \notin Issuing THEN "commit"
                ELSE IF p.key = NoKey THEN "pick" ELSE "endpoint"
      /\ o.kind = p.kind /\ o.client = p.client /\ o.seen = p.seen /\ o.key = p.key
  BY <1>2 DEF Op
<1>5. op' = [op EXCEPT ![w] = o] /\ saved' = live /\ UNCHANGED <<row, revs, live, failed>>
  BY <1>1, <1>2 DEF SaveRuntime, Assumed
<1>6. Admitting(o)'
  BY <1>3, <1>4, <1>5 DEF Admitting, Issuing
<1>7. KeepsAdded(w) /\ LeavesInStep(w, o)
  BY <1>5 DEF KeepsAdded, LeavesInStep
<1> QED
  BY <1>5, <1>6, <1>7, OpStepAccess

LEMMA PickAddressAccess ==
  ASSUME AccessInv, NEW w \in Worker, PickAddress(w)
  PROVE  AccessExtra'
PROOF
<1>1. PICK p \in Op : p = op[w]
  BY AccessFacts
<1>2. PICK k \in Key \ used, a \in Addr :
        op' = [op EXCEPT ![w].pc = "add", ![w].key = k, ![w].addr = a]
  BY DEF PickAddress, FreeHosts
<1>3. PICK o \in Op : o = [p EXCEPT !.pc = "add", !.key = k, !.addr = a]
  BY <1>2 DEF Op, PC
<1>4. Admitting(p) /\ Linked(p) /\ p.pc = "pick"
  BY <1>1, AccessFacts DEF PickAddress
<1>5. o.pc = "add" /\ o.kind = p.kind /\ o.client = p.client /\ o.seen = p.seen /\ o.key = k
  BY <1>3 DEF Op
<1>6. op' = [op EXCEPT ![w] = o]
  BY <1>1, <1>2, <1>3 DEF AccessInv, CutInv, StrongInv, BaseInv, TypeOK, Op
<1>7. UNCHANGED <<row, revs, live, saved, failed>>
  BY DEF PickAddress
<1>8. p.kind \in Issuing
  BY <1>4 DEF Linked
<1>9. Admitting(o)'
  BY <1>4, <1>5, <1>7, <1>8 DEF Admitting, Issuing
<1>10. KeepsAdded(w) /\ LeavesInStep(w, o)
  BY <1>1, <1>4, <1>7 DEF KeepsAdded, LeavesInStep
<1> QED
  BY <1>6, <1>7, <1>9, <1>10, OpStepAccess

LEMMA AddPeerAccess ==
  ASSUME AccessInv, NEW w \in Worker, AddPeer(w)
  PROVE  AccessExtra'
PROOF
<1>1. PICK p \in Op : p = op[w]
  BY AccessFacts
<1>2. PICK o \in Op : o = [p EXCEPT !.pc = "save"]
  BY DEF Op, PC
<1>3. Sound(p) /\ Linked(p) /\ Tied(p) /\ Admitting(p) /\ p.pc = "add" /\ p.client \in Client
  BY <1>1, AccessFacts DEF AddPeer
<1>4. o.pc = "save" /\ o.kind = p.kind /\ o.client = p.client /\ o.seen = p.seen /\ o.key = p.key
  BY <1>2 DEF Op
<1>5. op' = [op EXCEPT ![w] = o] /\ UNCHANGED <<row, revs, saved, failed>>
  BY <1>1, <1>2 DEF AddPeer
<1>6. p.key \in Key /\ p.key # NoKey /\ p.addr \in Addr
  BY <1>3, ConstantsAssumption DEF Sound, Op
<1>7. /\ live'[p.key] # NoPeer
      /\ \A k \in Key : k # p.key => (live'[k] = NoPeer <=> live[k] = NoPeer)
  BY <1>1, <1>6, ConstantsAssumption DEF AddPeer, Connect
<1>8. Admitting(o)'
  BY <1>3, <1>4, <1>5, <1>7 DEF Admitting
<1>9. ASSUME NEW u \in Worker \ {w}, op[u].key # NoKey, live[op[u].key] # NoPeer
      PROVE  live'[op[u].key] # NoPeer
  BY <1>7, <1>9, AccessFacts DEF Op
<1>10. ASSUME NEW c \in Client, revs[c] # <<>>, c # p.client
       PROVE  live'[row[c].key] = NoPeer <=> live[row[c].key] = NoPeer
  <2>1. row[c].key # p.key
    <3>1. CASE p.kind \in Issuing
      BY <1>3, <1>6, <3>1 DEF Tied
    <3>2. CASE p.kind = "enable"
      BY <1>3, <1>6, <1>10, <3>2, ConfiguredFacts DEF Tied
    <3> QED
      BY <1>3, <3>1, <3>2 DEF Linked
  <2> QED
    BY <1>7, <1>10, <2>1, ConfiguredFacts
<1>11. KeepsAdded(w)
  BY <1>9 DEF KeepsAdded
<1>12. LeavesInStep(w, o)
  BY <1>1, <1>3, <1>4, <1>5, <1>10 DEF LeavesInStep
<1> QED
  BY <1>5, <1>8, <1>11, <1>12, OpStepAccess

LEMMA ResolveEndpointAccess ==
  ASSUME AccessInv, NEW w \in Worker, ResolveEndpoint(w)
  PROVE  AccessExtra'
PROOF
<1>1. PICK p \in Op : p = op[w]
  BY AccessFacts
<1>2. Admitting(p) /\ Linked(p) /\ p.pc = "endpoint" /\ p.client \in Client
  BY <1>1, AccessFacts DEF ResolveEndpoint
<1>3. PICK r \in Nat : r = Len(revs[p.client]) + 1
  BY <1>2 DEF AccessInv, CutInv, StrongInv, BaseInv, TypeOK
<1>4. PICK o \in Op : o = [p EXCEPT !.pc = "commit", !.rev = r]
  BY DEF Op, PC
<1>5. o.pc = "commit" /\ o.kind = p.kind /\ o.client = p.client /\ o.seen = p.seen /\ o.key = p.key
  BY <1>4 DEF Op
<1>6. op' = [op EXCEPT ![w] = o]
  BY <1>1, <1>3, <1>4 DEF ResolveEndpoint, AccessInv, CutInv, StrongInv, BaseInv, TypeOK, Op
<1>7. UNCHANGED <<row, revs, live, saved, failed>>
  BY DEF ResolveEndpoint
<1>8. Admitting(o)'
  BY <1>2, <1>5, <1>7 DEF Admitting, Linked, Issuing
<1>9. KeepsAdded(w) /\ LeavesInStep(w, o)
  BY <1>1, <1>2, <1>7 DEF KeepsAdded, LeavesInStep
<1> QED
  BY <1>6, <1>7, <1>8, <1>9, OpStepAccess

-----------------------------------------------------------------------------
\* The commit of one operation leaves the other clients in step.
LEMMA OthersInStep ==
  ASSUME AccessInv, NEW w \in Worker, NEW c \in Client, op[w].client = c, op' = [op EXCEPT ![w] = Idle],
         UNCHANGED <<live, saved>>, failed \subseteq failed' \cup {c},
         NEW d \in Client \ {c}, row'[d] = row[d], revs'[d] = revs[d], revs[d] # <<>>,
         d \notin failed', ~ Saving(d)'
  PROVE  live'[row'[d].key] = NoPeer <=> saved'[row'[d].key] = NoPeer
PROOF
<1>1. \A u \in Worker \ {w} : op'[u] = op[u]
  BY DEF AccessInv, CutInv, StrongInv, BaseInv, TypeOK
<1>2. ~ Saving(d)
  BY <1>1 DEF Saving
<1> QED
  BY <1>2 DEF AccessInv, AccessExtra, InStep

\* The operations that go on after it are on other clients.
LEMMA OthersGoOn ==
  ASSUME AccessInv, NEW w \in Worker, op' = [op EXCEPT ![w] = Idle],
         NEW u \in Worker, op'[u] # Idle
  PROVE  op'[u] = op[u] /\ (op[u].pc # "idle" => op[u].client \in Client \ {op[w].client})
PROOF
<1>1. u # w /\ op'[u] = op[u]
  BY DEF AccessInv, CutInv, StrongInv, BaseInv, TypeOK
<1> QED
  BY <1>1, CutFacts DEF AccessInv

LEMMA CommitConfigAccess ==
  ASSUME AccessInv, NEW w \in Worker, CommitConfig(w)
  PROVE  AccessExtra'
PROOF
<1>1. PICK p \in Op : p = op[w]
  BY AccessFacts
<1>2. PICK c \in Client : c = p.client
  BY <1>1, AccessFacts DEF CommitConfig
<1>3. Sound(p) /\ Linked(p) /\ Tied(p) /\ Admitting(p) /\ p.pc = "commit" /\ p.kind \in Issuing
  BY <1>1, AccessFacts DEF CommitConfig
<1>4. PICK v \in Revision : v = [key |-> p.key, addr |-> p.addr]
  BY <1>3, ConstantsAssumption DEF Sound, Op, Revision
<1>5. v.key = p.key /\ p.key \in Key /\ p.key # NoKey
  BY <1>3, <1>4, ConstantsAssumption DEF Sound, Op
<1>6. row'[c].key = p.key /\ \A d \in Client \ {c} : row'[d] = row[d]
  BY <1>1, <1>2, <1>3 DEF CommitConfig, Op, CutInv, AccessInv, StrongInv, BaseInv, TypeOK, Row
<1>7. /\ revs[c] \in Seq(Revision) /\ revs'[c] = Append(revs[c], v)
      /\ \A d \in Client \ {c} : revs'[d] = revs[d]
  BY <1>1, <1>2, <1>4 DEF CommitConfig, CutInv, AccessInv, StrongInv, BaseInv, TypeOK
<1>8. UNCHANGED <<live, saved>> /\ op' = [op EXCEPT ![w] = Idle] /\ failed' = failed \ {c}
  BY <1>1, <1>2 DEF CommitConfig, Finish
<1>9. ASSUME NEW x \in Client, NEW d \in Client, row'[x].key \in RevisionKeys(d)'
      PROVE  x = d
  <2>1. row'[x].key \in RevisionKeys(d) \/ (d = c /\ row'[x].key = p.key)
    <3>1. PICK i \in 1..Len(revs'[d]) : row'[x].key = revs'[d][i].key
      BY <1>9 DEF RevisionKeys
    <3>2. CASE d = c
      <4>1. Len(revs'[c]) = Len(revs[c]) + 1 /\ Len(revs[c]) \in Nat
        BY <1>7
      <4>2. CASE i = Len(revs[c]) + 1
        BY <1>5, <1>7, <3>1, <3>2, <4>2
      <4>3. CASE i # Len(revs[c]) + 1
        <5>1. i \in 1..Len(revs[c])
          BY <3>1, <3>2, <4>1, <4>3
        <5>2. revs'[c][i] = revs[c][i]
          BY <1>7, <5>1
        <5> QED
          BY <3>1, <3>2, <5>1, <5>2 DEF RevisionKeys
      <4> QED
        BY <4>2, <4>3
    <3>3. CASE d # c
      BY <1>7, <3>1, <3>3 DEF RevisionKeys
    <3> QED
      BY <3>2, <3>3
  <2>2. CASE x = c
    BY <1>3, <1>5, <1>6, <2>1, <2>2 DEF Linked
  <2>3. CASE x # c
    <3>1. row'[x].key = row[x].key /\ row[x].key # p.key
      BY <1>3, <1>5, <1>6, <2>3 DEF Tied
    <3> QED
      BY <2>1, <3>1 DEF AccessInv, AccessExtra, RowKeyIsOwn
  <2> QED
    BY <2>2, <2>3
<1>10. live[p.key] # NoPeer /\ saved[p.key] # NoPeer
  BY <1>3, <1>5 DEF Admitting
<1>11. InStep'
  BY <1>1, <1>2, <1>6, <1>7, <1>8, <1>10, OthersInStep DEF InStep
<1>12. RowKeyIsOwn'
  BY <1>9 DEF RowKeyIsOwn
<1> QED
  BY <1>1, <1>2, <1>6, <1>7, <1>8, <1>11, <1>12, OthersGoOn, RowStepAccess

\* Whoever saves a status has done with the interface, unless enabling was refused.
LEMMA CommitStatusAccess ==
  ASSUME AccessInv, NEW w \in Worker, CommitStatus(w)
  PROVE  AccessExtra'
PROOF
<1>1. PICK p \in Op : p = op[w]
  BY AccessFacts
<1>2. PICK c \in Client : c = p.client
  BY <1>1, AccessFacts DEF CommitStatus
<1>3. Tied(p) /\ Admitting(p) /\ p.pc = "commit" /\ p.kind \notin Issuing /\ p.kind \in Kind
  BY <1>1, AccessFacts DEF CommitStatus, Op
<1>4. \A d \in Client : row'[d].key = row[d].key /\ (d # c => row'[d] = row[d])
  BY <1>1, <1>2 DEF CommitStatus, AccessInv, CutInv, StrongInv, BaseInv, TypeOK, Row
<1>5. /\ UNCHANGED <<revs, live, saved>> /\ op' = [op EXCEPT ![w] = Idle]
      /\ failed' = IF Refused(p) THEN failed ELSE failed \ {c}
  BY <1>1, <1>2 DEF CommitStatus, Finish
<1>6. RowKeyIsOwn'
  BY <1>4, <1>5 DEF AccessInv, AccessExtra, RowKeyIsOwn, RevisionKeys
<1>7. ASSUME revs[c] # <<>>, c \notin failed'
      PROVE  live[row[c].key] = NoPeer <=> saved[row[c].key] = NoPeer
  <2>1. CASE Refused(p)
    <3>1. ~ Saving(c)
      BY <1>1, <1>2, <1>3, AccessFacts DEF Saving
    <3> QED
      BY <1>5, <1>7, <2>1, <3>1 DEF AccessInv, AccessExtra, InStep
  <2>2. CASE p.kind \in Cutting
    BY <1>2, <1>3, <1>7, <2>2, ConfiguredFacts DEF Tied, Gone
  <2>3. CASE p.kind = "enable" /\ p.seen.due = "active"
    BY <1>2, <1>3, <1>7, <2>3, ConfiguredFacts DEF Admitting
  <2> QED
    BY <1>3, <2>1, <2>2, <2>3 DEF Refused, Kind, Issuing, Cutting
<1>8. InStep'
  <2>1. ASSUME NEW d \in Client \ {c}, revs[d] # <<>>, d \notin failed', ~ Saving(d)'
        PROVE  live'[row'[d].key] = NoPeer <=> saved'[row'[d].key] = NoPeer
    <3>1. row'[d] = row[d] /\ revs'[d] = revs[d] /\ op[w].client = c
      BY <1>1, <1>2, <1>4, <1>5
    <3>2. failed \subseteq failed' \cup {c}
      BY <1>5
    <3> QED
      BY <1>5, <2>1, <3>1, <3>2, OthersInStep
  <2> QED
    BY <1>4, <1>5, <1>7, <2>1 DEF InStep
<1>9. ASSUME NEW u \in Worker, op'[u] # Idle
      PROVE  op'[u] = op[u] /\ (op[u].pc # "idle" => op[u].client \in Client \ {c})
  BY <1>1, <1>2, <1>5, <1>9, OthersGoOn
<1> QED
  BY <1>4, <1>5, <1>6, <1>8, <1>9, RowStepAccess

LEMMA RollbackAccess ==
  ASSUME AccessInv, NEW w \in Worker, op[w].pc # "idle", Rollback(w)
  PROVE  AccessExtra'
PROOF
<1>1. PICK c \in Client : c = op[w].client
  BY AccessFacts
<1>2. /\ UNCHANGED <<row, revs, live, saved>> /\ op' = [op EXCEPT ![w] = Idle]
      /\ failed' = failed \cup {c}
  BY <1>1 DEF Rollback, Finish
<1>3. RowKeyIsOwn'
  BY <1>2 DEF AccessInv, AccessExtra, RowKeyIsOwn, RevisionKeys
<1>4. InStep'
  BY <1>1, <1>2, OthersInStep DEF InStep
<1>5. ASSUME NEW u \in Worker, op'[u] # Idle
      PROVE  op'[u] = op[u]
  BY <1>2, <1>5, OthersGoOn
<1> QED
  BY <1>2, <1>3, <1>4, <1>5, RowStepAccess

-----------------------------------------------------------------------------
\* A step that changes neither keys nor statuses nor the interface.
LEMMA SameKeysAccess ==
  ASSUME AccessInv, UNCHANGED <<revs, live, saved, op, failed>>,
         \A d \in Client : row'[d].key = row[d].key /\ row'[d].status = row[d].status
  PROVE  AccessExtra'
PROOF
<1>1. RowKeyIsOwn' /\ InStep'
  BY DEF AccessInv, AccessExtra, RowKeyIsOwn, RevisionKeys, InStep, Saving
<1>2. \A u \in Worker : op[u].pc # "idle" => op[u].client \in Client
  BY AccessFacts
<1> QED
  BY <1>1, <1>2, RowStepAccess

\* A client's keys: those of its old configurations, and that of its row.
LEMMA RevisionKeyIsOldOrCurrent ==
  ASSUME BaseInv, NEW c \in Client, NEW k \in RevisionKeys(c)
  PROVE  k \in Superseded(c) \/ (revs[c] # <<>> /\ k = row[c].key)
PROOF
<1>1. revs[c] \in Seq(Revision)
  BY DEF BaseInv, TypeOK
<1>2. PICK i \in 1..Len(revs[c]) : k = revs[c][i].key
  BY DEF RevisionKeys
<1>3. revs[c] # <<>> /\ (i = Len(revs[c]) \/ i \in 1..(Len(revs[c]) - 1))
  BY <1>1, <1>2
<1> QED
  BY <1>2, <1>3, RowKeyIsRevisionKey DEF Superseded

\* An imported peer is on the interface, so it is no client's old key.
LEMMA ImportAccess ==
  ASSUME Assumed, AccessInv, ImportRuntimePeers
  PROVE  AccessExtra'
PROOF
<1>1. UNCHANGED <<revs, live, saved, op, failed>> /\ \A u \in Worker : op[u].pc = "idle"
  BY DEF ImportRuntimePeers, Assumed
<1>2. CutInv /\ StrongInv /\ BaseInv
  BY DEF AccessInv, CutInv, StrongInv
<1>3. ASSUME NEW c \in Client, NEW d \in Client, row'[c].key \in RevisionKeys(d)
      PROVE  c = d
  <2>1. CASE row'[c] = row[c]
    BY <1>3, <2>1 DEF AccessInv, AccessExtra, RowKeyIsOwn
  <2>2. CASE row'[c] # row[c]
    <3>1. ~ Gone(row'[c].key) /\ row[d].key # row'[c].key
      BY <1>2, <2>2, ImportedRows
    <3>2. row'[c].key \notin Superseded(d)
      BY <1>2, <3>1 DEF StrongInv, SupersededNotLive
    <3> QED
      BY <1>2, <1>3, <3>1, <3>2, RevisionKeyIsOldOrCurrent
  <2> QED
    BY <2>1, <2>2
<1>4. \A c \in Client : revs[c] # <<>> => row'[c] = row[c]
  BY <1>2, ImportedRows DEF BaseInv, AbsentHasNoConfig
<1>5. RowKeyIsOwn'
  BY <1>1, <1>3 DEF RowKeyIsOwn, RevisionKeys
<1>6. InStep'
  BY <1>1, <1>4 DEF AccessInv, AccessExtra, InStep, Saving
<1> QED
  BY <1>1, <1>5, <1>6, RowStepAccess

\* The interface is now the file.
LEMMA RestartAccess ==
  ASSUME Assumed, Persistent, AccessInv, RestartContainer
  PROVE  AccessExtra'
PROOF
<1>1. /\ live' = saved /\ UNCHANGED <<row, revs, saved, op, failed>>
      /\ \A u \in Worker : op[u].pc # "save"
  BY DEF RestartContainer, Assumed
<1>2. RowKeyIsOwn' /\ InStep'
  BY <1>1 DEF AccessInv, AccessExtra, RowKeyIsOwn, RevisionKeys, InStep
<1>3. ASSUME NEW u \in Worker PROVE Admitting(op[u])'
  <2>1. PICK p \in Op : p = op[u]
    BY AccessFacts
  <2>2. Admitting(p) /\ op'[u] = p /\ p.pc # "save"
    BY <1>1, <2>1, AccessFacts
  <2>3. Admitting(p)'
    BY <1>1, <2>2 DEF Admitting
  <2> QED
    BY <2>2, <2>3
<1> QED
  BY <1>2, <1>3 DEF AccessExtra

LEMMA NextAccess == AssumedSaved /\ AccessInv /\ [Next]_vars => AccessInv'
PROOF
<1> SUFFICES ASSUME AssumedSaved, AccessInv, [Next]_vars PROVE AccessInv'
  OBVIOUS
<1>1. CutInv /\ CutInv'
  BY NextCut DEF AccessInv, AssumedSaved
<1>2. ASSUME NEW w \in Worker, Step(w) PROVE AccessExtra'
  BY <1>2, BeginAccess, RemovePeerAccess, SaveRuntimeAccess, PickAddressAccess, AddPeerAccess,
     ResolveEndpointAccess, CommitConfigAccess, CommitStatusAccess, RollbackAccess
     DEF AssumedSaved, AssumedCard, Step, Fail, PoolExhausted, RevisionConflict
<1>3. ASSUME UNCHANGED vars PROVE AccessExtra'
  <2>1. /\ UNCHANGED <<revs, live, saved, op, failed>>
        /\ \A d \in Client : row'[d].key = row[d].key /\ row'[d].status = row[d].status
    BY <1>3 DEF vars
  <2> QED
    BY <2>1, SameKeysAccess
<1>4. ASSUME NEW c \in Client, UpdateLimits(c) \/ \E v \in Violations : LimitReached(c, v)
      PROVE  AccessExtra'
  BY <1>1, <1>4, LimitsKeep, SameKeysAccess DEF UpdateLimits, LimitReached
<1> QED
  BY <1>1, <1>2, <1>3, <1>4, ImportAccess, RestartAccess DEF Next, AccessInv, AssumedSaved, AssumedCard

LEMMA AlwaysAccess == ASSUME AssumedSaved PROVE Spec => []AccessInv
PROOF
<1>1. Init => AccessInv
  BY InitCut DEF Init, AccessInv, AccessExtra, RowKeyIsOwn, RevisionKeys, InStep, Admitting, Idle
<1>2. AccessInv /\ [Next]_vars => AccessInv'
  BY NextAccess
<1> QED
  BY <1>1, <1>2, PTL DEF Spec

-----------------------------------------------------------------------------
(***************************************************************************)
(* The state of ClientAccess that a state of ClientLifecycle stands for.   *)
(***************************************************************************)
LEMMA KeysOfRevisions ==
  ASSUME NEW s \in Seq(Revision), NEW t, t = [i \in DOMAIN s |-> s[i].key]
  PROVE  /\ t \in Seq(Key) /\ Len(t) = Len(s) /\ \A i \in 1..Len(s) : t[i] = s[i].key
         /\ t = <<>> <=> s = <<>>
PROOF
<1>1. PICK n \in Nat : n = Len(s) /\ DOMAIN s = 1..n
  OBVIOUS
<1>2. ASSUME NEW i \in 1..n PROVE s[i].key \in Key
  <2>1. s[i] \in Revision
    BY <1>1
  <2> QED
    BY <2>1 DEF Revision
<1>3. t \in [1..n -> Key] /\ \A i \in 1..n : t[i] = s[i].key
  BY <1>1, <1>2
<1>4. t \in Seq(Key)
  BY <1>3
<1>5. Len(t) = n
  BY <1>1, <1>3, <1>4, LenProperties
<1>6. t = <<>> <=> s = <<>>
  BY <1>1, <1>4, <1>5, EmptySeq
<1> QED
  BY <1>1, <1>3, <1>4, <1>5, <1>6

LEMMA IssuedAre ==
  ASSUME TypeOK, NEW c \in Client
  PROVE  /\ Issued[c] \in Seq(Key) /\ Len(Issued[c]) = Len(revs[c])
         /\ \A i \in 1..Len(revs[c]) : Issued[c][i] = revs[c][i].key
         /\ Issued[c] = <<>> <=> revs[c] = <<>>
PROOF
<1>1. revs[c] \in Seq(Revision) /\ Issued[c] = [i \in DOMAIN revs[c] |-> revs[c][i].key]
  BY DEF TypeOK, Issued
<1> QED
  BY <1>1, KeysOfRevisions

LEMMA IssuedKeysAre ==
  ASSUME TypeOK
  PROVE  IssuedKeys = UNION {RevisionKeys(c) : c \in Client}
PROOF
<1>1. \A c \in Client : DOMAIN revs[c] = 1..Len(revs[c])
  BY DEF TypeOK
<1> QED
  BY <1>1 DEF IssuedKeys, RevisionKeys

LEMMA CurrentAccess ==
  ASSUME AccessInv, NEW c \in Client
  PROVE  /\ Shown[c] = row[c].status
         /\ Issued[c] # <<>> <=> revs[c] # <<>>
         /\ revs[c] # <<>> => /\ Access!Current(c) = row[c].key
                              /\ row[c].key \in AcceptedKeys <=> live[row[c].key] # NoPeer
         /\ Access!CutOff(c) <=> (revs[c] # <<>> => live[row[c].key] = NoPeer)
PROOF
<1>1. BaseInv /\ TypeOK
  BY DEF AccessInv, CutInv, StrongInv, BaseInv
<1>2. Shown[c] = row[c].status
  BY DEF Shown
<1>3. Issued[c] # <<>> <=> revs[c] # <<>>
  BY <1>1, IssuedAre
<1>4. ASSUME revs[c] # <<>>
      PROVE  /\ Issued[c][Len(Issued[c])] = row[c].key
             /\ row[c].key \in AcceptedKeys <=> live[row[c].key] # NoPeer
  <2>1. Issued[c][Len(Issued[c])] = row[c].key /\ row[c].key \in RevisionKeys(c)
    BY <1>1, <1>4, IssuedAre, RowKeyIsRevisionKey
  <2>2. row[c].key \in IssuedKeys
    BY <1>1, <2>1, IssuedKeysAre
  <2> QED
    BY <2>1, <2>2 DEF AcceptedKeys
<1> QED
  BY <1>2, <1>3, <1>4 DEF Access!Current, Access!CutOff

-----------------------------------------------------------------------------
\* A step that leaves the database alone changes nothing but the accepted keys.
LEMMA SameDatabase ==
  ASSUME UNCHANGED <<row, revs>>
  PROVE  /\ UNCHANGED <<Shown, Issued, IssuedKeys>>
         /\ AcceptedKeys' = {k \in IssuedKeys : live'[k] # NoPeer}
PROOF
<1>1. UNCHANGED <<Shown, Issued, IssuedKeys>>
  BY DEF Shown, Issued, IssuedKeys
<1> QED
  BY <1>1 DEF AcceptedKeys

LEMMA SameClients ==
  ASSUME AccessInv, NEW w \in Worker, NEW o \in Op, op' = [op EXCEPT ![w] = o], o.client = op[w].client
  PROVE  UNCHANGED Changing
PROOF
<1>1. \A u \in Worker : op'[u].client = op[u].client
  BY DEF AccessInv, CutInv, StrongInv, BaseInv, TypeOK
<1> QED
  BY <1>1 DEF Changing, Busy

LEMMA OperationEnds ==
  ASSUME AccessInv, NEW w \in Worker, NEW c \in Client, op[w].client = c, op' = [op EXCEPT ![w] = Idle]
  PROVE  c \in Changing /\ Changing' = Changing \ {c}
PROOF
<1>1. \A u \in Worker : op'[u] = IF u = w THEN Idle ELSE op[u]
  BY DEF AccessInv, CutInv, StrongInv, BaseInv, TypeOK
<1>2. Idle.client \notin Client
  BY ConstantsAssumption DEF Idle
<1>3. \A u \in Worker \ {w} : op[u].client # c
  BY AccessFacts
<1>4. \A d \in Client : Busy(d)' <=> Busy(d) /\ d # c
  BY <1>1, <1>2, <1>3 DEF Busy
<1> QED
  BY <1>4 DEF Changing, Busy

-----------------------------------------------------------------------------
Stutters == UNCHANGED <<Shown, Issued, AcceptedKeys, Changing, failed>>

LEMMA BeginMaps ==
  ASSUME Assumed, AccessInv, NEW w \in Worker, NEW c \in Client, NEW request \in Request,
         Begin(w, c, request)
  PROVE  Access!Begins(c)
PROOF
<1>1. /\ UNCHANGED <<row, revs, live, failed>> /\ ~ Busy(c) /\ op[w].pc = "idle"
      /\ op'[w].client = c /\ \A u \in Worker \ {w} : op'[u] = op[u]
  BY DEF Begin, Assumed, AccessInv, CutInv, StrongInv, BaseInv, TypeOK
<1>2. UNCHANGED <<Shown, Issued, AcceptedKeys>>
  BY <1>1, SameDatabase DEF AcceptedKeys
<1>3. op[w].client \notin Client
  BY <1>1, AccessFacts, ConstantsAssumption DEF Admitting
<1>4. \A d \in Client : Busy(d)' <=> Busy(d) \/ d = c
  BY <1>1, <1>3 DEF Busy
<1>5. c \notin Changing /\ Changing' = Changing \cup {c}
  BY <1>1, <1>4 DEF Changing
<1> QED
  BY <1>1, <1>2, <1>5 DEF Access!Begins

\* A removed peer is the current one of the operation's client, unless the client was
\* imported and has no configuration.
LEMMA RemovePeerMaps ==
  ASSUME AccessInv, NEW w \in Worker, RemovePeer(w)
  PROVE  Stutters \/ \E c \in Client : Access!Cut(c)
PROOF
<1>1. PICK p \in Op : p = op[w]
  BY AccessFacts
<1>2. PICK o \in Op : o = [p EXCEPT !.pc = "save"]
  BY DEF Op, PC
<1>3. PICK c \in Client : c = p.client
  BY <1>1, AccessFacts DEF RemovePeer
<1>4. Sound(p) /\ Admitting(p) /\ p.pc = "remove"
  BY <1>1, AccessFacts DEF RemovePeer
<1>5. p.seen.key \in Key /\ p.seen.key = row[c].key
  BY <1>3, <1>4, FreshTyped DEF Sound, Op, Row, Admitting
<1>6. UNCHANGED <<row, revs, failed>> /\ op' = [op EXCEPT ![w] = o] /\ o.client = op[w].client
  BY <1>1, <1>2 DEF RemovePeer, Op
<1>7. \A k \in Key : live'[k] = IF k = row[c].key THEN NoPeer ELSE live[k]
  BY <1>1, <1>5 DEF RemovePeer, AccessInv, CutInv, StrongInv, BaseInv, TypeOK, Peers
<1>8. UNCHANGED <<Shown, Issued, IssuedKeys, Changing>>
  BY <1>6, SameDatabase, SameClients
<1>9. IssuedKeys \subseteq Key
  BY IssuedKeysAre, SupersededIsRevisionKey DEF AccessInv, CutInv, StrongInv, BaseInv
<1>10. AcceptedKeys' = AcceptedKeys \ {row[c].key}
  BY <1>7, <1>8, <1>9 DEF AcceptedKeys
<1>11. c \in Changing
  BY <1>1, <1>3 DEF Changing, Busy
<1>12. CASE revs[c] # <<>>
  BY <1>6, <1>8, <1>10, <1>11, <1>12, CurrentAccess DEF Access!Cut
<1>13. CASE revs[c] = <<>>
  <2>1. row[c].key \notin IssuedKeys
    <3>1. RevisionKeys(c) = {}
      BY <1>13 DEF RevisionKeys
    <3> QED
      BY <3>1, IssuedKeysAre DEF AccessInv, AccessExtra, RowKeyIsOwn, CutInv, StrongInv, BaseInv
  <2> QED
    BY <1>6, <1>8, <1>10, <2>1 DEF Stutters, AcceptedKeys
<1> QED
  BY <1>12, <1>13

LEMMA QuietStepMaps ==
  ASSUME AccessInv, NEW w \in Worker, SaveRuntime(w) \/ PickAddress(w) \/ ResolveEndpoint(w)
  PROVE  Stutters
PROOF
<1>1. UNCHANGED <<row, revs, live, failed>>
  BY DEF SaveRuntime, PickAddress, ResolveEndpoint
<1>2. ASSUME NEW u \in Worker PROVE op'[u].client = op[u].client
  <2>1. op \in [Worker -> Op] /\ op[u] \in Op
    BY DEF AccessInv, CutInv, StrongInv, BaseInv, TypeOK
  <2>2. CASE SaveRuntime(w)
    BY <2>1, <2>2 DEF SaveRuntime, Op
  <2>3. CASE PickAddress(w)
    <3>1. PICK k, a : op' = [op EXCEPT ![w].pc = "add", ![w].key = k, ![w].addr = a]
      BY <2>3 DEF PickAddress
    <3> QED
      BY <2>1, <3>1 DEF Op
  <2>4. CASE ResolveEndpoint(w)
    BY <2>1, <2>4 DEF ResolveEndpoint, Op
  <2> QED
    BY <2>2, <2>3, <2>4
<1>3. UNCHANGED <<Changing, Shown, Issued, AcceptedKeys>>
  BY <1>1, <1>2, SameDatabase DEF Changing, Busy, AcceptedKeys
<1> QED
  BY <1>1, <1>3 DEF Stutters

\* The added peer is a disabled client's current one, or is in no configuration yet.
LEMMA AddPeerMaps ==
  ASSUME AccessInv, NEW w \in Worker, AddPeer(w)
  PROVE  Stutters \/ \E c \in Client : Access!Admit(c)
PROOF
<1>1. PICK p \in Op : p = op[w]
  BY AccessFacts
<1>2. PICK o \in Op : o = [p EXCEPT !.pc = "save"]
  BY DEF Op, PC
<1>3. PICK c \in Client : c = p.client
  BY <1>1, AccessFacts DEF AddPeer
<1>4. Sound(p) /\ Linked(p) /\ Tied(p) /\ p.pc = "add"
  BY <1>1, AccessFacts DEF AddPeer
<1>5. p.key \in Key /\ p.key # NoKey /\ p.addr \in Addr
  BY <1>4, ConstantsAssumption DEF Sound, Op
<1>6. UNCHANGED <<row, revs, failed>> /\ op' = [op EXCEPT ![w] = o] /\ o.client = op[w].client
  BY <1>1, <1>2 DEF AddPeer, Op
<1>7. \A k \in Key : live'[k] # NoPeer <=> k = p.key \/ live[k] # NoPeer
  BY <1>1, <1>5, ConstantsAssumption DEF AddPeer, Connect
<1>8. UNCHANGED <<Shown, Issued, IssuedKeys, Changing>>
  BY <1>6, SameDatabase, SameClients
<1>9. IssuedKeys \subseteq Key
  BY IssuedKeysAre, SupersededIsRevisionKey DEF AccessInv, CutInv, StrongInv, BaseInv
<1>10. CASE p.kind \in Issuing
  <2>1. p.key \notin IssuedKeys
    BY <1>4, <1>5, <1>10, IssuedKeysAre DEF Linked, AccessInv, CutInv, StrongInv, BaseInv
  <2>2. AcceptedKeys' = AcceptedKeys
    BY <1>7, <1>8, <1>9, <2>1 DEF AcceptedKeys
  <2> QED
    BY <1>6, <1>8, <2>2 DEF Stutters
<1>11. CASE p.kind = "enable"
  <2>1. p.key = row[c].key /\ revs[c] # <<>> /\ row[c].status = "disabled"
    BY <1>3, <1>4, <1>5, <1>11 DEF Linked, Tied
  <2>2. p.key \in IssuedKeys
    BY <2>1, ConfiguredFacts, IssuedKeysAre DEF AccessInv, CutInv, StrongInv, BaseInv
  <2>3. AcceptedKeys' = AcceptedKeys \cup {p.key}
    BY <1>7, <1>8, <1>9, <2>2 DEF AcceptedKeys
  <2>4. c \in Changing
    BY <1>1, <1>3 DEF Changing, Busy
  <2>5. Access!Admit(c)
    BY <1>6, <1>8, <2>1, <2>3, <2>4, CurrentAccess DEF Access!Admit
  <2> QED
    BY <2>5
<1> QED
  BY <1>4, <1>10, <1>11 DEF Linked

-----------------------------------------------------------------------------
\* The new configuration's key is the last of the client's and in nobody's else's.
LEMMA IssuedAfterCommit ==
  ASSUME TypeOK, TypeOK', NEW c \in Client, NEW v \in Revision, revs' = [revs EXCEPT ![c] = Append(@, v)]
  PROVE  /\ Issued' = [Issued EXCEPT ![c] = Append(@, v.key)]
         /\ IssuedKeys' = IssuedKeys \cup {v.key}
PROOF
<1>1. PICK n \in Nat : n = Len(revs[c])
  BY DEF TypeOK
<1>2. /\ Len(revs'[c]) = n + 1 /\ revs'[c][n + 1] = v
      /\ \A i \in 1..n : revs'[c][i] = revs[c][i]
      /\ \A d \in Client \ {c} : revs'[d] = revs[d]
  BY <1>1 DEF TypeOK
<1>3. v.key \in Key
  BY DEF Revision
<1>4. Issued'[c] = Append(Issued[c], v.key)
  <2>1. /\ Issued'[c] \in Seq(Key) /\ Len(Issued'[c]) = n + 1
        /\ \A i \in 1..(n + 1) : Issued'[c][i] = revs'[c][i].key
    <3>1. PICK s \in Seq(Revision) : s = revs'[c]
      BY DEF TypeOK
    <3>2. Issued'[c] = [i \in DOMAIN s |-> s[i].key]
      BY <3>1 DEF Issued
    <3>3. Issued'[c] \in Seq(Key) /\ Len(Issued'[c]) = Len(s) /\ \A i \in 1..Len(s) : Issued'[c][i] = s[i].key
      BY <3>2, KeysOfRevisions
    <3>4. Len(s) = n + 1
      BY <1>2, <3>1
    <3> QED
      BY <3>1, <3>3, <3>4
  <2>2. Issued[c] \in Seq(Key) /\ Len(Issued[c]) = n /\ \A i \in 1..n : Issued[c][i] = revs[c][i].key
    BY <1>1, IssuedAre
  <2>3. PICK t \in Seq(Key) : t = Append(Issued[c], v.key)
    <3>1. PICK q \in Seq(Key) : q = Issued[c]
      BY <2>2
    <3>2. Append(q, v.key) \in Seq(Key)
      BY <1>3
    <3> QED
      BY <3>1, <3>2
  <2>4. Len(t) = n + 1 /\ t[n + 1] = v.key /\ \A i \in 1..n : t[i] = Issued[c][i]
    BY <1>3, <2>2, <2>3
  <2>5. \A i \in 1..(n + 1) : Issued'[c][i] = t[i]
    <3> SUFFICES ASSUME NEW i \in 1..(n + 1) PROVE Issued'[c][i] = t[i]
      OBVIOUS
    <3>1. CASE i = n + 1
      BY <1>2, <2>1, <2>4, <3>1
    <3>2. CASE i \in 1..n
      BY <1>2, <2>1, <2>2, <2>4, <3>2
    <3> QED
      BY <3>1, <3>2
  <2> QED
    BY <2>1, <2>3, <2>4, <2>5, SeqEqual
<1>5. \A d \in Client \ {c} : Issued'[d] = Issued[d]
  BY <1>2 DEF Issued
<1>6. Issued' = [Issued EXCEPT ![c] = Append(@, v.key)]
  <2>1. Issued' = [d \in Client |-> Issued'[d]] /\ Issued = [d \in Client |-> Issued[d]]
    BY DEF Issued
  <2> QED
    BY <1>4, <1>5, <2>1
<1>7. RevisionKeys(c)' = RevisionKeys(c) \cup {v.key}
  <2>1. 1..(n + 1) = 1..n \cup {n + 1}
    BY <1>1
  <2> QED
    BY <1>1, <1>2, <2>1 DEF RevisionKeys
<1>8. \A d \in Client \ {c} : RevisionKeys(d)' = RevisionKeys(d)
  BY <1>2 DEF RevisionKeys
<1>9. IssuedKeys = UNION {RevisionKeys(d) : d \in Client}
  BY IssuedKeysAre
<1>10. IssuedKeys' = UNION {RevisionKeys(d)' : d \in Client}
  <2>1. \A d \in Client : DOMAIN revs'[d] = 1..Len(revs'[d])
    BY DEF TypeOK
  <2> QED
    BY <2>1 DEF IssuedKeys, RevisionKeys
<1> QED
  BY <1>6, <1>7, <1>8, <1>9, <1>10

LEMMA CommitConfigMaps ==
  ASSUME AccessInv, AccessInv', NEW w \in Worker, CommitConfig(w)
  PROVE  \E c \in Client, k \in Key : Access!Issue(c, k)
PROOF
<1>1. PICK p \in Op : p = op[w]
  BY AccessFacts
<1>2. PICK c \in Client : c = p.client
  BY <1>1, AccessFacts DEF CommitConfig
<1>3. /\ Sound(p) /\ Linked(p) /\ Tied(p) /\ Admitting(p) /\ p.pc = "commit"
      /\ p.kind \in Issuing /\ p.kind \in Kind
  BY <1>1, AccessFacts DEF CommitConfig, Op
<1>4. PICK v \in Revision : v = [key |-> p.key, addr |-> p.addr]
  BY <1>3, ConstantsAssumption DEF Sound, Op, Revision
<1>5. v.key = p.key /\ p.key \in Key /\ p.key # NoKey
  BY <1>3, <1>4, ConstantsAssumption DEF Sound, Op
<1>6. TypeOK /\ TypeOK' /\ BaseInv
  BY DEF AccessInv, CutInv, StrongInv, BaseInv
<1>7. revs' = [revs EXCEPT ![c] = Append(@, v)]
  BY <1>1, <1>2, <1>4 DEF CommitConfig
<1>8. Issued' = [Issued EXCEPT ![c] = Append(@, p.key)] /\ IssuedKeys' = IssuedKeys \cup {p.key}
  BY <1>5, <1>6, <1>7, IssuedAfterCommit
<1>9. UNCHANGED live /\ op' = [op EXCEPT ![w] = Idle] /\ failed' = failed \ {c}
  BY <1>1, <1>2 DEF CommitConfig, Finish
<1>10. c \in Changing /\ Changing' = Changing \ {c}
  BY <1>1, <1>2, <1>9, OperationEnds
<1>11. live[p.key] # NoPeer
  BY <1>3, <1>5 DEF Admitting
<1>12. AcceptedKeys' = AcceptedKeys \cup {p.key}
  BY <1>8, <1>9, <1>11 DEF AcceptedKeys
<1>13. p.key \in Access!Unissued
  <2>1. \A d \in Client : p.key \notin RevisionKeys(d)
    BY <1>3, <1>5 DEF Linked
  <2>2. ASSUME NEW d \in Client, NEW i \in DOMAIN Issued[d] PROVE Issued[d][i] # p.key
    <3>1. i \in 1..Len(revs[d]) /\ Issued[d][i] = revs[d][i].key
      BY <1>6, <2>2, IssuedAre, LenProperties
    <3> QED
      BY <2>1, <3>1 DEF RevisionKeys
  <2> QED
    BY <1>5, <2>2 DEF Access!Unissued
<1>14. /\ p.kind = "create" => row[c].status = "absent" /\ revs[c] = <<>>
       /\ p.kind = "reissue" => row[c].status \notin {"absent", "deleted"}
       /\ p.kind \in {"create", "reissue"}
  BY <1>2, <1>3, <1>6 DEF Sound, Linked, Tied, BaseInv, AbsentHasNoConfig, Issuing
<1>15. Access!CutOff(c)
  <2>1. ASSUME revs[c] # <<>> PROVE live[row[c].key] = NoPeer
    <3>1. p.kind = "reissue" /\ Gone(p.seen.key) /\ p.seen.key = row[c].key
      BY <1>2, <1>3, <1>14, <2>1 DEF Linked, Replacing
    <3> QED
      BY <3>1 DEF Gone
  <2> QED
    BY <2>1, CurrentAccess
<1>16. row' = [row EXCEPT ![c] = [(IF p.kind = "create" THEN p.seen ELSE row[c])
                                    EXCEPT !.key = p.key, !.addr = p.addr]]
  BY <1>1, <1>2 DEF CommitConfig
<1>17. /\ row'[c].status = IF p.kind = "create" THEN "active" ELSE row[c].status
       /\ \A d \in Client \ {c} : row'[d] = row[d]
  <2>1. p.kind = "create" => p.seen = Fresh
    BY <1>3 DEF Sound
  <2> QED
    BY <1>6, <1>16, <2>1, FreshTyped DEF TypeOK, Row, Op
<1>18. Shown' = IF Shown[c] = "absent" THEN [Shown EXCEPT ![c] = "active"] ELSE Shown
  BY <1>14, <1>17 DEF Shown
<1>19. Shown[c] # "deleted"
  BY <1>14 DEF Shown
<1>20. Access!Issue(c, p.key)
  BY <1>8, <1>9, <1>10, <1>12, <1>13, <1>15, <1>18, <1>19 DEF Access!Issue, Access!Ends
<1> QED
  BY <1>5, <1>20

LEMMA CommitStatusMaps ==
  ASSUME AccessInv, NEW w \in Worker, CommitStatus(w)
  PROVE  \E c \in Client : Access!Enable(c) \/ Access!Refuse(c) \/ Access!Disable(c) \/ Access!Delete(c)
PROOF
<1>1. PICK p \in Op : p = op[w]
  BY AccessFacts
<1>2. PICK c \in Client : c = p.client
  BY <1>1, AccessFacts DEF CommitStatus
<1>3. Tied(p) /\ Admitting(p) /\ p.pc = "commit" /\ p.kind \notin Issuing /\ p.kind \in Kind
  BY <1>1, AccessFacts DEF CommitStatus, Op
<1>4. /\ UNCHANGED <<revs, live>> /\ op' = [op EXCEPT ![w] = Idle]
      /\ failed' = IF Refused(p) THEN failed ELSE failed \ {c}
  BY <1>1, <1>2 DEF CommitStatus, Finish
<1>5. \A d \in Client : row'[d].status = IF d = c THEN NewStatus(p) ELSE row[d].status
  BY <1>1, <1>2 DEF CommitStatus, AccessInv, CutInv, StrongInv, BaseInv, TypeOK, Row
<1>6. Shown' = [Shown EXCEPT ![c] = NewStatus(p)] /\ UNCHANGED <<Issued, AcceptedKeys>>
  <2>1. Shown' = [Shown EXCEPT ![c] = NewStatus(p)]
    BY <1>5 DEF Shown
  <2>2. UNCHANGED <<Issued, AcceptedKeys>>
    BY <1>4 DEF Issued, IssuedKeys, AcceptedKeys
  <2> QED
    BY <2>1, <2>2
<1>7. c \in Changing /\ Changing' = Changing \ {c}
  BY <1>1, <1>2, <1>4, OperationEnds
<1>8. CASE p.kind = "enable" /\ ~ Refused(p)
  <2>1. row[c].status = "disabled" /\ p.seen.due = "active" /\ NewStatus(p) = "active"
    BY <1>2, <1>3, <1>8 DEF Tied, Refused, NewStatus
  <2>2. revs[c] # <<>> => live[row[c].key] # NoPeer
    BY <1>2, <1>3, <1>8, <2>1, ConfiguredFacts DEF Admitting
  <2>3. Issued[c] # <<>> => Access!Accepted(c)
    BY <2>2, CurrentAccess DEF Access!Accepted
  <2> QED
    BY <1>4, <1>6, <1>7, <1>8, <2>1, <2>3, CurrentAccess DEF Access!Enable, Access!Ends
<1>9. CASE Refused(p)
  <2>1. row[c].status = "disabled" /\ NewStatus(p) = "disabled"
    BY <1>2, <1>3, <1>9 DEF Tied, Refused, NewStatus
  <2>2. UNCHANGED Shown
    BY <1>6, <2>1 DEF Shown
  <2> QED
    BY <1>4, <1>6, <1>7, <1>9, <2>1, <2>2, CurrentAccess DEF Access!Refuse
<1>10. CASE p.kind \in Cutting
  <2>1. Access!CutOff(c)
    BY <1>2, <1>3, <1>10, ConfiguredFacts, CurrentAccess DEF Tied, Gone
  <2>2. failed' = failed \ {c}
    BY <1>4, <1>10 DEF Refused, Cutting
  <2>3. CASE p.kind = "delete"
    BY <1>2, <1>3, <1>6, <1>7, <2>1, <2>2, <2>3, CurrentAccess
       DEF Admitting, NewStatus, Access!Delete, Access!Ends
  <2>4. CASE p.kind \in {"disable", "enforce"}
    BY <1>2, <1>3, <1>6, <1>7, <2>1, <2>2, <2>4, CurrentAccess
       DEF Admitting, NewStatus, Access!Disable, Access!Ends
  <2> QED
    BY <1>10, <2>3, <2>4 DEF Cutting
<1> QED
  BY <1>3, <1>8, <1>9, <1>10 DEF Kind, Issuing, Cutting

LEMMA RollbackMaps ==
  ASSUME AccessInv, NEW w \in Worker, op[w].pc # "idle", Rollback(w)
  PROVE  \E c \in Client : Access!GivesUp(c)
PROOF
<1>1. PICK c \in Client : c = op[w].client
  BY AccessFacts
<1>2. /\ UNCHANGED <<row, revs, live>> /\ op' = [op EXCEPT ![w] = Idle] /\ failed' = failed \cup {c}
  BY <1>1 DEF Rollback, Finish
<1>3. UNCHANGED <<Shown, Issued, AcceptedKeys>>
  BY <1>2, SameDatabase DEF AcceptedKeys
<1> QED
  BY <1>1, <1>2, <1>3, OperationEnds DEF Access!GivesUp

-----------------------------------------------------------------------------
LEMMA SameKeysMaps ==
  ASSUME UNCHANGED <<revs, live, op, failed>>, \A d \in Client : row'[d].status = row[d].status
  PROVE  Stutters
BY DEF Stutters, Shown, Issued, IssuedKeys, AcceptedKeys, Changing, Busy

LEMMA ImportMaps ==
  ASSUME AccessInv, ImportRuntimePeers
  PROVE  \E new \in SUBSET Client : Access!Import(new)
PROOF
<1> DEFINE new == {c \in Client : row'[c] # row[c]}
<1>1. UNCHANGED <<revs, live, op, failed>>
  BY DEF ImportRuntimePeers
<1>2. UNCHANGED <<Issued, AcceptedKeys, Changing>>
  BY <1>1 DEF Issued, IssuedKeys, AcceptedKeys, Changing, Busy
<1>3. \A c \in new : row[c].status = "absent" /\ row'[c].status = "active"
  BY ImportedRows DEF AccessInv
<1>4. Shown' = [c \in Client |-> IF c \in new THEN "active" ELSE Shown[c]]
  BY <1>3 DEF Shown
<1>5. Access!Import(new)
  BY <1>1, <1>2, <1>3, <1>4 DEF Access!Import, Shown
<1> QED
  BY <1>5

\* A restart cuts off and brings back clients whose last operation failed, if the
\* commands it had given are not all in the file.
LEMMA RestartMaps ==
  ASSUME Assumed, Persistent, AccessInv, RestartContainer
  PROVE  \E lost, regained \in SUBSET Client : Access!Restart(lost, regained)
PROOF
<1> DEFINE Off(peers, c) == revs[c] # <<>> /\ peers[row[c].key] = NoPeer
           lost == {c \in Client : revs[c] # <<>> /\ ~ Off(live, c) /\ Off(saved, c)}
           regained == {c \in Client : revs[c] # <<>> /\ Off(live, c) /\ ~ Off(saved, c)}
<1>1. /\ live' = saved /\ UNCHANGED <<row, revs, op, failed>>
      /\ \A w \in Worker : op[w].pc # "save"
  BY DEF RestartContainer, Assumed
<1>2. UNCHANGED <<Shown, Issued, IssuedKeys, Changing>> /\ AcceptedKeys' = {k \in IssuedKeys : saved[k] # NoPeer}
  BY <1>1, SameDatabase DEF Changing, Busy
<1>3. ASSUME NEW c \in lost \cup regained
      PROVE  c \in failed /\ Shown[c] # "deleted" /\ Issued[c] # <<>>
  <2>1. c \in Client /\ revs[c] # <<>> /\ ~ (live[row[c].key] = NoPeer <=> saved[row[c].key] = NoPeer)
    OBVIOUS
  <2>2. ~ Saving(c)
    BY <1>1 DEF Saving
  <2>3. c \in failed
    BY <2>1, <2>2 DEF AccessInv, AccessExtra, InStep
  <2>4. row[c].status # "deleted"
    BY <2>1, ConfiguredFacts DEF AccessInv, CutInv, CutExtra, DeletedHasNoPeer, Gone
  <2> QED
    BY <2>1, <2>3, <2>4, CurrentAccess
<1>4. \A c \in lost \cup regained : Access!Current(c) = row[c].key /\ row[c].key \in RevisionKeys(c)
  BY CurrentAccess, ConfiguredFacts
<1>5. AcceptedKeys' = (AcceptedKeys \ {Access!Current(c) : c \in lost}) \cup {Access!Current(c) : c \in regained}
  <2>1. IssuedKeys = UNION {RevisionKeys(c) : c \in Client}
    BY IssuedKeysAre DEF AccessInv, CutInv, StrongInv, BaseInv
  <2>2. ASSUME NEW c \in lost PROVE live[Access!Current(c)] # NoPeer /\ saved[Access!Current(c)] = NoPeer
    BY <1>4
  <2>3. ASSUME NEW c \in regained
        PROVE  /\ live[Access!Current(c)] = NoPeer /\ saved[Access!Current(c)] # NoPeer
               /\ Access!Current(c) \in IssuedKeys
    BY <1>4, <2>1
  <2>4. ASSUME NEW k \in IssuedKeys
        PROVE  /\ live[k] # NoPeer /\ saved[k] = NoPeer => \E c \in lost : k = Access!Current(c)
               /\ live[k] = NoPeer /\ saved[k] # NoPeer => \E c \in regained : k = Access!Current(c)
    <3>1. PICK c \in Client : k \in RevisionKeys(c)
      BY <2>1
    <3>2. CASE k \in Superseded(c)
      BY <3>2 DEF AccessInv, CutInv, StrongInv, SupersededNotLive, Gone
    <3>3. CASE revs[c] # <<>> /\ k = row[c].key
      BY <3>3, <1>4
    <3> QED
      BY <3>1, <3>2, <3>3, RevisionKeyIsOldOrCurrent DEF AccessInv, CutInv, StrongInv
  <2> QED
    BY <1>2, <2>2, <2>3, <2>4 DEF AcceptedKeys
<1>6. lost \in SUBSET Client /\ regained \in SUBSET Client
  OBVIOUS
<1>7. lost \cup regained \subseteq {c \in failed : Shown[c] # "deleted" /\ Issued[c] # <<>>}
  BY <1>3
<1> HIDE DEF lost, regained
<1>8. Access!Restart(lost, regained)
  BY <1>1, <1>2, <1>5, <1>7 DEF Access!Restart
<1> QED
  BY <1>6, <1>8

-----------------------------------------------------------------------------
LEMMA StepMaps ==
  ASSUME AssumedSaved, AccessInv, AccessInv', [Next]_vars
  PROVE  [Access!AccessNext]_(Access!accessVars)
PROOF
<1>1. ASSUME Stutters PROVE UNCHANGED Access!accessVars
  BY <1>1 DEF Stutters, Access!accessVars
<1>2. ASSUME NEW w \in Worker, Step(w) PROVE Stutters \/ Access!AccessNext
  <2>1. ASSUME NEW c \in Client, NEW request \in Request, Begin(w, c, request) PROVE Access!AccessNext
    BY <2>1, BeginMaps DEF AssumedSaved, AssumedCard, Access!AccessNext
  <2>2. CASE RemovePeer(w)
    BY <2>2, RemovePeerMaps DEF Access!AccessNext
  <2>3. CASE AddPeer(w)
    BY <2>3, AddPeerMaps DEF Access!AccessNext
  <2>4. CASE CommitConfig(w)
    BY <2>4, CommitConfigMaps DEF Access!AccessNext
  <2>5. CASE CommitStatus(w)
    BY <2>5, CommitStatusMaps DEF Access!AccessNext
  <2>6. CASE Fail(w) \/ PoolExhausted(w) \/ RevisionConflict(w)
    <3>1. op[w].pc # "idle" /\ Rollback(w)
      BY <2>6 DEF Fail, PoolExhausted, RevisionConflict
    <3> QED
      BY <3>1, RollbackMaps DEF Access!AccessNext
  <2> QED
    BY <1>2, <2>1, <2>2, <2>3, <2>4, <2>5, <2>6, QuietStepMaps DEF Step
<1>3. ASSUME NEW c \in Client, UpdateLimits(c) \/ \E v \in Violations : LimitReached(c, v)
      PROVE  Stutters
  BY <1>3, LimitsKeep, SameKeysMaps DEF UpdateLimits, LimitReached, AccessInv
<1>4. CASE ImportRuntimePeers
  BY <1>4, ImportMaps DEF Access!AccessNext
<1>5. CASE RestartContainer
  BY <1>5, RestartMaps DEF AssumedSaved, AssumedCard, Access!AccessNext
<1>6. CASE UNCHANGED vars
  BY <1>1, <1>6, SameKeysMaps DEF vars
<1> QED
  BY <1>1, <1>2, <1>3, <1>4, <1>5, <1>6 DEF Next

LEMMA InitMaps == Init => Access!AccessInit
PROOF
<1> SUFFICES ASSUME Init PROVE Access!AccessInit
  OBVIOUS
<1>1. Shown = [c \in Client |-> "absent"]
  BY DEF Init, Shown, Absent
<1>2. Issued = [c \in Client |-> <<>>]
  BY DEF Init, Issued
<1>3. AcceptedKeys = {} /\ failed = {}
  BY DEF Init, IssuedKeys, AcceptedKeys
<1>4. Changing = {}
  BY ConstantsAssumption DEF Init, Changing, Busy, Idle
<1> QED
  BY <1>1, <1>2, <1>3, <1>4 DEF Access!AccessInit

\* Operators who use the client's card, one operation at a time on a client, get what
\* ClientAccess says, whatever fails, where changes are saved: every command and
\* transaction is one of its steps or changes nobody's access.
THEOREM LifecycleImplementsAccess == ASSUME AssumedSaved PROVE Spec => ImplementsAccess
PROOF
<1>1. Init => Access!AccessInit
  BY InitMaps
<1>2. AccessInv /\ AccessInv' /\ [Next]_vars => [Access!AccessNext]_(Access!accessVars)
  BY StepMaps
<1> QED
  BY <1>1, <1>2, AlwaysAccess, PTL DEF Spec, ImplementsAccess, Access!AccessSpec

\* So the panel keeps its promise of ClientAccess: an active client that has a
\* configuration and whose last operation succeeded connects with it, nobody connects
\* with a reissued one, and a deleted client does not connect.
Abstract == INSTANCE ClientAccessProofs WITH
  shown <- Shown, issued <- Issued, accepted <- AcceptedKeys, changing <- Changing

THEOREM LifecycleKeepsPromise == ASSUME AssumedSaved PROVE Spec => []Abstract!Promise
PROOF
<1>1. Init => Abstract!AccessInit
  BY InitMaps DEF Access!AccessInit, Abstract!AccessInit
<1>2. ASSUME AccessInv, AccessInv', [Next]_vars PROVE [Abstract!AccessNext]_(Abstract!accessVars)
  <2>1. [Access!AccessNext]_(Access!accessVars)
    BY <1>2, StepMaps
  <2>2. Access!accessVars = Abstract!accessVars /\ Access!accessVars' = Abstract!accessVars'
    BY DEF Access!accessVars, Abstract!accessVars
  <2>3. Access!AccessNext <=> Abstract!AccessNext
    BY DEF Access!AccessNext, Access!Begins, Access!Cut, Access!Admit, Access!Ends, Access!Issue,
       Access!Enable, Access!Refuse, Access!Disable, Access!Delete, Access!GivesUp, Access!Import,
       Access!Restart, Access!Current, Access!CutOff, Access!Accepted, Access!Unissued,
       Abstract!AccessNext, Abstract!Begins, Abstract!Cut, Abstract!Admit, Abstract!Ends, Abstract!Issue,
       Abstract!Enable, Abstract!Refuse, Abstract!Disable, Abstract!Delete, Abstract!GivesUp, Abstract!Import,
       Abstract!Restart, Abstract!Current, Abstract!CutOff, Abstract!Accepted, Abstract!Unissued
  <2> QED
    BY <2>1, <2>2, <2>3
<1>3. AccessInv /\ AccessInv' /\ [Next]_vars => [Abstract!AccessNext]_(Abstract!accessVars)
  BY <1>2
<1> QED
  BY <1>1, <1>3, AlwaysAccess, Abstract!PromiseKept, PTL DEF Spec, Abstract!AccessSpec
=============================================================================
