-------------------------- MODULE EnforcementProofs --------------------------
(***************************************************************************)
(* Proofs about LimitEnforcement for any clients, servers, processes and   *)
(* bounds: runs that overlap, that are killed, and whose lists operators   *)
(* have left behind.                                                       *)
(***************************************************************************)
EXTENDS LimitEnforcement, TLAPS

Limits == {"expired", "traffic_exceeded"}

\* What stands in a run's list holds of the client unless somebody touched it: a
\* client about to be disabled is over a limit, one whose peer was cut has none.
Known(t) ==
  /\ run[t].pc # "commit" => run[t].current = {}
  /\ \A c \in run[t].current : run[t].verdict[c] \in Limits /\ (c \in peer => c \in touched[t])
  /\ \A c \in Client : run[t].verdict[c] \in Limits /\ c \notin touched[t]
                       => row[c].status # "deleted" /\ Due(c)

EnforcementInv == TypeOK /\ DisabledIsCut /\ \A t \in Run : Known(t)

-----------------------------------------------------------------------------
LEMMA RowTyped ==
  ASSUME TypeOK, NEW c \in Client
  PROVE  row[c] \in Row /\ 0 \in Traffic
BY EnforcementAssumption DEF TypeOK, Traffic

LEMMA IdleTyped == Idle \in RunState /\ Idle.pc = "idle" /\ Idle.current = {}
                   /\ \A c \in Client : Idle.verdict[c] = "none"
BY DEF Idle, RunState, PC, NotSeen, NoVerdict, Verdict

\* Touch records the clients of every list.
LEMMA TouchAll ==
  ASSUME TypeOK, NEW clients \in SUBSET Client, touched' = Touch(clients)
  PROVE  /\ touched' \in [Run -> SUBSET Client]
         /\ \A t \in Run : /\ touched[t] \subseteq touched'[t]
                           /\ \A c \in clients : run[t].verdict[c] # "none" => c \in touched'[t]
BY DEF TypeOK, Touch

\* A process that does not move keeps what it knows, if whatever changes for a
\* client of its list is recorded there or is harmless to it.
LEMMA OthersKnow ==
  ASSUME TypeOK, NEW t \in Run, Known(t), run'[t] = run[t], touched[t] \subseteq touched'[t],
         \A c \in Client : run[t].verdict[c] # "none" =>
           \/ c \in touched'[t]
           \/ /\ c \in peer' => c \in peer
              /\ row[c].status # "deleted" => row'[c].status # "deleted"
              /\ Due(c) => Due(c)'
  PROVE  Known(t)'
PROOF
<1>1. run[t] \in RunState
  BY DEF TypeOK
<1>2. run[t].current \subseteq Client
  BY <1>1 DEF RunState
<1> QED
  BY <1>2 DEF Known, Limits

\* A process that ends knows nothing, and the others keep what they know.
LEMMA FinishKnows ==
  ASSUME EnforcementInv, NEW t \in Run, Finish(t)
  PROVE  run' \in [Run -> RunState] /\ touched' \in [Run -> SUBSET Client] /\ \A v \in Run : Known(v)'
PROOF
<1>1. run' \in [Run -> RunState] /\ touched' \in [Run -> SUBSET Client]
  BY IdleTyped DEF EnforcementInv, TypeOK, Finish
<1>2. run'[t] = Idle /\ Known(t)'
  BY IdleTyped DEF EnforcementInv, TypeOK, Finish, Known, Limits
<1>3. ASSUME NEW v \in Run, v # t PROVE Known(v)'
  <2>1. run'[v] = run[v] /\ touched'[v] = touched[v] /\ UNCHANGED <<row, peer>>
    BY <1>3 DEF EnforcementInv, TypeOK, Finish, environment
  <2>2. \A c \in Client : Due(c) => Due(c)'
    BY <2>1 DEF Due, LimitStateOf
  <2> QED
    BY <2>1, <2>2, OthersKnow DEF EnforcementInv
<1> QED
  BY <1>1, <1>2, <1>3

-----------------------------------------------------------------------------
LEMMA StartSyncInv ==
  ASSUME EnforcementInv, NEW t \in Run, StartSync(t)
  PROVE  EnforcementInv'
PROOF
<1> DEFINE listed == {c \in Client : Active(c)}
           new == [Idle EXCEPT !.pc = IF listed = {} THEN "load" ELSE "sync",
                     !.groups = {ServerOf[c] : c \in listed},
                     !.seen = [c \in Client |-> IF c \in listed THEN row[c].used ELSE -1]]
<1>1. new \in RunState /\ new.pc # "commit" /\ new.current = {} /\ \A c \in Client : new.verdict[c] = "none"
  <2>1. \A c \in Client : row[c].used \in Traffic
    BY RowTyped DEF EnforcementInv, Row
  <2>2. {ServerOf[c] : c \in listed} \in SUBSET Server
    BY EnforcementAssumption
  <2>3. [c \in Client |-> IF c \in listed THEN row[c].used ELSE -1] \in [Client -> Traffic \cup {-1}]
    BY <2>1
  <2> QED
    BY <2>2, <2>3, IdleTyped DEF RunState, PC, Idle
<1>2. run' = [run EXCEPT ![t] = new] /\ UNCHANGED <<row, peer, counter, up, kills, touched, revived>>
  BY DEF StartSync, environment
<1> HIDE DEF new
<1>3. TypeOK' /\ DisabledIsCut'
  BY <1>1, <1>2 DEF EnforcementInv, TypeOK, DisabledIsCut
<1>4. Known(t)'
  BY <1>1, <1>2 DEF EnforcementInv, TypeOK, Known, Limits
<1>5. ASSUME NEW v \in Run, v # t PROVE Known(v)'
  BY <1>2, <1>5, OthersKnow DEF EnforcementInv, TypeOK, Due, LimitStateOf
<1> QED
  BY <1>3, <1>4, <1>5 DEF EnforcementInv

\* The used traffic is copied: whoever has one of these clients in a list is told.
LEMMA SyncServerInv ==
  ASSUME EnforcementInv, NEW t \in Run, NEW s \in Server, SyncServer(t, s)
  PROVE  EnforcementInv'
PROOF
<1> DEFINE changed == {c \in Client : row'[c] # row[c]}
           new == [run[t] EXCEPT !.groups = @ \ {s},
                                 !.seen = [c \in Client |-> IF c \in ClientsOf(s) THEN -1 ELSE @[c]],
                                 !.pc = IF run[t].groups = {s} THEN "load" ELSE "sync"]
<1>1. run[t] \in RunState /\ run[t].pc = "sync"
  BY DEF EnforcementInv, TypeOK, SyncServer
<1>2. new \in RunState /\ new.pc # "commit" /\ new.verdict = run[t].verdict /\ new.current = run[t].current
  <2>1. run[t].groups \ {s} \in SUBSET Server
    BY <1>1 DEF RunState
  <2>2. run[t].seen \in [Client -> Traffic \cup {-1}]
    BY <1>1 DEF RunState
  <2>3. [c \in Client |-> IF c \in ClientsOf(s) THEN -1 ELSE run[t].seen[c]] \in [Client -> Traffic \cup {-1}]
    BY <2>2
  <2> QED
    BY <1>1, <2>1, <2>3 DEF RunState, PC
<1>3. run' = [run EXCEPT ![t] = new] /\ UNCHANGED <<peer, counter, up, kills, revived>>
  BY DEF SyncServer, environment
<1>4. \A c \in Client : row'[c] \in Row /\ row'[c].status = row[c].status
  BY RowTyped DEF EnforcementInv, TypeOK, SyncServer, Synced, Row
<1>5. touched' \in [Run -> SUBSET Client]
      /\ \A v \in Run : touched[v] \subseteq touched'[v]
           /\ \A c \in changed : run[v].verdict[c] # "none" => c \in touched'[v]
  BY TouchAll DEF EnforcementInv, SyncServer
<1>6. row' \in [Client -> Row]
  <2>1. row' = [c \in Client |-> row'[c]]
    BY DEF SyncServer
  <2> QED
    BY <1>4, <2>1
<1> HIDE DEF new
<1>7. TypeOK' /\ DisabledIsCut'
  BY <1>2, <1>3, <1>4, <1>5, <1>6 DEF EnforcementInv, TypeOK, DisabledIsCut
<1>8. \A c \in Client : c \in changed \/ (Due(c) => Due(c)')
  BY DEF Due, LimitStateOf
<1> HIDE DEF changed
<1>9. Known(t)'
  <2>1. run'[t] = new /\ run[t].current = {}
    BY <1>1, <1>3 DEF EnforcementInv, TypeOK, Known
  <2> QED
    BY <1>2, <1>3, <1>4, <1>5, <1>8, <2>1 DEF EnforcementInv, Known, Limits
<1>10. ASSUME NEW v \in Run, v # t PROVE Known(v)'
  BY <1>3, <1>4, <1>5, <1>8, <1>10, OthersKnow DEF EnforcementInv, TypeOK
<1> QED
  BY <1>7, <1>9, <1>10 DEF EnforcementInv

LEMMA LoadClientsInv ==
  ASSUME EnforcementInv, NEW t \in Run, LoadClients(t)
  PROVE  EnforcementInv'
PROOF
<1> DEFINE verdict == [c \in Client |-> Judged(row[c])]
           new == [Idle EXCEPT !.pc = "enforce", !.verdict = verdict]
<1>1. verdict \in [Client -> Verdict]
      /\ \A c \in Client : verdict[c] \in Limits => row[c].status # "deleted" /\ Due(c)
  BY DEF Judged, LimitStateOf, Verdict, Limits, Due
<1> HIDE DEF verdict
<1>2. new \in RunState /\ new.pc = "enforce" /\ new.current = {} /\ new.verdict = verdict
  BY <1>1, IdleTyped DEF RunState, PC, Idle
<1>3. run' = [run EXCEPT ![t] = new] /\ touched' = [touched EXCEPT ![t] = {}]
      /\ UNCHANGED <<row, peer, counter, up, kills, revived>>
  BY DEF LoadClients, environment, verdict
<1> HIDE DEF new
<1>4. TypeOK' /\ DisabledIsCut'
  BY <1>2, <1>3 DEF EnforcementInv, TypeOK, DisabledIsCut
<1>5. Known(t)'
  BY <1>1, <1>2, <1>3 DEF EnforcementInv, TypeOK, Known, Due, LimitStateOf
<1>6. ASSUME NEW v \in Run, v # t PROVE Known(v)'
  BY <1>3, <1>6, OthersKnow DEF EnforcementInv, TypeOK, Due, LimitStateOf
<1> QED
  BY <1>4, <1>5, <1>6 DEF EnforcementInv

LEMMA RefreshShownInv ==
  ASSUME EnforcementInv, NEW t \in Run, NEW c \in Client, RefreshShown(t, c)
  PROVE  EnforcementInv'
PROOF
<1> DEFINE new == [run[t] EXCEPT !.verdict[c] = "none"]
           refreshed == [row[c] EXCEPT !.shown = "active"]
<1>1. run[t] \in RunState /\ run[t].pc = "enforce" /\ run[t].current = {} /\ run[t].verdict \in [Client -> Verdict]
  BY DEF EnforcementInv, TypeOK, RefreshShown, Known, RunState
<1>2. new \in RunState /\ new.pc = "enforce" /\ new.current = {}
      /\ \A d \in Client : new.verdict[d] = IF d = c THEN "none" ELSE run[t].verdict[d]
  BY <1>1 DEF RunState, Verdict
<1>3. refreshed \in Row /\ refreshed.status = row[c].status /\ LimitStateOf(refreshed) = LimitStateOf(row[c])
  BY RowTyped DEF EnforcementInv, Row, LimitState, LimitStateOf
<1>4. run' = [run EXCEPT ![t] = new] /\ row' = [row EXCEPT ![c] = refreshed]
      /\ UNCHANGED <<peer, counter, up, kills, touched, revived>>
  BY DEF RefreshShown, environment
<1> HIDE DEF new, refreshed
<1>5. \A d \in Client : row'[d].status = row[d].status /\ (Due(d)' <=> Due(d))
  BY <1>3, <1>4 DEF EnforcementInv, TypeOK, Due, LimitStateOf
<1>6. TypeOK' /\ DisabledIsCut'
  BY <1>2, <1>3, <1>4, <1>5 DEF EnforcementInv, TypeOK, DisabledIsCut
<1>7. Known(t)'
  BY <1>2, <1>4, <1>5 DEF EnforcementInv, TypeOK, Known, Limits
<1>8. ASSUME NEW v \in Run, v # t PROVE Known(v)'
  BY <1>4, <1>5, <1>8, OthersKnow DEF EnforcementInv, TypeOK
<1> QED
  BY <1>6, <1>7, <1>8 DEF EnforcementInv

LEMMA CutPeerInv ==
  ASSUME EnforcementInv, NEW t \in Run, NEW c \in Client, CutPeer(t, c)
  PROVE  EnforcementInv'
PROOF
<1> DEFINE new == [run[t] EXCEPT !.pc = "commit", !.current = {c}]
<1>1. new \in RunState /\ new.pc = "commit" /\ new.current = {c} /\ new.verdict = run[t].verdict
  BY DEF EnforcementInv, TypeOK, RunState, PC
<1>2. run' = [run EXCEPT ![t] = new] /\ peer' = peer \ {c} /\ run[t].verdict[c] \in Limits
      /\ UNCHANGED <<row, counter, up, kills, touched, revived>>
  BY DEF CutPeer, Limits
<1> HIDE DEF new
<1>3. TypeOK' /\ DisabledIsCut'
  BY <1>1, <1>2 DEF EnforcementInv, TypeOK, DisabledIsCut
<1>4. \A d \in Client : Due(d)' <=> Due(d)
  BY <1>2 DEF Due, LimitStateOf
<1>5. Known(t)'
  BY <1>1, <1>2, <1>4 DEF EnforcementInv, TypeOK, Known
<1>6. ASSUME NEW v \in Run, v # t PROVE Known(v)'
  BY <1>2, <1>4, <1>6, OthersKnow DEF EnforcementInv, TypeOK
<1> QED
  BY <1>3, <1>5, <1>6 DEF EnforcementInv

\* The peer was cut, so if it is back somebody brought it back: that is recorded.
LEMMA CommitDisableInv ==
  ASSUME EnforcementInv, NEW t \in Run, NEW c \in Client, CommitDisable(t, c)
  PROVE  EnforcementInv'
PROOF
<1> DEFINE new == [run[t] EXCEPT !.pc = "enforce", !.verdict[c] = "none", !.current = {}]
           disabled == [row[c] EXCEPT !.status = "disabled", !.shown = run[t].verdict[c]]
<1>1. run[t] \in RunState /\ run[t].verdict \in [Client -> Verdict] /\ run[t].verdict[c] \in Limits
      /\ (c \in peer => c \in touched[t])
  BY DEF EnforcementInv, TypeOK, CommitDisable, Known, RunState
<1>2. new \in RunState /\ new.pc = "enforce" /\ new.current = {}
      /\ \A d \in Client : new.verdict[d] = IF d = c THEN "none" ELSE run[t].verdict[d]
  BY <1>1 DEF RunState, PC, Verdict
<1>3. disabled \in Row /\ disabled.status = "disabled" /\ LimitStateOf(disabled) = LimitStateOf(row[c])
  BY <1>1, RowTyped DEF EnforcementInv, Row, Status, LimitState, LimitStateOf, Limits
<1>4. run' = [run EXCEPT ![t] = new] /\ row' = [row EXCEPT ![c] = disabled]
      /\ UNCHANGED <<peer, counter, up, kills, touched>>
      /\ revived' = IF c \in touched[t] /\ c \in peer THEN revived \cup {c} ELSE revived
  BY DEF CommitDisable, environment
<1> HIDE DEF new, disabled
<1>5. \A d \in Client : Due(d)' <=> Due(d)
  BY <1>3, <1>4 DEF EnforcementInv, TypeOK, Due, LimitStateOf
<1>6. \A d \in Client : row'[d] = IF d = c THEN disabled ELSE row[d]
  BY <1>4 DEF EnforcementInv, TypeOK
<1>7. TypeOK' /\ DisabledIsCut'
  BY <1>1, <1>2, <1>3, <1>4, <1>6 DEF EnforcementInv, TypeOK, DisabledIsCut
<1>8. Known(t)'
  BY <1>2, <1>4, <1>5, <1>6 DEF EnforcementInv, TypeOK, Known, Limits
<1>9. ASSUME NEW v \in Run, v # t PROVE Known(v)'
  BY <1>3, <1>4, <1>5, <1>6, <1>9, OthersKnow DEF EnforcementInv, TypeOK
<1> QED
  BY <1>7, <1>8, <1>9 DEF EnforcementInv

LEMMA FinishInv ==
  ASSUME EnforcementInv, NEW t \in Run, Finish(t), kills' \in 0..MaxKills
  PROVE  EnforcementInv'
BY FinishKnows DEF EnforcementInv, TypeOK, DisabledIsCut, Finish, environment

-----------------------------------------------------------------------------
\* A request of an operator changes one client, whom every list notes.
LEMMA OperatorKnows ==
  ASSUME EnforcementInv, NEW c \in Client, OperatorActs(c),
         \A d \in Client \ {c} : row'[d] = row[d] /\ (d \in peer' => d \in peer)
  PROVE  /\ touched' \in [Run -> SUBSET Client] /\ UNCHANGED <<up, run, kills>>
         /\ \A t \in Run : Known(t)'
PROOF
<1>1. touched' \in [Run -> SUBSET Client]
      /\ \A t \in Run : touched[t] \subseteq touched'[t]
           /\ (run[t].verdict[c] # "none" => c \in touched'[t])
  BY TouchAll DEF EnforcementInv, OperatorActs
<1>2. UNCHANGED <<up, run, kills>>
  BY DEF OperatorActs
<1>3. \A d \in Client : d # c => (Due(d)' <=> Due(d))
  BY DEF Due, LimitStateOf
<1>4. ASSUME NEW t \in Run PROVE Known(t)'
  BY <1>1, <1>2, <1>3, OthersKnow DEF EnforcementInv
<1> QED
  BY <1>1, <1>2, <1>4

\* What remains to show of such a request: the client it changes.
LEMMA OperatorInv ==
  ASSUME EnforcementInv, NEW c \in Client, OperatorActs(c), NEW r \in Row,
         row' = [row EXCEPT ![c] = r],
         peer' \subseteq Client, peer' \ {c} = peer \ {c}, counter' \in [Client -> Traffic],
         revived' \subseteq Client, revived' \ {c} = revived \ {c},
         r.status = "disabled" /\ c \notin revived' => c \notin peer'
  PROVE  EnforcementInv'
PROOF
<1>1. \A d \in Client : row'[d] = IF d = c THEN r ELSE row[d]
  BY DEF EnforcementInv, TypeOK
<1>2. /\ touched' \in [Run -> SUBSET Client] /\ UNCHANGED <<up, run, kills>>
      /\ \A t \in Run : Known(t)'
  BY <1>1, OperatorKnows
<1>3. TypeOK'
  BY <1>2 DEF EnforcementInv, TypeOK
<1>4. DisabledIsCut'
  BY <1>1 DEF EnforcementInv, DisabledIsCut
<1> QED
  BY <1>2, <1>3, <1>4 DEF EnforcementInv

LEMMA UpdateLimitsInv ==
  ASSUME EnforcementInv, NEW c \in Client, NEW expired \in BOOLEAN, NEW quota \in Traffic,
         UpdateLimits(c, expired, quota)
  PROVE  EnforcementInv'
PROOF
<1> DEFINE limited == [row[c] EXCEPT !.expired = expired, !.quota = quota]
           new == [limited EXCEPT !.shown = LimitStateOf(limited)]
<1>1. limited \in Row /\ limited.status = row[c].status
  BY RowTyped DEF EnforcementInv, Row
<1>2. LimitStateOf(limited) \in LimitState
  BY DEF LimitStateOf, LimitState
<1>3. row' = [row EXCEPT ![c] = new] /\ OperatorActs(c) /\ UNCHANGED <<peer, counter, revived>>
  BY DEF UpdateLimits
<1> HIDE DEF limited
<1>4. new \in Row /\ new.status = row[c].status
  BY <1>1, <1>2 DEF Row
<1> HIDE DEF new
<1>5. /\ peer \subseteq Client /\ counter \in [Client -> Traffic] /\ revived \subseteq Client
      /\ (row[c].status = "disabled" /\ c \notin revived => c \notin peer)
  BY DEF EnforcementInv, TypeOK, DisabledIsCut
<1> QED
  BY <1>3, <1>4, <1>5, OperatorInv

LEMMA DisconnectInv ==
  ASSUME EnforcementInv, NEW c \in Client, NEW status \in {"disabled", "deleted"}, Disconnect(c, status)
  PROVE  EnforcementInv'
PROOF
<1> DEFINE new == [row[c] EXCEPT !.status = status]
<1>1. new \in Row
  BY RowTyped DEF EnforcementInv, Row, Status
<1>2. /\ row' = [row EXCEPT ![c] = new] /\ OperatorActs(c) /\ counter' = counter
      /\ peer' = peer \ {c} /\ revived' = revived \ {c}
  BY DEF Disconnect
<1> HIDE DEF new
<1>3. peer \subseteq Client /\ counter \in [Client -> Traffic] /\ revived \subseteq Client
  BY DEF EnforcementInv, TypeOK
<1> QED
  BY <1>1, <1>2, <1>3, OperatorInv

LEMMA ActivateInv ==
  ASSUME EnforcementInv, NEW c \in Client, Activate(c)
  PROVE  EnforcementInv'
PROOF
<1> DEFINE new == [row[c] EXCEPT !.status = "active", !.shown = "active"]
<1>1. new \in Row /\ new.status = "active"
  BY RowTyped DEF EnforcementInv, Row, LimitState, Status
<1>2. row' = [row EXCEPT ![c] = new] /\ OperatorActs(c) /\ revived' = revived \ {c}
  BY DEF Activate
<1>3. peer' \in {peer, peer \cup {c}} /\ counter' \in {counter, [counter EXCEPT ![c] = 0]}
  BY DEF Activate, Connect
<1> HIDE DEF new
<1>4. counter' \in [Client -> Traffic] /\ peer' \subseteq Client /\ peer' \ {c} = peer \ {c}
      /\ revived' \subseteq Client /\ revived' \ {c} = revived \ {c}
  BY <1>2, <1>3, RowTyped DEF EnforcementInv, TypeOK
<1> QED
  BY <1>1, <1>2, <1>4, OperatorInv

\* An active client that is refused keeps its peer: that is recorded.
LEMMA RefuseActivationInv ==
  ASSUME EnforcementInv, NEW c \in Client, RefuseActivation(c)
  PROVE  EnforcementInv'
PROOF
<1> DEFINE new == [row[c] EXCEPT !.status = "disabled", !.shown = LimitStateOf(row[c])]
<1>1. new \in Row
  BY RowTyped DEF EnforcementInv, Row, LimitState, LimitStateOf, Status
<1>2. row' = [row EXCEPT ![c] = new] /\ OperatorActs(c) /\ UNCHANGED <<peer, counter>>
      /\ revived' = IF c \in peer THEN revived \cup {c} ELSE revived
  BY DEF RefuseActivation
<1> HIDE DEF new
<1>3. peer' \subseteq Client /\ counter' \in [Client -> Traffic] /\ peer' \ {c} = peer \ {c}
      /\ revived' \subseteq Client /\ revived' \ {c} = revived \ {c}
  BY <1>2 DEF EnforcementInv, TypeOK
<1>4. c \notin revived' => c \notin peer'
  BY <1>2
<1> QED
  BY <1>1, <1>2, <1>3, <1>4, OperatorInv

LEMMA ReissueInv ==
  ASSUME EnforcementInv, NEW c \in Client, Reissue(c)
  PROVE  EnforcementInv'
PROOF
<1>1. row[c] \in Row /\ row' = [row EXCEPT ![c] = row[c]]
  BY RowTyped DEF EnforcementInv, Reissue, TypeOK
<1>2. /\ OperatorActs(c) /\ peer' = peer \cup {c} /\ counter' = [counter EXCEPT ![c] = 0]
      /\ revived' = IF row[c].status = "active" THEN revived ELSE revived \cup {c}
  BY DEF Reissue, Connect, Active
<1>3. peer' \subseteq Client /\ counter' \in [Client -> Traffic] /\ peer' \ {c} = peer \ {c}
      /\ revived' \subseteq Client /\ revived' \ {c} = revived \ {c}
  BY <1>2, RowTyped DEF EnforcementInv, TypeOK
<1>4. row[c].status = "disabled" => c \in revived'
  BY <1>2
<1> QED
  BY <1>1, <1>2, <1>3, <1>4, OperatorInv

\* Time, traffic and the servers: a client that is over its limit stays so.
LEMMA EnvironmentInv ==
  ASSUME EnforcementInv,
         \/ \E c \in Client : Expire(c) \/ UseTraffic(c)
         \/ \E s \in Server : RestartContainer(s) \/ ServerFails(s) \/ ServerReturns(s)
  PROVE  EnforcementInv'
PROOF
<1>1. ASSUME UNCHANGED <<row, peer, run, kills, touched, revived>>,
             counter' \in [Client -> Traffic], up' \subseteq Server
      PROVE  EnforcementInv'
  BY <1>1 DEF EnforcementInv, TypeOK, DisabledIsCut, Known, Due, LimitStateOf
<1>2. ASSUME NEW c \in Client, Expire(c) PROVE EnforcementInv'
  <2> DEFINE new == [row[c] EXCEPT !.expired = TRUE]
  <2>1. new \in Row /\ new.status = row[c].status /\ LimitStateOf(new) = "expired"
    BY RowTyped DEF EnforcementInv, Row, LimitStateOf
  <2>2. row' = [row EXCEPT ![c] = new] /\ UNCHANGED <<peer, counter, up, run, kills, touched, revived>>
    BY <1>2 DEF Expire, environment
  <2> HIDE DEF new
  <2>3. \A d \in Client : row'[d].status = row[d].status /\ (Due(d) => Due(d)')
    BY <2>1, <2>2 DEF EnforcementInv, TypeOK, Due, LimitStateOf
  <2>4. TypeOK' /\ DisabledIsCut'
    BY <2>1, <2>2, <2>3 DEF EnforcementInv, TypeOK, DisabledIsCut
  <2>5. ASSUME NEW t \in Run PROVE Known(t)'
    BY <2>2, <2>3, OthersKnow DEF EnforcementInv
  <2> QED
    BY <2>4, <2>5 DEF EnforcementInv
<1>3. ASSUME NEW c \in Client, UseTraffic(c) PROVE EnforcementInv'
  <2>1. counter[c] + 1 \in Traffic
    BY <1>3, EnforcementAssumption DEF UseTraffic, EnforcementInv, TypeOK, Traffic
  <2> QED
    BY <1>1, <1>3, <2>1 DEF UseTraffic, EnforcementInv, TypeOK
<1>4. ASSUME NEW s \in Server, RestartContainer(s) PROVE EnforcementInv'
  <2>1. 0 \in Traffic
    BY EnforcementAssumption DEF Traffic
  <2> QED
    BY <1>1, <1>4, <2>1 DEF RestartContainer, EnforcementInv, TypeOK
<1>5. ASSUME NEW s \in Server, ServerFails(s) \/ ServerReturns(s) PROVE EnforcementInv'
  BY <1>1, <1>5 DEF ServerFails, ServerReturns, EnforcementInv, TypeOK
<1> QED
  BY <1>2, <1>3, <1>4, <1>5

LEMMA InvStep ==
  ASSUME EnforcementInv, [Next]_vars
  PROVE  EnforcementInv'
PROOF
<1>1. ASSUME NEW t \in Run, Work(t) PROVE EnforcementInv'
  <2>1. ASSUME EndRun(t) \/ \E c \in Client : Unreachable(t, c) PROVE EnforcementInv'
    <3>1. Finish(t) /\ kills' = kills
      BY <2>1 DEF EndRun, Unreachable
    <3>2. kills' \in 0..MaxKills
      BY <3>1 DEF EnforcementInv, TypeOK
    <3> QED
      BY <3>1, <3>2, FinishInv
  <2> QED
    BY <1>1, <2>1, StartSyncInv, LoadClientsInv, SyncServerInv, RefreshShownInv, CutPeerInv,
       CommitDisableInv DEF Work
<1>2. ASSUME NEW c \in Client, Operator(c) PROVE EnforcementInv'
  BY <1>2, UpdateLimitsInv, DisconnectInv, ActivateInv, RefuseActivationInv, ReissueInv
     DEF Operator
<1>3. ASSUME NEW t \in Run, Kill(t) PROVE EnforcementInv'
  <2>1. kills' \in 0..MaxKills
    BY <1>3, EnforcementAssumption DEF Kill, EnforcementInv, TypeOK
  <2> QED
    BY <1>3, <2>1, FinishInv DEF Kill
<1>4. CASE UNCHANGED vars
  BY <1>4 DEF vars, environment, EnforcementInv, TypeOK, DisabledIsCut, Known, Due, LimitStateOf
<1> QED
  BY <1>1, <1>2, <1>3, <1>4, EnvironmentInv DEF Next, Environment

LEMMA InitInv == Init => EnforcementInv
PROOF
<1> SUFFICES ASSUME Init PROVE EnforcementInv
  OBVIOUS
<1>1. 0 \in Traffic /\ 0 \in 0..MaxKills
  BY EnforcementAssumption DEF Traffic
<1>2. TypeOK
  BY <1>1, IdleTyped DEF Init, TypeOK, Row, Status, LimitState
<1>3. DisabledIsCut
  BY DEF Init, DisabledIsCut
<1>4. \A t \in Run : Known(t)
  BY IdleTyped DEF Init, Known, Limits
<1> QED
  BY <1>2, <1>3, <1>4 DEF EnforcementInv

LEMMA InvAlways == Spec => []EnforcementInv
BY InitInv, InvStep, PTL DEF Spec

\* Every variable keeps its type, whatever runs, operators and servers do.
THEOREM TypeCorrect == Spec => []TypeOK
PROOF
<1>1. EnforcementInv => TypeOK
  BY DEF EnforcementInv
<1> QED
  BY <1>1, InvAlways, PTL

\* A disabled client has no peer, however many runs overlap or are killed and whatever
\* operators do, unless it was reissued while not active, reconnected behind the back
\* of the run that disabled it, or saved as disabled by an attempt to enable it.
THEOREM DisabledAlwaysCut == Spec => []DisabledIsCut
PROOF
<1>1. EnforcementInv => DisabledIsCut
  BY DEF EnforcementInv
<1> QED
  BY <1>1, InvAlways, PTL

\* A run disables only who is over a limit at that moment and not deleted, unless
\* somebody changed the client after the run loaded its list.
THEOREM AlwaysDisablesOnlyDue == Spec => DisablesOnlyDue
PROOF
<1> DEFINE Only == \A t \in Run, c \in Client :
       c \in run[t].current /\ c \notin run'[t].current /\ row'[c].status = "disabled"
       /\ c \notin touched[t] => row[c].status # "deleted" /\ Due(c)
<1>1. ASSUME EnforcementInv, [Next]_vars PROVE [Only]_vars
  BY <1>1 DEF EnforcementInv, Known
<1> QED
  BY <1>1, InvAlways, PTL DEF Spec, DisablesOnlyDue
=============================================================================
