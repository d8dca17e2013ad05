---------------------------- MODULE RenewalProofs ----------------------------
(***************************************************************************)
(* Proofs about RenewalRequests, for any workers, files, extensions and    *)
(* bounds: first what holds however operators overlap, then what holds if  *)
(* they act on the client one at a time.                                   *)
(***************************************************************************)
EXTENDS RenewalRequests, SequenceTheorems, TLAPS

(***************************************************************************)
(* What a task knows: its request exists, an operator's copy of it was     *)
(* consistent, and a portal transaction holds the lock of the open request *)
(* it read, which is why its copy is still the request.                    *)
(***************************************************************************)
Knows(t) ==
  /\ t.pc \notin {"idle", "insert"} => t.request \in 1..Len(requests)
  /\ t.pc \in {"extend", "save"} => t.seen.processed = (t.seen.status \notin Open)
  /\ t.pc = "attach" =>
       t.request \in lock /\ t.seen = requests[t.request] /\ t.seen.status \in Open

\* Two transactions never hold the lock of one request.
LocksApart ==
  \A v, w \in Worker : v # w /\ task[v].pc = "attach" /\ task[w].pc = "attach"
                       => task[v].request # task[w].request

BaseInv ==
  /\ TypeOK
  /\ \A w \in Worker : Knows(task[w])
  /\ LocksApart
  /\ ClosedIffProcessed
  /\ AtMostOneOpen

-----------------------------------------------------------------------------
LEMMA NewRequestTyped ==
  ASSUME NEW file \in File \cup {NoFile}
  PROVE  NewRequest(file) \in Request
  BY DEF NewRequest, Request, Status

LEMMA IdleTyped == Idle \in Task /\ Idle.pc = "idle"
<1>1. NewRequest(NoFile) \in Request
  BY NewRequestTyped
<1> QED BY <1>1 DEF Idle, Task, PC, Target, Status

LEMMA TaskTimes ==
  ASSUME NEW t \in Task
  PROVE  t.until \in Nat /\ t.days \in Nat
<1>1. t.until \in Nat /\ t.days \in Days \cup {0}
  BY DEF Task
<1>2. \A d \in Days : d \in Nat
  BY RenewalAssumption
<1> QED BY <1>1, <1>2

LEMMA IdleKnows == Knows(Idle)
  BY DEF Idle, Knows

LEMMA InitBase == Init => BaseInv
<1> SUFFICES ASSUME Init PROVE BaseInv
  OBVIOUS
<1>1. Len(requests) = 0 /\ Len(extensions) = 0
  BY DEF Init
<1>2. TypeOK
  BY <1>1, IdleTyped DEF Init, TypeOK
<1>3. \A w \in Worker : Knows(task[w])
  BY IdleKnows DEF Init
<1>4. LocksApart
  BY IdleTyped DEF Init, LocksApart
<1>5. ClosedIffProcessed /\ AtMostOneOpen
  BY <1>1 DEF ClosedIffProcessed, AtMostOneOpen, OpenRequests
<1> QED BY <1>2, <1>3, <1>4, <1>5 DEF BaseInv

(***************************************************************************)
(* A step that leaves requests alone and moves a task on, to anywhere but  *)
(* a lock.                                                                 *)
(***************************************************************************)
LEMMA TaskStep ==
  ASSUME BaseInv, NEW w \in Worker, NEW t \in Task, Knows(t), t.pc # "attach",
         task' = [task EXCEPT ![w] = t], UNCHANGED <<now, requests>>,
         lock' = IF task[w].pc = "attach" THEN lock \ {task[w].request} ELSE lock,
         extensions' \in Seq(Nat), Len(extensions') = Len(extensions),
         expires' \in Nat, halfDone' \subseteq Nat
  PROVE  BaseInv'
<1> USE DEF BaseInv
<1>1. TypeOK'
  BY DEF TypeOK
<1>2. \A v \in Worker : task'[v] = IF v = w THEN t ELSE task[v]
  BY DEF TypeOK
<1>3. ASSUME NEW v \in Worker PROVE Knows(task[v])'
  BY <1>2 DEF Knows, LocksApart
<1>4. LocksApart'
  BY <1>2 DEF LocksApart
<1>5. ClosedIffProcessed' /\ AtMostOneOpen'
  BY DEF ClosedIffProcessed, AtMostOneOpen, OpenRequests
<1> QED BY <1>1, <1>3, <1>4, <1>5

(***************************************************************************)
(* A step that saves request r, which no other task has locked, with       *)
(* consistent values that the unique constraint admits.                    *)
(***************************************************************************)
LEMMA RequestStep ==
  ASSUME BaseInv, NEW w \in Worker, NEW r \in 1..Len(requests), NEW q \in Request,
         q.processed = (q.status \notin Open), UniqueOpen(r, q.status),
         \A v \in Worker : v # w /\ task[v].pc = "attach" => task[v].request # r,
         task[w].pc = "attach" => task[w].request = r,
         requests' = [requests EXCEPT ![r] = q], task' = [task EXCEPT ![w] = Idle],
         lock' = IF task[w].pc = "attach" THEN lock \ {r} ELSE lock,
         UNCHANGED <<now, expires, extensions, halfDone>>
  PROVE  BaseInv'
<1> USE DEF BaseInv
<1>1. /\ requests' \in Seq(Request) /\ Len(requests') = Len(requests)
      /\ \A s \in 1..Len(requests) : requests'[s] = IF s = r THEN q ELSE requests[s]
  BY ExceptSeq DEF TypeOK
<1>2. TypeOK'
  BY <1>1, IdleTyped DEF TypeOK
<1>3. \A v \in Worker : task'[v] = IF v = w THEN Idle ELSE task[v]
  BY DEF TypeOK
<1>4. ASSUME NEW v \in Worker PROVE Knows(task[v])'
  BY <1>1, <1>3, IdleTyped DEF Knows
<1>5. LocksApart'
  BY <1>3, IdleTyped DEF LocksApart
<1>6. ClosedIffProcessed'
  BY <1>1 DEF ClosedIffProcessed
<1>7. AtMostOneOpen'
  BY <1>1 DEF AtMostOneOpen, OpenRequests, UniqueOpen
<1> QED BY <1>2, <1>4, <1>5, <1>6, <1>7

-----------------------------------------------------------------------------
LEMMA OperatorPostBase ==
  ASSUME BaseInv, NEW w \in Worker, NEW r \in 1..Len(requests), NEW target \in Target,
         NEW days \in Days \cup {0}, OperatorPost(w, r, target, days)
  PROVE  BaseInv'
<1> DEFINE t == [Idle EXCEPT !.pc = "request", !.request = r,
                   !.target = target, !.days = days, !.until = expires]
<1>0. r \in Nat /\ expires \in Nat /\ requests \in Seq(Request)
  BY DEF BaseInv, TypeOK
<1>1. t \in Task /\ t.pc = "request" /\ t.request = r
  <2>1. Idle \in Task
    BY IdleTyped
  <2>2. t \in Task
    BY <1>0, <2>1 DEF Task, PC
  <2>3. Idle = [pc |-> Idle.pc, request |-> Idle.request, target |-> Idle.target, days |-> Idle.days,
                until |-> Idle.until, seen |-> Idle.seen, file |-> Idle.file]
    BY <2>1 DEF Task
  <2> QED BY <2>2, <2>3
<1>2. Knows(t)
  BY <1>1 DEF Knows
<1>3. task' = [task EXCEPT ![w] = t] /\ task[w].pc = "idle"
      /\ UNCHANGED <<now, expires, requests, lock, extensions, halfDone>>
  BY DEF OperatorPost
<1> HIDE DEF t
<1> QED BY <1>1, <1>2, <1>3, TaskStep DEF BaseInv, TypeOK

LEMMA LoadRequestBase ==
  ASSUME BaseInv, NEW w \in Worker, LoadRequest(w)
  PROVE  BaseInv'
<1> DEFINE old == task[w]
           seen == requests[old.request]
           extend == old.target = "extend_and_close"
           t == [old EXCEPT !.pc = IF extend THEN "extend" ELSE "save", !.seen = seen,
                            !.until = IF extend THEN Extended(old.until, old.days) ELSE 0]
<1>1. old \in Task /\ old.pc = "request" /\ old.request \in 1..Len(requests)
  BY DEF LoadRequest, BaseInv, TypeOK, Knows
<1>2. seen \in Request /\ seen.processed = (seen.status \notin Open)
  BY <1>1 DEF BaseInv, TypeOK, ClosedIffProcessed
<1>3. Extended(old.until, old.days) \in Nat
  <2>1. old.until \in Nat /\ old.days \in Nat
    BY <1>1, TaskTimes
  <2>2. now \in Nat
    BY DEF BaseInv, TypeOK
  <2> QED BY <2>1, <2>2 DEF Extended
<1>4. t \in Task /\ t.pc \in {"extend", "save"} /\ t.request = old.request /\ t.seen = seen
  BY <1>1, <1>2, <1>3 DEF Task, PC
<1>5. Knows(t)
  BY <1>1, <1>2, <1>4 DEF Knows
<1>6. task' = [task EXCEPT ![w] = t]
      /\ UNCHANGED <<now, expires, requests, lock, extensions, halfDone>>
  BY DEF LoadRequest
<1> HIDE DEF t
<1> QED BY <1>1, <1>4, <1>5, <1>6, TaskStep DEF BaseInv, TypeOK

LEMMA RefuseBase ==
  ASSUME BaseInv, NEW w \in Worker, Refuse(w)
  PROVE  BaseInv'
  BY IdleTyped, IdleKnows, TaskStep DEF Refuse, Finish, BaseInv, TypeOK

LEMMA ExtendClientBase ==
  ASSUME BaseInv, NEW w \in Worker, ExtendClient(w)
  PROVE  BaseInv'
<1> DEFINE t == [task[w] EXCEPT !.pc = "save", !.until = 0]
<1>1. task[w] \in Task /\ task[w].pc = "extend" /\ Knows(task[w])
  BY DEF ExtendClient, BaseInv, TypeOK
<1>2. t \in Task /\ t.pc = "save" /\ t.request = task[w].request /\ t.seen = task[w].seen
  BY <1>1 DEF Task, PC
<1>3. Knows(t)
  BY <1>1, <1>2 DEF Knows
<1>4. task' = [task EXCEPT ![w] = t] /\ UNCHANGED <<now, requests, lock, halfDone>>
  BY DEF ExtendClient, BaseInv, TypeOK
<1>5. expires' \in Nat
  BY <1>1 DEF ExtendClient, Task
<1>6. task[w].request \in 1..Len(extensions) /\ extensions \in Seq(Nat)
  BY <1>1 DEF Knows, BaseInv, TypeOK
<1>7. extensions' = [extensions EXCEPT ![task[w].request] = extensions[task[w].request] + 1]
      /\ extensions[task[w].request] + 1 \in Nat
  BY <1>6 DEF ExtendClient
<1>8. extensions' \in Seq(Nat) /\ Len(extensions') = Len(extensions)
  BY <1>6, <1>7, ExceptSeq
<1> HIDE DEF t
<1> QED BY <1>1, <1>2, <1>3, <1>4, <1>5, <1>8, TaskStep DEF BaseInv, TypeOK

LEMMA SaveRequestBase ==
  ASSUME BaseInv, NEW w \in Worker, SaveRequest(w)
  PROVE  BaseInv'
<1> DEFINE t == task[w]
           r == t.request
           q == [requests[r] EXCEPT !.status = SavedStatus(t), !.processed = SavedProcessed(t)]
<1>1. t \in Task /\ t.pc = "save" /\ r \notin lock /\ Knows(t)
  BY DEF SaveRequest, BaseInv, TypeOK
<1>2. r \in 1..Len(requests) /\ requests[r] \in Request /\ requests \in Seq(Request)
  BY <1>1 DEF Knows, BaseInv, TypeOK
<1>3. SavedStatus(t) \in Status
  BY <1>1 DEF SavedStatus, Task, Target, Status
<1>4. SavedProcessed(t) = (SavedStatus(t) \notin Open)
  <2>1. CASE t.target = t.seen.status
    <3>1. t.target \in Status
      BY <1>1, <2>1 DEF Task, Request
    <3>2. SavedStatus(t) = t.seen.status
      BY <2>1, <3>1 DEF SavedStatus, Status
    <3> QED BY <1>1, <2>1, <3>2 DEF SavedProcessed, Knows
  <2>2. CASE t.target # t.seen.status
    BY <2>2 DEF SavedProcessed
  <2> QED BY <2>1, <2>2
<1>5. q \in Request /\ q.status = SavedStatus(t) /\ q.processed = SavedProcessed(t)
  BY <1>2, <1>3, <1>4 DEF Request
<1>6. requests' = [requests EXCEPT ![r] = q]
  BY <1>2 DEF SaveRequest
<1>7. \A v \in Worker : task[v].pc = "attach" => task[v].request # r
  BY <1>1 DEF BaseInv, Knows
<1>8. /\ UniqueOpen(r, q.status)
      /\ task' = [task EXCEPT ![w] = Idle]
      /\ UNCHANGED <<now, expires, lock, extensions, halfDone>>
  BY <1>5 DEF SaveRequest, Finish
<1>9. q.processed = (q.status \notin Open)
  BY <1>4, <1>5
<1> HIDE DEF q
<1> QED BY <1>1, <1>2, <1>5, <1>6, <1>7, <1>8, <1>9, RequestStep

LEMMA PortalPostBase ==
  ASSUME BaseInv, NEW w \in Worker, NEW file \in File \cup {NoFile}, PortalPost(w, file)
  PROVE  BaseInv'
<1>0. Idle = [pc |-> "idle", request |-> 0, target |-> "new", days |-> 0, until |-> 0,
              seen |-> Idle.seen, file |-> NoFile]
  BY DEF Idle
<1>1. CASE /\ task' = [task EXCEPT ![w] = [Idle EXCEPT !.pc = "insert", !.file = file]]
           /\ UNCHANGED lock
  <2> DEFINE t == [Idle EXCEPT !.pc = "insert", !.file = file]
  <2>1. t \in Task
    BY IdleTyped DEF Task, PC
  <2>2. t.pc = "insert"
    BY <1>0
  <2>3. Knows(t)
    BY <2>2 DEF Knows
  <2>4. task[w].pc = "idle" /\ UNCHANGED <<now, expires, requests, extensions, halfDone>>
    BY DEF PortalPost
  <2> HIDE DEF t
  <2> QED BY <1>1, <2>1, <2>2, <2>3, <2>4, TaskStep DEF t, BaseInv, TypeOK
<1>2. CASE \E r \in OpenRequests \ lock :
             /\ task' = [task EXCEPT ![w] = [Idle EXCEPT !.pc = "attach", !.request = r,
                                               !.seen = requests[r], !.file = file]]
             /\ lock' = lock \cup {r}
  <2>1. PICK r \in OpenRequests \ lock :
             /\ task' = [task EXCEPT ![w] = [Idle EXCEPT !.pc = "attach", !.request = r,
                                               !.seen = requests[r], !.file = file]]
             /\ lock' = lock \cup {r}
    BY <1>2
  <2> DEFINE t == [Idle EXCEPT !.pc = "attach", !.request = r,
                     !.seen = requests[r], !.file = file]
  <2>2. /\ r \in 1..Len(requests) /\ r \in Nat /\ requests[r] \in Request
        /\ requests[r].status \in Open /\ r \notin lock
    BY DEF OpenRequests, BaseInv, TypeOK
  <2>3. t \in Task
    BY <2>2, IdleTyped DEF Task, PC
  <2>4. t.pc = "attach" /\ t.request = r /\ t.seen = requests[r]
    BY <1>0
  <2>5. task' = [task EXCEPT ![w] = t] /\ UNCHANGED <<now, expires, requests, extensions, halfDone>>
    BY <2>1 DEF PortalPost
  <2> HIDE DEF t
  <2>6. TypeOK'
    BY <2>1, <2>2, <2>3, <2>5 DEF BaseInv, TypeOK
  <2>7. \A v \in Worker : task'[v] = IF v = w THEN t ELSE task[v]
    BY <2>5 DEF BaseInv, TypeOK
  <2>8. ASSUME NEW v \in Worker PROVE Knows(task[v])'
    BY <2>1, <2>2, <2>4, <2>5, <2>7 DEF BaseInv, Knows
  <2>9. LocksApart'
    BY <2>2, <2>4, <2>7 DEF BaseInv, Knows, LocksApart
  <2>10. ClosedIffProcessed' /\ AtMostOneOpen'
    BY <2>5 DEF BaseInv, ClosedIffProcessed, AtMostOneOpen, OpenRequests
  <2> QED BY <2>6, <2>8, <2>9, <2>10 DEF BaseInv
<1> QED BY <1>1, <1>2 DEF PortalPost

LEMMA AttachBase ==
  ASSUME BaseInv, NEW w \in Worker, Attach(w)
  PROVE  BaseInv'
<1> DEFINE t == task[w]
           r == t.request
           q == IF t.file # NoFile /\ t.seen.file = NoFile
                THEN [requests[r] EXCEPT !.file = t.file] ELSE requests[r]
<1>1. t \in Task /\ t.pc = "attach" /\ Knows(t)
  BY DEF Attach, BaseInv, TypeOK
<1>2. r \in 1..Len(requests) /\ requests[r] \in Request /\ requests \in Seq(Request)
  BY <1>1 DEF Knows, BaseInv, TypeOK
<1>3. requests[r].status \in Open /\ requests[r].processed = (requests[r].status \notin Open)
  BY <1>1, <1>2 DEF Knows, BaseInv, ClosedIffProcessed
<1>4. t.file \in File \cup {NoFile}
  BY <1>1 DEF Task
<1>5. q \in Request /\ q.status = requests[r].status /\ q.processed = requests[r].processed
  BY <1>2, <1>4 DEF Request
<1>6. requests' = [requests EXCEPT ![r] = q]
  <2>1. [requests EXCEPT ![r] = requests[r]] = requests
    BY <1>2
  <2> QED BY <1>2, <2>1 DEF Attach
<1>7. UniqueOpen(r, q.status)
  BY <1>2, <1>3 DEF UniqueOpen, BaseInv, AtMostOneOpen, OpenRequests
<1>8. \A v \in Worker : v # w /\ task[v].pc = "attach" => task[v].request # r
  BY <1>1 DEF BaseInv, LocksApart
<1>9. /\ task' = [task EXCEPT ![w] = Idle] /\ lock' = lock \ {r}
      /\ UNCHANGED <<now, expires, extensions, halfDone>>
  BY DEF Attach, Finish
<1>10. q.processed = (q.status \notin Open)
  BY <1>3, <1>5
<1> HIDE DEF q
<1> QED BY <1>1, <1>2, <1>5, <1>6, <1>7, <1>8, <1>9, <1>10, RequestStep

LEMMA InsertBase ==
  ASSUME BaseInv, NEW w \in Worker, Insert(w)
  PROVE  BaseInv'
<1> DEFINE q == NewRequest(task[w].file)
<1>1. task[w] \in Task /\ task[w].pc = "insert" /\ requests \in Seq(Request)
      /\ extensions \in Seq(Nat) /\ Len(extensions) = Len(requests) /\ Len(requests) \in Nat
  BY DEF Insert, BaseInv, TypeOK
<1>2. q \in Request
  BY <1>1, NewRequestTyped DEF Task
<1>3. /\ requests' = Append(requests, q) /\ extensions' = Append(extensions, 0)
      /\ task' = [task EXCEPT ![w] = Idle] /\ UNCHANGED <<now, expires, lock, halfDone>>
      /\ UniqueOpen(Len(requests) + 1, "new")
  BY DEF Insert, Finish
<1>4. q.status \in Open /\ q.processed = FALSE
  BY DEF NewRequest, Open
<1> HIDE DEF q
<1>5. /\ requests' \in Seq(Request) /\ Len(requests') = Len(requests) + 1
      /\ \A s \in 1..Len(requests) : requests'[s] = requests[s]
      /\ requests'[Len(requests) + 1] = q
  BY <1>1, <1>2, <1>3, AppendProperties
<1>6. extensions' \in Seq(Nat) /\ Len(extensions') = Len(extensions) + 1
  BY <1>1, <1>3, AppendProperties
<1>7. TypeOK'
  BY <1>1, <1>3, <1>5, <1>6, IdleTyped DEF BaseInv, TypeOK
<1>8. \A v \in Worker : task'[v] = IF v = w THEN Idle ELSE task[v]
  BY <1>3 DEF BaseInv, TypeOK
<1>9. ASSUME NEW v \in Worker PROVE Knows(task[v])'
  BY <1>1, <1>3, <1>5, <1>8, IdleTyped DEF BaseInv, Knows
<1>10. LocksApart'
  BY <1>8, IdleTyped DEF BaseInv, LocksApart
<1>11. \A s \in 1..Len(requests') : s = Len(requests) + 1 \/ s \in 1..Len(requests)
  BY <1>1, <1>5
<1>12. ClosedIffProcessed'
  <2> SUFFICES ASSUME NEW s \in 1..Len(requests')
               PROVE requests'[s].processed = (requests'[s].status \notin Open)
    BY DEF ClosedIffProcessed
  <2>1. CASE s = Len(requests) + 1
    BY <1>4, <1>5, <2>1
  <2>2. CASE s \in 1..Len(requests)
    BY <1>5, <2>2 DEF BaseInv, ClosedIffProcessed
  <2> QED BY <1>11, <2>1, <2>2
<1>13. AtMostOneOpen'
  <2>1. OpenRequests \subseteq {Len(requests) + 1}
    BY <1>3 DEF UniqueOpen, Open
  <2>2. OpenRequests' \subseteq {Len(requests) + 1}
    BY <1>5, <1>11, <2>1 DEF OpenRequests
  <2> QED BY <2>2 DEF AtMostOneOpen
<1> QED BY <1>7, <1>9, <1>10, <1>12, <1>13 DEF BaseInv

LEMMA ConflictBase ==
  ASSUME BaseInv, NEW w \in Worker, Conflict(w)
  PROVE  BaseInv'
  BY IdleTyped, IdleKnows, TaskStep DEF Conflict, Finish, BaseInv, TypeOK

LEMMA FailBase ==
  ASSUME BaseInv, NEW w \in Worker, Fail(w)
  PROVE  BaseInv'
<1>1. task[w] \in Task
  BY DEF BaseInv, TypeOK
<1>2. task[w].request \in Nat
  BY <1>1 DEF Task
<1>3. halfDone' \subseteq Nat
  BY <1>2 DEF Fail, BaseInv, TypeOK
<1> QED BY <1>3, IdleTyped, IdleKnows, TaskStep DEF Fail, Finish, BaseInv, TypeOK

\* The clock and the expiry an operator enters change nothing the invariant is about.
LEMMA TimeBase ==
  ASSUME BaseInv, UNCHANGED <<requests, lock, task, extensions, halfDone>>,
         now' \in Nat, expires' \in Nat
  PROVE  BaseInv'
  BY DEF BaseInv, TypeOK, Knows, LocksApart, ClosedIffProcessed, AtMostOneOpen, OpenRequests

LEMMA NextBase == BaseInv /\ [Next]_vars => BaseInv'
<1> SUFFICES ASSUME BaseInv, [Next]_vars PROVE BaseInv'
  OBVIOUS
<1>1. ASSUME NEW w \in Worker, Step(w) PROVE BaseInv'
  BY <1>1, OperatorPostBase, LoadRequestBase, RefuseBase, ExtendClientBase, SaveRequestBase,
     PortalPostBase, AttachBase, InsertBase, ConflictBase, FailBase DEF Step
<1>2. ASSUME NEW e \in 0..MaxTime, UpdateLimits(e) PROVE BaseInv'
  <2>1. e \in Nat
    BY RenewalAssumption
  <2> QED BY <1>2, <2>1, TimeBase DEF UpdateLimits, BaseInv, TypeOK
<1>3. CASE Tick
  BY <1>3, TimeBase DEF Tick, BaseInv, TypeOK
<1>4. CASE UNCHANGED vars
  BY <1>4, TimeBase DEF vars, BaseInv, TypeOK
<1> QED BY <1>1, <1>2, <1>3, <1>4 DEF Next

LEMMA BaseAlways == Spec => []BaseInv
<1>1. Init => BaseInv
  BY InitBase
<1>2. BaseInv /\ [Next]_vars => BaseInv'
  BY NextBase
<1> QED BY <1>1, <1>2, PTL DEF Spec

\* Every variable keeps its type, however handlers overlap or fail.
THEOREM TypeCorrect == Spec => []TypeOK
<1>1. BaseInv => TypeOK
  BY DEF BaseInv
<1> QED BY <1>1, BaseAlways, PTL

\* However handlers overlap or fail, a request has a processing time exactly if
\* it is closed.
THEOREM ClosedAlwaysProcessed == Spec => []ClosedIffProcessed
<1>1. BaseInv => ClosedIffProcessed
  BY DEF BaseInv
<1> QED BY <1>1, BaseAlways, PTL

\* However submissions and operators overlap, at most one request is open.
THEOREM AlwaysAtMostOneOpen == Spec => []AtMostOneOpen
<1>1. BaseInv => AtMostOneOpen
  BY DEF BaseInv
<1> QED BY <1>1, BaseAlways, PTL

-----------------------------------------------------------------------------
(***************************************************************************)
(* Attachments: only Attach writes one, to a request whose lock it holds   *)
(* since it read it as open and without a file.                            *)
(***************************************************************************)
LEMMA FilesStep ==
  ASSUME BaseInv, [Next]_vars, NEW r \in 1..Len(requests), requests'[r].file # requests[r].file
  PROVE  requests[r].file = NoFile /\ requests[r].status \in Open
<1>1. requests \in Seq(Request) /\ requests[r] \in Request /\ requests' # requests
  BY DEF BaseInv, TypeOK
<1>2. ASSUME NEW w \in Worker, SaveRequest(w) PROVE FALSE
  <2> DEFINE a == task[w].request
             q == [requests[a] EXCEPT !.status = SavedStatus(task[w]),
                                      !.processed = SavedProcessed(task[w])]
  <2>1. a \in 1..Len(requests) /\ requests[a] \in Request
    BY <1>1, <1>2 DEF SaveRequest, BaseInv, Knows, TypeOK
  <2>2. requests' = [requests EXCEPT ![a] = q]
    BY <1>2 DEF SaveRequest
  <2>3. q.file = requests[a].file
    BY <2>1 DEF Request
  <2> HIDE DEF q
  <2>4. requests'[r] = IF r = a THEN q ELSE requests[r]
    BY <1>1, <2>2
  <2> QED BY <2>3, <2>4
<1>3. ASSUME NEW w \in Worker, Attach(w) PROVE requests[r].file = NoFile /\ requests[r].status \in Open
  <2>1. task[w].pc = "attach" /\ Knows(task[w])
    BY <1>3 DEF Attach, BaseInv
  <2>2. task[w].seen = requests[task[w].request] /\ task[w].seen.status \in Open
    BY <2>1 DEF Knows
  <2>3. /\ task[w].seen.file = NoFile
        /\ requests' = [requests EXCEPT ![task[w].request].file = task[w].file]
    BY <1>1, <1>3 DEF Attach
  <2>4. r = task[w].request
    BY <1>1, <2>3
  <2> QED BY <2>2, <2>3, <2>4
<1>4. ASSUME NEW w \in Worker, Insert(w) PROVE FALSE
  <2>1. NewRequest(task[w].file) \in Request
    BY NewRequestTyped DEF BaseInv, TypeOK, Task
  <2>2. requests' = Append(requests, NewRequest(task[w].file))
    BY <1>4 DEF Insert
  <2>3. requests'[r] = requests[r]
    BY <1>1, <2>1, <2>2, AppendProperties
  <2> QED BY <2>3
<1>5. \E w \in Worker : SaveRequest(w) \/ Attach(w) \/ Insert(w)
  BY <1>1 DEF Next, Step, OperatorPost, LoadRequest, Refuse, ExtendClient, PortalPost, Conflict,
              Fail, UpdateLimits, Tick, vars
<1> QED BY <1>2, <1>3, <1>4, <1>5

\* Submitting again never replaces the file of a request, however submissions and
\* operators overlap.
THEOREM AttachmentAlwaysKept == Spec => AttachmentKept
<1>1. BaseInv /\ [Next]_vars =>
        [\A r \in 1..Len(requests) :
           requests[r].file # NoFile => requests'[r].file = requests[r].file]_vars
  BY FilesStep
<1> QED BY <1>1, BaseAlways, PTL DEF Spec, AttachmentKept

\* A file is only ever added to an open request.
THEOREM AlwaysAttachedWhileOpen == Spec => AttachedOnlyWhileOpen
<1>1. BaseInv /\ [Next]_vars =>
        [\A r \in 1..Len(requests) :
           requests'[r].file # requests[r].file => requests[r].status \in Open]_vars
  BY FilesStep
<1> QED BY <1>1, BaseAlways, PTL DEF Spec, AttachedOnlyWhileOpen

-----------------------------------------------------------------------------
(***************************************************************************)
(* One operator at a time: what an operator's task loaded is still the     *)
(* case, and a request is extended once, or closed, or left half done.     *)
(***************************************************************************)
OperatorPC == {"request", "extend", "save"}

OneOperator ==
  \A v, w \in Worker : task[v].pc \in OperatorPC /\ task[w].pc \in OperatorPC => v = w

Current(t) ==
  /\ t.pc \in OperatorPC => (t.target = "extend_and_close") = (t.days # 0)
  /\ t.pc = "request" => t.until = expires
  /\ t.pc = "extend" => /\ t.target = "extend_and_close" /\ t.until > expires
                        /\ extensions[t.request] = 0 \/ t.request \in halfDone
  /\ t.pc \in {"extend", "save"} => /\ requests[t.request].status = t.seen.status
                                    /\ Accepted(t.target, t.seen.status)

Closing(r) ==
  \E w \in Worker : /\ task[w].pc = "save" /\ task[w].target = "extend_and_close"
                    /\ task[w].request = r

ExtendedThenClosed ==
  \A r \in 1..Len(requests) :
    \/ r \in halfDone
    \/ extensions[r] = 0
    \/ extensions[r] = 1 /\ (requests[r].status \notin Open \/ Closing(r))

OrderlyInv ==
  /\ BaseInv
  /\ OneOperator
  /\ \A w \in Worker : Current(task[w])
  /\ ExtendedThenClosed

LEMMA InitOrderly == Init => OrderlyInv
<1> SUFFICES ASSUME Init PROVE OrderlyInv
  OBVIOUS
<1>1. Len(requests) = 0 /\ \A w \in Worker : task[w].pc = "idle"
  BY IdleTyped DEF Init
<1> QED BY <1>1, InitBase DEF OrderlyInv, OneOperator, OperatorPC, Current, ExtendedThenClosed

(***************************************************************************)
(* A step of a portal task, or one that ends an operator's task without    *)
(* saving anything.                                                        *)
(***************************************************************************)
LEMMA LeaveStep ==
  ASSUME OrderlyInv, BaseInv', NEW w \in Worker, NEW t, t.pc \notin OperatorPC,
         task' = [task EXCEPT ![w] = t], expires' = expires, halfDone \subseteq halfDone',
         task[w].pc = "save" /\ task[w].target = "extend_and_close"
           => task[w].request \in halfDone',
         \A r \in 1..Len(requests) :
           requests'[r].status = requests[r].status /\ extensions'[r] = extensions[r],
         \A r \in 1..Len(requests') : r \in 1..Len(requests) \/ extensions'[r] = 0
  PROVE  OrderlyInv'
<1> USE DEF OrderlyInv
<1>1. \A v \in Worker : task'[v] = IF v = w THEN t ELSE task[v]
  BY DEF BaseInv, TypeOK
<1>2. OneOperator'
  BY <1>1 DEF OneOperator
<1>3. ASSUME NEW v \in Worker PROVE Current(task[v])'
  <2>1. CASE task'[v].pc \notin OperatorPC
    BY <2>1 DEF Current, OperatorPC
  <2>2. CASE task'[v].pc \in OperatorPC
    <3>1. task'[v] = task[v] /\ Current(task[v]) /\ Knows(task[v])
      BY <1>1, <2>2 DEF BaseInv
    <3>2. task[v].request \in 1..Len(requests)
      BY <2>2, <3>1 DEF Knows, OperatorPC
    <3> QED BY <3>1, <3>2 DEF Current
  <2> QED BY <2>1, <2>2
<1>4. ExtendedThenClosed'
  <2> SUFFICES ASSUME NEW r \in 1..Len(requests'), r \notin halfDone', extensions'[r] # 0
               PROVE extensions'[r] = 1 /\ (requests'[r].status \notin Open \/ Closing(r)')
    BY DEF ExtendedThenClosed
  <2>1. r \in 1..Len(requests) /\ r \notin halfDone /\ extensions'[r] = extensions[r]
    OBVIOUS
  <2>2. extensions[r] = 1 /\ (requests[r].status \notin Open \/ Closing(r))
    BY <2>1 DEF ExtendedThenClosed
  <2>3. Closing(r) => Closing(r)'
    BY <1>1 DEF Closing
  <2> QED BY <2>1, <2>2, <2>3
<1> QED BY <1>2, <1>3, <1>4

(***************************************************************************)
(* A step of the only operator that changes no request and no extension.   *)
(***************************************************************************)
LEMMA OperatorStep ==
  ASSUME OrderlyInv, BaseInv', NEW w \in Worker, NEW t, Current(t),
         \A v \in Worker : v # w => task[v].pc \notin OperatorPC,
         task[w].pc # "save",
         task' = [task EXCEPT ![w] = t], UNCHANGED <<expires, requests, extensions, halfDone>>
  PROVE  OrderlyInv'
<1> USE DEF OrderlyInv
<1>1. \A v \in Worker : task'[v] = IF v = w THEN t ELSE task[v]
  BY DEF BaseInv, TypeOK
<1>2. OneOperator'
  BY <1>1 DEF OneOperator
<1>3. \A v \in Worker : Current(task[v])'
  BY <1>1 DEF Current
<1>4. \A r : Closing(r) => Closing(r)'
  BY <1>1 DEF Closing
<1>5. ExtendedThenClosed'
  BY <1>4 DEF ExtendedThenClosed
<1> QED BY <1>2, <1>3, <1>5

LEMMA OperatorPostOrderly ==
  ASSUME Exclusive, OrderlyInv, BaseInv', NEW w \in Worker, NEW r \in 1..Len(requests),
         NEW target \in Target, NEW days \in Days \cup {0}, OperatorPost(w, r, target, days)
  PROVE  OrderlyInv'
<1> DEFINE t == [Idle EXCEPT !.pc = "request", !.request = r,
                   !.target = target, !.days = days, !.until = expires]
<1>1. t.pc = "request" /\ t.target = target /\ t.days = days /\ t.until = expires
  BY DEF Idle
<1>2. Current(t)
  BY <1>1 DEF OperatorPost, Current
<1>3. /\ task' = [task EXCEPT ![w] = t] /\ task[w].pc = "idle"
      /\ UNCHANGED <<expires, requests, extensions, halfDone>>
      /\ \A v \in Worker : task[v].pc \notin OperatorPC
  BY DEF OperatorPost, Operating, OperatorPC
<1> HIDE DEF t
<1> QED BY <1>2, <1>3, OperatorStep

LEMMA LoadRequestOrderly ==
  ASSUME OrderlyInv, BaseInv', NEW w \in Worker, LoadRequest(w)
  PROVE  OrderlyInv'
<1> DEFINE old == task[w]
           r == old.request
           extend == old.target = "extend_and_close"
           t == [old EXCEPT !.pc = IF extend THEN "extend" ELSE "save", !.seen = requests[r],
                            !.until = IF extend THEN Extended(old.until, old.days) ELSE 0]
<1>1. /\ old \in Task /\ old.pc = "request" /\ Accepted(old.target, requests[r].status)
      /\ r \in 1..Len(requests)
  BY DEF LoadRequest, OrderlyInv, BaseInv, TypeOK, Knows
<1>2. (old.target = "extend_and_close") = (old.days # 0) /\ old.until = expires
  BY <1>1 DEF OrderlyInv, Current, OperatorPC
<1>3. /\ t.pc = (IF extend THEN "extend" ELSE "save") /\ t.seen = requests[r]
      /\ t.target = old.target /\ t.request = r /\ t.days = old.days
      /\ t.until = (IF extend THEN Extended(old.until, old.days) ELSE 0)
  BY <1>1 DEF Task
<1>4. \A v \in Worker : v # w => task[v].pc \notin OperatorPC
  BY <1>1 DEF OrderlyInv, OneOperator, OperatorPC
<1>5. ASSUME extend PROVE t.until > expires
  <2>1. old.until \in Nat /\ old.days \in Nat /\ old.days # 0 /\ now \in Nat
    BY <1>1, <1>2, <1>5, TaskTimes DEF OrderlyInv, BaseInv, TypeOK
  <2>2. Extended(old.until, old.days) > old.until
    BY <2>1 DEF Extended
  <2> QED BY <1>2, <1>3, <1>5, <2>2
<1>6. ASSUME extend PROVE extensions[r] = 0 \/ r \in halfDone
  <2>1. requests[r].status \in Open
    BY <1>1, <1>6 DEF Accepted
  <2>2. ~ Closing(r)
    BY <1>1, <1>4 DEF Closing, OperatorPC
  <2> QED BY <1>1, <2>1, <2>2 DEF OrderlyInv, ExtendedThenClosed
<1>7. task' = [task EXCEPT ![w] = t] /\ UNCHANGED <<expires, requests, extensions, halfDone>>
  BY DEF LoadRequest
<1> HIDE DEF t
<1>8. Current(t)
  BY <1>1, <1>2, <1>3, <1>5, <1>6 DEF Current, OperatorPC
<1> QED BY <1>1, <1>4, <1>7, <1>8, OperatorStep

LEMMA ExtendClientOrderly ==
  ASSUME OrderlyInv, BaseInv', NEW w \in Worker, ExtendClient(w)
  PROVE  OrderlyInv' /\ expires' > expires
<1> DEFINE old == task[w]
           r == old.request
           t == [old EXCEPT !.pc = "save", !.until = 0]
<1>1. /\ old \in Task /\ old.pc = "extend" /\ Knows(old) /\ Current(old)
      /\ requests \in Seq(Request) /\ extensions \in Seq(Nat) /\ Len(extensions) = Len(requests)
  BY DEF ExtendClient, OrderlyInv, BaseInv, TypeOK
<1>2. /\ r \in 1..Len(requests) /\ old.target = "extend_and_close" /\ old.until > expires
      /\ extensions[r] = 0 \/ r \in halfDone
  BY <1>1 DEF Knows, Current
<1>3. /\ t.pc = "save" /\ t.seen = old.seen /\ t.target = old.target
      /\ t.request = r /\ t.days = old.days
  BY <1>1 DEF Task
<1>4. /\ task' = [task EXCEPT ![w] = t] /\ expires' = old.until
      /\ UNCHANGED <<requests, halfDone>>
  BY DEF ExtendClient, OrderlyInv, BaseInv, TypeOK
<1> HIDE DEF t
<1>5. \A s \in 1..Len(requests) :
        extensions'[s] = IF s = r THEN extensions[r] + 1 ELSE extensions[s]
  BY <1>1, <1>2 DEF ExtendClient
<1>6. \A v \in Worker : task'[v] = IF v = w THEN t ELSE task[v]
  BY <1>4 DEF OrderlyInv, BaseInv, TypeOK
<1>7. \A v \in Worker : v # w => task[v].pc \notin OperatorPC
  BY <1>1 DEF OrderlyInv, OneOperator, OperatorPC
<1>8. OneOperator'
  BY <1>6, <1>7 DEF OneOperator
<1>9. ASSUME NEW v \in Worker PROVE Current(task[v])'
  BY <1>1, <1>3, <1>4, <1>6, <1>7 DEF Current, OperatorPC
<1>10. \A s \in 1..Len(requests) : s = r => Closing(s)'
  BY <1>2, <1>3, <1>6 DEF Closing
<1>11. \A s : Closing(s) => Closing(s)'
  BY <1>1, <1>6 DEF Closing
<1>12. ExtendedThenClosed'
  <2> SUFFICES ASSUME NEW s \in 1..Len(requests), s \notin halfDone, extensions'[s] # 0
               PROVE extensions'[s] = 1 /\ (requests[s].status \notin Open \/ Closing(s)')
    BY <1>4 DEF ExtendedThenClosed
  <2>1. CASE s = r
    <3>1. Closing(s)'
      BY <1>10, <2>1
    <3>2. extensions[r] = 0
      BY <1>2, <2>1
    <3>3. extensions'[s] = extensions[r] + 1
      BY <1>2, <1>5, <2>1
    <3> QED BY <3>1, <3>2, <3>3
  <2>2. CASE s # r
    BY <1>5, <1>11, <2>2 DEF OrderlyInv, ExtendedThenClosed
  <2> QED BY <2>1, <2>2
<1> QED BY <1>2, <1>4, <1>8, <1>9, <1>12 DEF OrderlyInv

(***************************************************************************)
(* The save of the only operator keeps the status of a closed request, and *)
(* closes the request for which it extended the client.                    *)
(***************************************************************************)
LEMMA SaveRequestOrderly ==
  ASSUME OrderlyInv, BaseInv', NEW w \in Worker, SaveRequest(w)
  PROVE  /\ OrderlyInv'
         /\ \A s \in 1..Len(requests) :
              requests[s].status \notin Open => requests'[s].status = requests[s].status
<1> DEFINE t == task[w]
           r == t.request
<1>1. /\ t \in Task /\ t.pc = "save" /\ Knows(t) /\ Current(t)
      /\ requests \in Seq(Request)
  BY DEF SaveRequest, OrderlyInv, BaseInv, TypeOK
<1>2. r \in 1..Len(requests) /\ requests[r] \in Request /\ Accepted(t.target, requests[r].status)
  BY <1>1 DEF Knows, Current
<1>3. /\ Len(requests') = Len(requests)
      /\ \A s \in 1..Len(requests) :
           requests'[s].status = IF s = r THEN SavedStatus(t) ELSE requests[s].status
  BY <1>1, <1>2 DEF SaveRequest, Request
<1>4. \A v \in Worker : task'[v] = IF v = w THEN Idle ELSE task[v]
  BY DEF SaveRequest, Finish, OrderlyInv, BaseInv, TypeOK
<1>5. \A v \in Worker : v # w => task[v].pc \notin OperatorPC
  BY <1>1 DEF OrderlyInv, OneOperator, OperatorPC
<1>6. \A v \in Worker : task'[v].pc \notin OperatorPC
  BY <1>4, <1>5, IdleTyped DEF OperatorPC
<1>7. OneOperator' /\ \A v \in Worker : Current(task[v])'
  BY <1>6 DEF OneOperator, Current, OperatorPC
<1>8. requests[r].status \notin Open => SavedStatus(t) = requests[r].status
  BY <1>2 DEF Accepted, Allowed, SavedStatus, Open, Request, Status
<1>9. \A s \in 1..Len(requests) :
        requests[s].status \notin Open => requests'[s].status = requests[s].status
  BY <1>3, <1>8
<1>10. ExtendedThenClosed'
  <2> SUFFICES ASSUME NEW s \in 1..Len(requests), s \notin halfDone, extensions[s] # 0
               PROVE extensions[s] = 1 /\ requests'[s].status \notin Open
    BY <1>3 DEF SaveRequest, ExtendedThenClosed
  <2>1. extensions[s] = 1 /\ (requests[s].status \notin Open \/ Closing(s))
    BY DEF OrderlyInv, ExtendedThenClosed
  <2>2. CASE Closing(s)
    <3>1. s = r /\ t.target = "extend_and_close"
      BY <1>5, <2>2 DEF Closing, OperatorPC
    <3> QED BY <1>3, <2>1, <3>1 DEF SavedStatus, Open
  <2> QED BY <1>9, <2>1, <2>2
<1> QED BY <1>7, <1>9, <1>10 DEF OrderlyInv

LEMMA AttachOrderly ==
  ASSUME OrderlyInv, BaseInv', NEW w \in Worker, Attach(w)
  PROVE  OrderlyInv'
<1>1. task[w].pc = "attach" /\ Knows(task[w]) /\ requests \in Seq(Request)
  BY DEF Attach, OrderlyInv, BaseInv, TypeOK
<1>2. /\ Len(requests') = Len(requests)
      /\ \A s \in 1..Len(requests) : requests'[s].status = requests[s].status
  BY <1>1 DEF Attach, Knows, Request
<1>3. /\ task' = [task EXCEPT ![w] = Idle] /\ UNCHANGED <<expires, extensions, halfDone>>
      /\ Idle.pc \notin OperatorPC
  BY IdleTyped DEF Attach, Finish, OperatorPC
<1> QED BY <1>1, <1>2, <1>3, LeaveStep

LEMMA InsertOrderly ==
  ASSUME OrderlyInv, BaseInv', NEW w \in Worker, Insert(w)
  PROVE  OrderlyInv'
<1> DEFINE q == NewRequest(task[w].file)
<1>1. /\ task[w] \in Task /\ task[w].pc = "insert" /\ requests \in Seq(Request)
      /\ extensions \in Seq(Nat) /\ Len(extensions) = Len(requests) /\ Len(requests) \in Nat
  BY DEF Insert, OrderlyInv, BaseInv, TypeOK
<1>2. q \in Request
  BY <1>1, NewRequestTyped DEF Task
<1>3. /\ requests' = Append(requests, q) /\ extensions' = Append(extensions, 0)
      /\ task' = [task EXCEPT ![w] = Idle] /\ UNCHANGED <<expires, halfDone>>
      /\ Idle.pc \notin OperatorPC
  BY IdleTyped DEF Insert, Finish, OperatorPC
<1> HIDE DEF q
<1>4. /\ Len(requests') = Len(requests) + 1
      /\ \A s \in 1..Len(requests) : requests'[s] = requests[s]
  BY <1>1, <1>2, <1>3, AppendProperties
<1>5. /\ \A s \in 1..Len(extensions) : extensions'[s] = extensions[s]
      /\ extensions'[Len(extensions) + 1] = 0
  BY <1>1, <1>3, AppendProperties
<1>6. \A s \in 1..Len(requests') : s = Len(requests) + 1 \/ s \in 1..Len(requests)
  BY <1>1, <1>4
<1> QED BY <1>1, <1>3, <1>4, <1>5, <1>6, LeaveStep

LEMMA ConflictOrderly ==
  ASSUME OrderlyInv, BaseInv', NEW w \in Worker, Conflict(w)
  PROVE  OrderlyInv'
<1>1. ~ (task[w].pc = "save" /\ task[w].target = "extend_and_close")
  BY DEF Conflict, UniqueOpen, SavedStatus, Open
<1>2. /\ task' = [task EXCEPT ![w] = Idle] /\ UNCHANGED <<expires, requests, extensions, halfDone>>
      /\ Idle.pc \notin OperatorPC
  BY IdleTyped DEF Conflict, Finish, OperatorPC
<1> QED BY <1>1, <1>2, LeaveStep

LEMMA FailOrderly ==
  ASSUME OrderlyInv, BaseInv', NEW w \in Worker, Fail(w)
  PROVE  OrderlyInv'
<1>1. /\ halfDone \subseteq halfDone'
      /\ task[w].pc = "save" /\ task[w].target = "extend_and_close" => task[w].request \in halfDone'
  BY DEF Fail
<1>2. /\ task' = [task EXCEPT ![w] = Idle] /\ UNCHANGED <<expires, requests, extensions>>
      /\ Idle.pc \notin OperatorPC
  BY IdleTyped DEF Fail, Finish, OperatorPC
<1> QED BY <1>1, <1>2, LeaveStep

LEMMA PortalPostOrderly ==
  ASSUME OrderlyInv, BaseInv', NEW w \in Worker, NEW file \in File \cup {NoFile}, PortalPost(w, file)
  PROVE  OrderlyInv'
<1>1. task[w].pc = "idle" /\ UNCHANGED <<expires, requests, extensions, halfDone>>
  BY DEF PortalPost
<1>2. CASE task' = [task EXCEPT ![w] = [Idle EXCEPT !.pc = "insert", !.file = file]]
  <2> DEFINE t == [Idle EXCEPT !.pc = "insert", !.file = file]
  <2>1. t.pc \notin OperatorPC
    BY DEF Idle, OperatorPC
  <2> HIDE DEF t
  <2> QED BY <1>1, <1>2, <2>1, LeaveStep DEF t
<1>3. ASSUME NEW r \in OpenRequests,
             task' = [task EXCEPT ![w] = [Idle EXCEPT !.pc = "attach", !.request = r,
                                            !.seen = requests[r], !.file = file]]
      PROVE  OrderlyInv'
  <2> DEFINE t == [Idle EXCEPT !.pc = "attach", !.request = r,
                     !.seen = requests[r], !.file = file]
  <2>1. t.pc \notin OperatorPC /\ task' = [task EXCEPT ![w] = t]
    BY <1>3 DEF Idle, OperatorPC
  <2> HIDE DEF t
  <2> QED BY <1>1, <2>1, LeaveStep
<1> QED BY <1>2, <1>3 DEF PortalPost

LEMMA RefuseOrderly ==
  ASSUME OrderlyInv, BaseInv', NEW w \in Worker, Refuse(w)
  PROVE  OrderlyInv'
<1>1. /\ task[w].pc = "request" /\ task' = [task EXCEPT ![w] = Idle]
      /\ UNCHANGED <<expires, requests, extensions, halfDone>> /\ Idle.pc \notin OperatorPC
  BY IdleTyped DEF Refuse, Finish, OperatorPC
<1> QED BY <1>1, LeaveStep

LEMMA UpdateLimitsOrderly ==
  ASSUME Exclusive, OrderlyInv, BaseInv', NEW e \in 0..MaxTime, UpdateLimits(e)
  PROVE  OrderlyInv'
<1>1. \A v \in Worker : task[v].pc \notin OperatorPC
  BY DEF UpdateLimits, Operating, OperatorPC
<1>2. UNCHANGED <<requests, task, extensions, halfDone>>
  BY DEF UpdateLimits
<1>3. OneOperator' /\ \A v \in Worker : Current(task[v])'
  BY <1>1, <1>2 DEF OneOperator, Current, OperatorPC
<1>4. ExtendedThenClosed'
  BY <1>2 DEF OrderlyInv, ExtendedThenClosed, Closing
<1> QED BY <1>3, <1>4 DEF OrderlyInv

LEMMA QuietOrderly ==
  ASSUME OrderlyInv, BaseInv', UNCHANGED <<expires, requests, task, extensions, halfDone>>
  PROVE  OrderlyInv'
  BY DEF OrderlyInv, OneOperator, Current, ExtendedThenClosed, Closing

LEMMA NextOrderly == Exclusive /\ OrderlyInv /\ [Next]_vars => OrderlyInv'
<1> SUFFICES ASSUME Exclusive, OrderlyInv, [Next]_vars PROVE OrderlyInv'
  OBVIOUS
<1>1. BaseInv'
  BY NextBase DEF OrderlyInv
<1>2. ASSUME NEW w \in Worker, Step(w) PROVE OrderlyInv'
  BY <1>1, <1>2, OperatorPostOrderly, LoadRequestOrderly, RefuseOrderly, ExtendClientOrderly,
     SaveRequestOrderly, PortalPostOrderly, AttachOrderly, InsertOrderly, ConflictOrderly,
     FailOrderly DEF Step
<1>3. ASSUME NEW e \in 0..MaxTime, UpdateLimits(e) PROVE OrderlyInv'
  BY <1>1, <1>3, UpdateLimitsOrderly
<1>4. CASE Tick
  BY <1>1, <1>4, QuietOrderly DEF Tick
<1>5. CASE UNCHANGED vars
  BY <1>1, <1>5, QuietOrderly DEF vars
<1> QED BY <1>2, <1>3, <1>4, <1>5 DEF Next

LEMMA OrderlyAlways == ASSUME Exclusive PROVE Spec => []OrderlyInv
<1>1. Init => OrderlyInv
  BY InitOrderly
<1>2. OrderlyInv /\ [Next]_vars => OrderlyInv'
  BY NextOrderly
<1> QED BY <1>1, <1>2, PTL DEF Spec

-----------------------------------------------------------------------------
LEMMA StatusStep ==
  ASSUME OrderlyInv, [Next]_vars, NEW r \in 1..Len(requests), requests[r].status \notin Open
  PROVE  requests'[r].status = requests[r].status
<1>1. BaseInv' /\ requests \in Seq(Request)
  BY NextBase DEF OrderlyInv, BaseInv, TypeOK
<1>2. ASSUME NEW w \in Worker, SaveRequest(w) PROVE requests'[r].status = requests[r].status
  BY <1>1, <1>2, SaveRequestOrderly
<1>3. ASSUME NEW w \in Worker, Attach(w) PROVE requests'[r].status = requests[r].status
  <2>1. task[w].request \in 1..Len(requests)
    BY <1>3 DEF Attach, OrderlyInv, BaseInv, Knows
  <2> QED BY <1>1, <1>3, <2>1 DEF Attach, Request
<1>4. ASSUME NEW w \in Worker, Insert(w) PROVE requests'[r] = requests[r]
  <2>1. NewRequest(task[w].file) \in Request
    BY NewRequestTyped DEF OrderlyInv, BaseInv, TypeOK, Task
  <2> QED BY <1>1, <1>4, <2>1, AppendProperties DEF Insert
<1>5. \/ requests' = requests
      \/ \E w \in Worker : SaveRequest(w) \/ Attach(w) \/ Insert(w)
  BY DEF Next, Step, OperatorPost, LoadRequest, Refuse, ExtendClient, PortalPost, Conflict,
         Fail, UpdateLimits, Tick, vars
<1> QED BY <1>2, <1>3, <1>4, <1>5

\* With one operator at a time a closed request keeps its status, although the
\* status saved is computed from a copy and the portal submits meanwhile.
THEOREM ClosedStaysClosed == ASSUME Exclusive PROVE Spec => ClosedForGood
<1>1. OrderlyInv /\ [Next]_vars =>
        [\A r \in 1..Len(requests) :
           requests[r].status \notin Open => requests'[r].status = requests[r].status]_vars
  BY StatusStep
<1> QED BY <1>1, OrderlyAlways, PTL DEF Spec, ClosedForGood

LEMMA ExpiryStep ==
  ASSUME OrderlyInv, [Next]_vars, NEW r \in 1..Len(requests), extensions'[r] # extensions[r]
  PROVE  expires' > expires
<1>1. BaseInv' /\ extensions \in Seq(Nat) /\ Len(extensions) = Len(requests)
  BY NextBase DEF OrderlyInv, BaseInv, TypeOK
<1>2. ASSUME NEW w \in Worker, ExtendClient(w) PROVE expires' > expires
  BY <1>1, <1>2, ExtendClientOrderly
<1>3. ASSUME NEW w \in Worker, Insert(w) PROVE FALSE
  BY <1>1, <1>3, AppendProperties DEF Insert
<1>4. \E w \in Worker : ExtendClient(w) \/ Insert(w)
  BY DEF Next, Step, OperatorPost, LoadRequest, Refuse, SaveRequest, Attach, PortalPost, Conflict,
         Fail, UpdateLimits, Tick, vars
<1> QED BY <1>2, <1>3, <1>4

\* With one operator at a time an extension is longer than the expiry it replaces.
THEOREM ExtensionAlwaysAdds == ASSUME Exclusive PROVE Spec => ExtensionAddsDays
<1>1. OrderlyInv /\ [Next]_vars =>
        [\A r \in 1..Len(requests) : extensions'[r] # extensions[r] => expires' > expires]_vars
  BY ExpiryStep
<1> QED BY <1>1, OrderlyAlways, PTL DEF Spec, ExtensionAddsDays

\* With one operator at a time a request extends the client once, unless a handler
\* failed between its two saves.
THEOREM ExtendedAtMostOnce == ASSUME Exclusive PROVE Spec => []ExtendedOnce
<1>1. OrderlyInv => ExtendedOnce
  BY DEF OrderlyInv, ExtendedThenClosed, ExtendedOnce
<1> QED BY <1>1, OrderlyAlways, PTL
-----------------------------------------------------------------------------
(***************************************************************************)
(* RenewalRequests implements RenewalDesk, for operators one at a time.    *)
(* What a step does to Granting depends on whether the worker that takes   *)
(* it has an extension to close, before or after.                          *)
(***************************************************************************)
ToClose(t) == t.pc = "save" /\ t.target = "extend_and_close"

LEMMA GrantingStays ==
  ASSUME BaseInv, NEW w \in Worker, NEW t, task' = [task EXCEPT ![w] = t],
         ~ ToClose(task[w]), ~ ToClose(t)
  PROVE  Granting' = Granting
<1>1. \A v \in Worker : task'[v] = IF v = w THEN t ELSE task[v]
  BY DEF BaseInv, TypeOK
<1>2. Extending' = Extending
  BY <1>1 DEF Extending, ToClose
<1>3. \A v \in Extending : v # w
  BY DEF Extending, ToClose
<1> QED BY <1>1, <1>2, <1>3 DEF Granting, Extending

\* The worker that has one is the only one.
LEMMA GrantingIs ==
  ASSUME OneOperator, NEW w \in Worker, ToClose(task[w])
  PROVE  Granting = {task[w].request}
<1>1. Extending = {w}
  BY DEF Extending, ToClose, OneOperator, OperatorPC
<1> QED BY <1>1 DEF Granting

LEMMA GrantingNone ==
  ASSUME OneOperator, NEW w \in Worker, task[w].pc \in OperatorPC, ~ ToClose(task[w])
  PROVE  Granting = {}
<1>1. Extending = {}
  BY DEF Extending, ToClose, OneOperator, OperatorPC
<1> QED BY <1>1 DEF Granting

LEMMA GrantingDone ==
  ASSUME OrderlyInv, NEW w \in Worker, ToClose(task[w]), task' = [task EXCEPT ![w] = Idle]
  PROVE  Granting' = {}
<1>1. \A v \in Worker : task'[v] = IF v = w THEN Idle ELSE task[v]
  BY DEF OrderlyInv, BaseInv, TypeOK
<1>2. \A v \in Worker : v # w => task[v].pc # "save"
  BY DEF OrderlyInv, OneOperator, OperatorPC, ToClose
<1>3. Extending' = {}
  BY <1>1, <1>2, IdleTyped DEF Extending
<1> QED BY <1>3 DEF Granting

-----------------------------------------------------------------------------
LEMMA InitDesk == Init => Desk!DeskInit
<1> SUFFICES ASSUME Init PROVE Desk!DeskInit
  OBVIOUS
<1>1. Granting = {}
  BY IdleTyped DEF Init, Extending, Granting
<1> QED BY <1>1 DEF Init, Desk!DeskInit

\* What changes no request, expiry or failure, and leaves no extension to close, changes
\* nothing for the client.
LEMMA DeskStutters ==
  ASSUME OrderlyInv, NEW w \in Worker, NEW t, task' = [task EXCEPT ![w] = t],
         ~ ToClose(task[w]), ~ ToClose(t), UNCHANGED <<requests, expires, halfDone>>
  PROVE  UNCHANGED Desk!deskVars
  BY GrantingStays DEF OrderlyInv, Desk!deskVars

LEMMA OperatorPostDesk ==
  ASSUME OrderlyInv, NEW w \in Worker, NEW r \in 1..Len(requests), NEW target \in Target,
         NEW days \in Days \cup {0}, OperatorPost(w, r, target, days)
  PROVE  UNCHANGED Desk!deskVars
<1> DEFINE t == [Idle EXCEPT !.pc = "request", !.request = r,
                   !.target = target, !.days = days, !.until = expires]
<1>1. ~ ToClose(t)
  BY DEF Idle, ToClose
<1>2. /\ task' = [task EXCEPT ![w] = t] /\ ~ ToClose(task[w])
      /\ UNCHANGED <<requests, expires, halfDone>>
  BY DEF OperatorPost, ToClose
<1> HIDE DEF t
<1> QED BY <1>1, <1>2, DeskStutters

LEMMA LoadRequestDesk ==
  ASSUME OrderlyInv, NEW w \in Worker, LoadRequest(w)
  PROVE  UNCHANGED Desk!deskVars
<1> DEFINE old == task[w]
           extend == old.target = "extend_and_close"
           t == [old EXCEPT !.pc = IF extend THEN "extend" ELSE "save",
                            !.seen = requests[old.request],
                            !.until = IF extend THEN Extended(old.until, old.days) ELSE 0]
<1>1. old \in Task
  BY DEF OrderlyInv, BaseInv, TypeOK
<1>2. ~ ToClose(t)
  BY <1>1 DEF Task, ToClose
<1>3. /\ task' = [task EXCEPT ![w] = t] /\ ~ ToClose(task[w])
      /\ UNCHANGED <<requests, expires, halfDone>>
  BY DEF LoadRequest, ToClose
<1> HIDE DEF t
<1> QED BY <1>2, <1>3, DeskStutters

\* The client is extended while its request is open, from the expiry it has.
LEMMA ExtendClientDesk ==
  ASSUME OrderlyInv, NEW w \in Worker, ExtendClient(w)
  PROVE  \E r \in 1..Len(requests) : Desk!Grant(r)
<1> DEFINE old == task[w]
           r == old.request
<1>1. old \in Task /\ old.pc = "extend" /\ Knows(old) /\ Current(old)
  BY DEF ExtendClient, OrderlyInv, BaseInv, TypeOK
<1>2. r \in 1..Len(requests) /\ old.target = "extend_and_close" /\ expires' > expires
  BY <1>1 DEF Knows, Current, ExtendClient
<1>3. requests[r].status \in Open
  BY <1>1, <1>2 DEF Current, Accepted
<1>4. Granting = {}
  BY <1>1, GrantingNone DEF OrderlyInv, OperatorPC, ToClose
<1>5. ToClose(task'[w]) /\ task'[w].request = r
  BY <1>1, <1>2 DEF ExtendClient, ToClose, OrderlyInv, BaseInv, TypeOK, Task
<1>6. Granting' = {r}
  <2>1. \A v \in Worker : v # w => task'[v] = task[v] /\ task[v].pc # "save"
    BY <1>1 DEF ExtendClient, OrderlyInv, BaseInv, TypeOK, OneOperator, OperatorPC
  <2>2. Extending' = {w}
    BY <1>5, <2>1 DEF Extending, ToClose
  <2> QED BY <1>5, <2>2 DEF Granting
<1>7. UNCHANGED <<requests, halfDone>>
  BY DEF ExtendClient
<1> QED BY <1>2, <1>3, <1>4, <1>6, <1>7 DEF Desk!Grant, Desk!IsOpen, Open

\* Saving a request closes it after the extension, moves it forward, or is a note.
LEMMA SaveRequestDesk ==
  ASSUME OrderlyInv, NEW w \in Worker, SaveRequest(w)
  PROVE  \/ UNCHANGED Desk!deskVars
         \/ \E r \in 1..Len(requests) :
              \/ Desk!TakeUp(r) \/ \E status \in {"done", "dismissed"} : Desk!Settle(r, status)
              \/ Desk!Close(r)
<1> DEFINE t == task[w]
           r == t.request
<1>1. t \in Task /\ t.pc = "save" /\ Knows(t) /\ Current(t)
  BY DEF SaveRequest, OrderlyInv, BaseInv, TypeOK
<1>2. /\ r \in 1..Len(requests) /\ requests[r] \in Request /\ requests \in Seq(Request)
      /\ requests[r].status = t.seen.status /\ t.seen.status \in Status
      /\ requests[r].processed = (requests[r].status \notin Open)
      /\ t.seen.processed = (t.seen.status \notin Open)
  <2>1. r \in 1..Len(requests) /\ t.seen.processed = (t.seen.status \notin Open)
    BY <1>1 DEF Knows
  <2>2. requests \in Seq(Request) /\ requests[r].processed = (requests[r].status \notin Open)
    BY <2>1 DEF OrderlyInv, BaseInv, TypeOK, ClosedIffProcessed
  <2>3. requests[r].status = t.seen.status
    BY <1>1 DEF Current
  <2>4. requests[r] \in Request /\ t.seen \in Request
    BY <1>1, <2>1, <2>2 DEF Task
  <2>5. t.seen.status \in Status
    BY <2>4 DEF Request
  <2> QED BY <2>1, <2>2, <2>3, <2>4, <2>5
<1>3. /\ requests' = [requests EXCEPT ![r].status = SavedStatus(t), ![r].processed = SavedProcessed(t)]
      /\ task' = [task EXCEPT ![w] = Idle] /\ UNCHANGED <<expires, halfDone>>
  BY DEF SaveRequest, Finish
<1>4. CASE t.target = "extend_and_close"
  <2>1. SavedStatus(t) = "done" /\ SavedProcessed(t) = TRUE
    BY <1>2, <1>4 DEF SavedStatus, SavedProcessed, Open, Status
  <2>2. requests[r].status \in Open
    BY <1>1, <1>2, <1>4 DEF Current, Accepted
  <2>3. Granting = {r} /\ Granting' = {}
    BY <1>1, <1>3, <1>4, GrantingIs, GrantingDone DEF ToClose, OrderlyInv
  <2>4. Desk!Close(r)
    BY <1>3, <2>1, <2>2, <2>3 DEF Desk!Close, Desk!Moved, Desk!IsOpen, Open
  <2> QED BY <1>2, <2>4
<1>5. CASE t.target # "extend_and_close"
  <2>1. SavedStatus(t) = t.target /\ (t.target = t.seen.status \/ t.target \in Allowed(t.seen.status))
    BY <1>1, <1>5 DEF SavedStatus, Current, Accepted
  <2>2. ~ ToClose(t) /\ ~ ToClose(Idle)
    BY <1>5, IdleTyped DEF ToClose
  <2>3. Granting = {} /\ Granting' = {}
    BY <1>1, <1>3, <2>2, GrantingNone, GrantingStays DEF OrderlyInv, OperatorPC
  <2>4. CASE t.target = t.seen.status
    <3>1. SavedStatus(t) = requests[r].status /\ SavedProcessed(t) = requests[r].processed
      BY <1>2, <2>1, <2>4 DEF SavedProcessed
    <3>2. requests' = requests
      BY <1>2, <1>3, <3>1 DEF Request
    <3> QED BY <1>3, <2>3, <3>2 DEF Desk!deskVars
  <2>5. CASE t.target # t.seen.status
    <3>1. SavedProcessed(t) = (SavedStatus(t) \notin Open) /\ t.target \in Allowed(requests[r].status)
      BY <1>2, <2>1, <2>5 DEF SavedProcessed
    <3>2. CASE t.target = "in_progress"
      <4>1. requests[r].status = "new" /\ SavedProcessed(t) = FALSE
        BY <2>1, <3>1, <3>2 DEF Allowed, Open
      <4>2. Desk!TakeUp(r)
        BY <1>3, <2>1, <2>3, <3>2, <4>1 DEF Desk!TakeUp, Desk!Moved
      <4> QED BY <1>2, <4>2
    <3>3. CASE t.target # "in_progress"
      <4>1. /\ requests[r].status \in Open /\ t.target \in {"done", "dismissed"}
            /\ SavedProcessed(t) = TRUE
        BY <2>1, <3>1, <3>3 DEF Allowed, Open
      <4>2. Desk!Settle(r, t.target)
        BY <1>3, <2>1, <2>3, <4>1 DEF Desk!Settle, Desk!Moved, Desk!IsOpen, Open
      <4> QED BY <1>2, <4>1, <4>2
    <3> QED BY <3>2, <3>3
  <2> QED BY <2>4, <2>5
<1> QED BY <1>4, <1>5

LEMMA PortalPostDesk ==
  ASSUME OrderlyInv, NEW w \in Worker, NEW file \in File \cup {NoFile}, PortalPost(w, file)
  PROVE  UNCHANGED Desk!deskVars
<1>1. ~ ToClose(task[w]) /\ UNCHANGED <<requests, expires, halfDone>>
  BY DEF PortalPost, ToClose
<1>2. CASE task' = [task EXCEPT ![w] = [Idle EXCEPT !.pc = "insert", !.file = file]]
  <2> DEFINE t == [Idle EXCEPT !.pc = "insert", !.file = file]
  <2>1. ~ ToClose(t)
    BY DEF Idle, ToClose
  <2> HIDE DEF t
  <2> QED BY <1>1, <1>2, <2>1, DeskStutters DEF t
<1>3. ASSUME NEW r \in OpenRequests,
             task' = [task EXCEPT ![w] = [Idle EXCEPT !.pc = "attach", !.request = r,
                                            !.seen = requests[r], !.file = file]]
      PROVE  UNCHANGED Desk!deskVars
  <2> DEFINE t == [Idle EXCEPT !.pc = "attach", !.request = r,
                     !.seen = requests[r], !.file = file]
  <2>1. ~ ToClose(t) /\ task' = [task EXCEPT ![w] = t]
    BY <1>3 DEF Idle, ToClose
  <2> HIDE DEF t
  <2> QED BY <1>1, <2>1, DeskStutters
<1> QED BY <1>2, <1>3 DEF PortalPost

\* The lock keeps the request open, and the file that was read, until the file is added.
LEMMA AttachDesk ==
  ASSUME OrderlyInv, NEW w \in Worker, Attach(w)
  PROVE  \/ UNCHANGED Desk!deskVars
         \/ \E r \in 1..Len(requests), file \in File : Desk!AddFile(r, file)
<1> DEFINE t == task[w]
           r == t.request
<1>1. t \in Task /\ t.pc = "attach" /\ Knows(t)
  BY DEF Attach, OrderlyInv, BaseInv, TypeOK
<1>2. /\ r \in 1..Len(requests) /\ t.seen = requests[r] /\ requests[r].status \in Open
      /\ t.file \in File \cup {NoFile}
  BY <1>1 DEF Knows, Task
<1>3. Granting' = Granting /\ UNCHANGED <<expires, halfDone>>
  BY <1>1, IdleTyped, GrantingStays DEF Attach, Finish, ToClose, OrderlyInv
<1>4. CASE t.file # NoFile /\ t.seen.file = NoFile
  <2>1. requests' = [requests EXCEPT ![r].file = t.file]
    BY <1>4 DEF Attach
  <2>2. Desk!AddFile(r, t.file)
    BY <1>2, <1>3, <1>4, <2>1 DEF Desk!AddFile, Desk!IsOpen, Open
  <2> QED BY <1>2, <1>4, <2>2
<1>5. CASE ~ (t.file # NoFile /\ t.seen.file = NoFile)
  BY <1>3, <1>5 DEF Attach, Desk!deskVars
<1> QED BY <1>4, <1>5

LEMMA InsertDesk ==
  ASSUME OrderlyInv, NEW w \in Worker, Insert(w)
  PROVE  \E file \in File \cup {NoFile} : Desk!Submit(file)
<1> DEFINE file == task[w].file
<1>1. task[w] \in Task /\ task[w].pc = "insert" /\ Len(requests) \in Nat
  BY DEF Insert, OrderlyInv, BaseInv, TypeOK
<1>2. file \in File \cup {NoFile}
  BY <1>1 DEF Task
<1>3. Granting' = Granting /\ UNCHANGED <<expires, halfDone>>
  BY <1>1, IdleTyped, GrantingStays DEF Insert, Finish, ToClose, OrderlyInv
<1>4. \A r \in 1..Len(requests) : requests[r].status \notin Open
  BY <1>1 DEF Insert, UniqueOpen, OpenRequests, Open
<1>5. Desk!Submit(file)
  BY <1>3, <1>4 DEF Insert, NewRequest, Desk!Submit, Desk!IsOpen, Open
<1> QED BY <1>2, <1>5

\* The constraint refuses reopening, never the closing after an extension.
LEMMA ConflictDesk ==
  ASSUME OrderlyInv, NEW w \in Worker, Conflict(w)
  PROVE  UNCHANGED Desk!deskVars
<1>1. ~ ToClose(task[w])
  BY DEF Conflict, UniqueOpen, SavedStatus, Open, ToClose
<1>2. /\ task' = [task EXCEPT ![w] = Idle] /\ UNCHANGED <<expires, requests, halfDone>>
      /\ ~ ToClose(Idle)
  BY IdleTyped DEF Conflict, Finish, ToClose
<1> QED BY <1>1, <1>2, DeskStutters

LEMMA RefuseDesk ==
  ASSUME OrderlyInv, NEW w \in Worker, Refuse(w)
  PROVE  UNCHANGED Desk!deskVars
<1>1. ~ ToClose(task[w]) /\ ~ ToClose(Idle)
  BY IdleTyped DEF Refuse, ToClose
<1> QED BY <1>1, DeskStutters DEF Refuse, Finish

LEMMA FailDesk ==
  ASSUME OrderlyInv, NEW w \in Worker, Fail(w)
  PROVE  \/ UNCHANGED Desk!deskVars
         \/ \E r \in 1..Len(requests) : Desk!Abandon(r)
<1> DEFINE r == task[w].request
<1>1. /\ task' = [task EXCEPT ![w] = Idle] /\ UNCHANGED <<expires, requests>>
      /\ ~ ToClose(Idle)
  BY IdleTyped DEF Fail, Finish, ToClose
<1>2. CASE ToClose(task[w])
  <2>1. r \in 1..Len(requests) /\ halfDone' = halfDone \cup {r}
    BY <1>2 DEF Fail, ToClose, OrderlyInv, BaseInv, Knows
  <2>2. Granting = {r} /\ Granting' = {}
    BY <1>1, <1>2, GrantingIs, GrantingDone DEF OrderlyInv
  <2>3. Desk!Abandon(r)
    BY <1>1, <2>1, <2>2 DEF Desk!Abandon
  <2> QED BY <2>1, <2>3
<1>3. CASE ~ ToClose(task[w])
  <2>1. halfDone' = halfDone
    BY <1>3 DEF Fail, ToClose
  <2> QED BY <1>1, <1>3, <2>1, DeskStutters
<1> QED BY <1>2, <1>3

LEMMA UpdateLimitsDesk ==
  ASSUME Exclusive, OrderlyInv, NEW e \in 0..MaxTime, UpdateLimits(e)
  PROVE  Desk!SetLimit
<1>1. Granting = {} /\ Granting' = {}
  BY DEF UpdateLimits, Operating, Granting, Extending
<1>2. e \in Nat
  BY RenewalAssumption
<1> QED BY <1>1, <1>2 DEF UpdateLimits, Desk!SetLimit

LEMMA NextDesk ==
  ASSUME Exclusive, OrderlyInv, [Next]_vars
  PROVE  [Desk!DeskNext]_(Desk!deskVars)
<1>1. ASSUME NEW w \in Worker, Step(w) PROVE [Desk!DeskNext]_(Desk!deskVars)
  <2>1. ASSUME NEW r \in 1..Len(requests), NEW target \in Target, NEW days \in Days \cup {0},
               OperatorPost(w, r, target, days)
        PROVE  UNCHANGED Desk!deskVars
    BY <2>1, OperatorPostDesk
  <2>2. CASE LoadRequest(w) \/ Refuse(w) \/ Conflict(w)
    BY <2>2, LoadRequestDesk, RefuseDesk, ConflictDesk
  <2>3. CASE ExtendClient(w)
    BY <2>3, ExtendClientDesk DEF Desk!DeskNext
  <2>4. CASE SaveRequest(w)
    BY <2>4, SaveRequestDesk DEF Desk!DeskNext
  <2>5. ASSUME NEW file \in File \cup {NoFile}, PortalPost(w, file) PROVE UNCHANGED Desk!deskVars
    BY <2>5, PortalPostDesk
  <2>6. CASE Attach(w)
    BY <2>6, AttachDesk DEF Desk!DeskNext
  <2>7. CASE Insert(w)
    BY <2>7, InsertDesk DEF Desk!DeskNext
  <2>8. CASE Fail(w)
    BY <2>8, FailDesk DEF Desk!DeskNext
  <2> QED BY <1>1, <2>1, <2>2, <2>3, <2>4, <2>5, <2>6, <2>7, <2>8 DEF Step
<1>2. ASSUME NEW e \in 0..MaxTime, UpdateLimits(e) PROVE Desk!DeskNext
  BY <1>2, UpdateLimitsDesk DEF Desk!DeskNext
<1>3. CASE Tick \/ UNCHANGED vars
  BY <1>3 DEF Tick, vars, Granting, Extending, Desk!deskVars
<1> QED BY <1>1, <1>2, <1>3 DEF Next

\* With one operator at a time, the views' loads and saves, the portal's transactions
\* and every failure between them amount to the promised life of a request.
THEOREM RequestsImplementDesk == ASSUME Exclusive PROVE Spec => ImplementsDesk
<1>1. Init => Desk!DeskInit
  BY InitDesk
<1>2. OrderlyInv /\ [Next]_vars => [Desk!DeskNext]_(Desk!deskVars)
  BY NextDesk
<1> QED BY <1>1, <1>2, OrderlyAlways, PTL DEF Spec, ImplementsDesk, Desk!DeskSpec
=============================================================================
