------------------------- MODULE ClientAccessProofs -------------------------
(* What ClientAccess promises, proved for any set of clients and keys.     *)
EXTENDS ClientAccess, TLAPS

\* No configuration is issued twice, and only issued ones are accepted.
IssuedOnce ==
  \A c, d \in Client : \A i \in DOMAIN issued[c], j \in DOMAIN issued[d] :
    issued[c][i] = issued[d][j] => c = d /\ i = j

AcceptedWereIssued == \A k \in accepted : k \notin Unissued

AbsentHasNone == \A c \in Client : shown[c] = "absent" => issued[c] = <<>>

AccessInv == AccessTypeOK /\ IssuedOnce /\ AcceptedWereIssued /\ AbsentHasNone /\ Promise

\* The current configuration is one that was issued, and no old one of any client.
LEMMA CurrentIsNotOld ==
  ASSUME AccessTypeOK, IssuedOnce, NEW c \in Client, issued[c] # <<>>
  PROVE  /\ Len(issued[c]) \in DOMAIN issued[c] /\ Current(c) \in Key
         /\ \A d \in Client : Current(c) \notin Old(d)
         /\ \A d \in Client : issued[d] # <<>> /\ Current(d) = Current(c) => d = c
PROOF
<1>1. \A d \in Client : issued[d] \in Seq(Key)
  BY DEF AccessTypeOK
<1>2. \A d \in Client : issued[d] # <<>> => Len(issued[d]) \in DOMAIN issued[d]
  BY <1>1
<1>3. \A d \in Client : \A i \in 1..(Len(issued[d]) - 1) : i \in DOMAIN issued[d] /\ i # Len(issued[d])
  BY <1>1
<1>4. Current(c) \in Key
  BY <1>1, <1>2 DEF Current
<1>5. ASSUME NEW d \in Client PROVE Current(c) \notin Old(d)
  <2>1. SUFFICES ASSUME NEW i \in 1..(Len(issued[d]) - 1), issued[d][i] = issued[c][Len(issued[c])]
                 PROVE FALSE
    BY DEF Current, Old
  <2>2. c = d /\ i = Len(issued[c])
    BY <1>2, <1>3, <2>1 DEF IssuedOnce
  <2> QED
    BY <1>3, <2>2
<1>6. ASSUME NEW d \in Client, issued[d] # <<>>, Current(d) = Current(c) PROVE d = c
  BY <1>2, <1>6 DEF IssuedOnce, Current
<1> QED
  BY <1>2, <1>4, <1>5, <1>6

\* A step that issues nothing keeps what depends on the issued configurations alone.
LEMMA NothingIssued ==
  ASSUME AccessInv, UNCHANGED issued, accepted' \subseteq accepted \cup {Current(c) : c \in {d \in Client : issued[d] # <<>>}}
  PROVE  IssuedOnce' /\ AcceptedWereIssued' /\ accepted' \subseteq Key
         /\ \A c \in Client : Old(c)' \cap accepted' = {}
PROOF
<1>1. IssuedOnce'
  BY DEF IssuedOnce, AccessInv
<1>2. \A c \in Client : Old(c)' = Old(c)
  BY DEF Old
<1>3. Unissued' = Unissued
  BY DEF Unissued
<1>4. ASSUME NEW c \in Client, issued[c] # <<>>
      PROVE Current(c) \in Key /\ Current(c) \notin Unissued /\ \A d \in Client : Current(c) \notin Old(d)
  BY <1>4, CurrentIsNotOld DEF AccessInv, Unissued, Current
<1>5. accepted' \subseteq Key
  BY <1>4 DEF AccessInv, AccessTypeOK
<1>6. AcceptedWereIssued'
  BY <1>3, <1>4 DEF AccessInv, AcceptedWereIssued
<1>7. \A c \in Client : Old(c)' \cap accepted' = {}
  BY <1>2, <1>4 DEF AccessInv, Promise
<1> QED
  BY <1>1, <1>5, <1>6, <1>7

\* The part of the promise about the current configurations.
Served(c) ==
  /\ shown[c] = "active" /\ issued[c] # <<>> /\ c \notin changing \cup failed => Accepted(c)
  /\ shown[c] = "deleted" => CutOff(c)

LEMMA ServedByFrame ==
  ASSUME AccessInv, UNCHANGED <<issued, accepted>>, NEW c \in Client,
         shown[c]' = shown[c], c \in changing \cup failed => c \in (changing \cup failed)'
  PROVE  Served(c)'
BY DEF AccessInv, Promise, Served, Accepted, CutOff, Current

\* An operation that ends changes the shown status of its own client only.
LEMMA EndingKeepsPromise ==
  ASSUME AccessInv, NEW c \in Client, NEW s \in {"active", "disabled", "deleted"},
         Ends(c), UNCHANGED <<issued, accepted>>, shown' = [shown EXCEPT ![c] = s],
         s = "active" /\ issued[c] # <<>> => Accepted(c),
         s = "deleted" => CutOff(c)
  PROVE  AccessInv'
PROOF
<1>1. AccessTypeOK'
  BY DEF AccessInv, AccessTypeOK, Ends
<1>2. IssuedOnce' /\ AcceptedWereIssued' /\ \A d \in Client : Old(d)' \cap accepted' = {}
  BY NothingIssued
<1>3. Served(c)'
  <2>1. shown'[c] = s
    BY DEF AccessInv, AccessTypeOK
  <2> QED
    BY <2>1 DEF Served, Accepted, CutOff, Current
<1>4. ASSUME NEW d \in Client, d # c PROVE Served(d)'
  <2>1. shown'[d] = shown[d] /\ (d \in changing \cup failed => d \in (changing \cup failed)')
    BY <1>4 DEF AccessInv, AccessTypeOK, Ends
  <2> QED
    BY <2>1, ServedByFrame
<1>5. AbsentHasNone'
  BY DEF AccessInv, AccessTypeOK, AbsentHasNone
<1> QED
  BY <1>1, <1>2, <1>3, <1>4, <1>5 DEF AccessInv, Promise, Served

\* A step of an operation that is under way changes the access of its client only.
LEMMA ChangingKeepsPromise ==
  ASSUME AccessInv, NEW c \in changing, issued[c] # <<>>, NEW cut \in BOOLEAN,
         cut \/ shown[c] = "disabled",
         accepted' = IF cut THEN accepted \ {Current(c)} ELSE accepted \cup {Current(c)},
         UNCHANGED <<shown, issued, changing, failed>>
  PROVE  AccessInv'
PROOF
<1>1. c \in Client
  BY DEF AccessInv, AccessTypeOK
<1>2. IssuedOnce' /\ AcceptedWereIssued' /\ accepted' \subseteq Key
      /\ \A d \in Client : Old(d)' \cap accepted' = {}
  BY <1>1, NothingIssued
<1>3. AccessTypeOK'
  BY <1>2 DEF AccessInv, AccessTypeOK
<1>4. ASSUME NEW d \in Client, d # c PROVE Served(d)'
  <2>1. issued[d] # <<>> => Current(d) # Current(c)
    BY <1>1, <1>4, CurrentIsNotOld DEF AccessInv
  <2>2. Served(d)
    BY DEF AccessInv, Promise, Served
  <2>3. Current(d)' = Current(d)
    BY DEF Current
  <2> QED
    BY <2>1, <2>2, <2>3 DEF Served, Accepted, CutOff
<1>5. Served(c)'
  <2>1. Served(c)
    BY <1>1 DEF AccessInv, Promise, Served
  <2>2. Current(c)' = Current(c)
    BY DEF Current
  <2> QED
    BY <2>1, <2>2 DEF Served, Accepted, CutOff
<1>6. AbsentHasNone'
  BY DEF AccessInv, AbsentHasNone
<1> QED
  BY <1>2, <1>3, <1>4, <1>5, <1>6 DEF AccessInv, Promise, Served

LEMMA RestartKeepsPromise ==
  ASSUME AccessInv, NEW lost \in SUBSET Client, NEW regained \in SUBSET Client, Restart(lost, regained)
  PROVE  AccessInv'
PROOF
<1>1. \A d \in lost \cup regained : d \in failed /\ shown[d] # "deleted" /\ issued[d] # <<>>
  BY DEF Restart
<1>2. UNCHANGED <<shown, issued, changing, failed>>
  BY DEF Restart
<1>3. accepted' \subseteq accepted \cup {Current(c) : c \in {d \in Client : issued[d] # <<>>}}
  BY <1>1 DEF Restart
<1>4. IssuedOnce' /\ AcceptedWereIssued' /\ accepted' \subseteq Key
      /\ \A d \in Client : Old(d)' \cap accepted' = {}
  BY <1>2, <1>3, NothingIssued
<1>5. AccessTypeOK'
  BY <1>2, <1>4 DEF AccessInv, AccessTypeOK
<1>6. ASSUME NEW d \in Client PROVE Served(d)'
  <2>1. ASSUME issued[d] # <<>>
        PROVE \A c \in lost \cup regained : Current(c) = Current(d) => c = d
    BY <1>1, <2>1, CurrentIsNotOld DEF AccessInv
  <2>2. Served(d) /\ Current(d)' = Current(d)
    BY <1>2 DEF AccessInv, Promise, Served, Current
  <2>3. issued[d] # <<>> /\ d \notin failed /\ Current(d) \in accepted => Current(d) \in accepted'
    BY <1>1, <2>1 DEF Restart
  <2>4. issued[d] # <<>> /\ shown[d] = "deleted" /\ Current(d) \notin accepted => Current(d) \notin accepted'
    BY <1>1, <2>1 DEF Restart
  <2> QED
    BY <1>2, <2>2, <2>3, <2>4 DEF Served, Accepted, CutOff
<1>7. AbsentHasNone'
  BY <1>2 DEF AccessInv, AbsentHasNone
<1> QED
  BY <1>4, <1>5, <1>6, <1>7 DEF AccessInv, Promise, Served

\* The only step that issues a configuration makes the last one an old one.
LEMMA IssueKeepsPromise ==
  ASSUME AccessInv, NEW c \in Client, NEW k \in Key, Issue(c, k)
  PROVE  AccessInv'
PROOF
<1>1. AccessTypeOK'
  BY DEF AccessInv, AccessTypeOK, Issue, Ends
<1>2. \A d \in Client : issued[d] \in Seq(Key) /\ issued'[d] = IF d = c THEN Append(issued[c], k) ELSE issued[d]
  BY DEF AccessInv, AccessTypeOK, Issue
<1>3. \A d \in Client : \A i \in DOMAIN issued[d] : issued[d][i] # k
  BY DEF Issue, Unissued
<1>4. Len(issued'[c]) = Len(issued[c]) + 1 /\ DOMAIN issued'[c] = DOMAIN issued[c] \cup {Len(issued[c]) + 1}
      /\ Len(issued[c]) + 1 \notin DOMAIN issued[c]
      /\ issued'[c][Len(issued[c]) + 1] = k /\ \A i \in DOMAIN issued[c] : issued'[c][i] = issued[c][i]
  <2>1. issued[c] \in Seq(Key) /\ issued'[c] = Append(issued[c], k)
    BY <1>2
  <2>2. Len(issued[c]) \in Nat /\ DOMAIN issued[c] = 1..Len(issued[c])
        /\ DOMAIN issued'[c] = 1..(Len(issued[c]) + 1) /\ Len(issued'[c]) = Len(issued[c]) + 1
    BY <2>1
  <2>3. issued'[c][Len(issued[c]) + 1] = k
    BY <2>1
  <2>4. \A i \in 1..Len(issued[c]) : issued'[c][i] = issued[c][i]
    BY <2>1
  <2> QED
    BY <2>2, <2>3, <2>4
<1>5. IssuedOnce'
  <2>1. \A d, e \in Client : \A i \in DOMAIN issued[d], j \in DOMAIN issued[e] :
          issued[d][i] = issued[e][j] => d = e /\ i = j
    BY DEF AccessInv, IssuedOnce
  <2>2. SUFFICES ASSUME NEW d \in Client, NEW e \in Client, NEW i \in DOMAIN issued'[d],
                        NEW j \in DOMAIN issued'[e], issued'[d][i] = issued'[e][j]
                 PROVE  d = e /\ i = j
    BY DEF IssuedOnce
  <2>3. (i \in DOMAIN issued[d] /\ issued'[d][i] = issued[d][i]) \/ (d = c /\ i = Len(issued[c]) + 1)
    <3>1. CASE d = c
      BY <1>4, <3>1
    <3>2. CASE d # c
      BY <1>2, <3>2
    <3> QED
      BY <3>1, <3>2
  <2>4. (j \in DOMAIN issued[e] /\ issued'[e][j] = issued[e][j]) \/ (e = c /\ j = Len(issued[c]) + 1)
    <3>1. CASE e = c
      BY <1>4, <3>1
    <3>2. CASE e # c
      BY <1>2, <3>2
    <3> QED
      BY <3>1, <3>2
  <2> QED
    BY <1>3, <1>4, <2>1, <2>2, <2>3, <2>4
<1>6. AcceptedWereIssued'
  <2>1. accepted' = accepted \cup {k}
    BY DEF Issue
  <2>2. k \notin Unissued'
    BY <1>4 DEF Unissued
  <2>3. ASSUME NEW j \in accepted PROVE j \notin Unissued'
    <3>1. PICK d \in Client : \E i \in DOMAIN issued[d] : issued[d][i] = j
      BY <2>3 DEF AccessInv, AcceptedWereIssued, AccessTypeOK, Unissued
    <3> QED
      BY <1>2, <1>4, <3>1 DEF Unissued
  <2> QED
    BY <2>1, <2>2, <2>3 DEF AcceptedWereIssued
<1>7. ASSUME NEW d \in Client PROVE Old(d)' \cap accepted' = {}
  <2>1. Old(d) \cap accepted = {} /\ k \notin Old(d)
    BY <1>2, <1>3 DEF AccessInv, Promise, Old
  <2>2. d # c => Old(d)' = Old(d)
    BY <1>2 DEF Old
  <2>3. Old(c)' = Old(c) \cup (IF issued[c] = <<>> THEN {} ELSE {Current(c)})
    <3>1. Old(c)' = {issued'[c][i] : i \in DOMAIN issued[c]}
      BY <1>2, <1>4 DEF Old
    <3>2. Old(c)' = {issued[c][i] : i \in DOMAIN issued[c]}
      BY <1>4, <3>1
    <3>3. DOMAIN issued[c] = 1..Len(issued[c])
      BY <1>2
    <3>4. CASE issued[c] = <<>>
      <4>1. 1..Len(issued[c]) = {} /\ 1..(Len(issued[c]) - 1) = {}
        BY <1>2, <3>4
      <4> QED
        BY <3>2, <3>3, <3>4, <4>1 DEF Old
    <3>5. CASE issued[c] # <<>>
      <4>1. DOMAIN issued[c] = 1..(Len(issued[c]) - 1) \cup {Len(issued[c])}
        BY <1>2, <3>3, <3>5
      <4> QED
        BY <3>2, <3>5, <4>1 DEF Old, Current
    <3> QED
      BY <3>4, <3>5
  <2>4. issued[c] # <<>> => Current(c) \notin accepted /\ Current(c) # k
    BY <1>2, <1>3 DEF Issue, CutOff, Current
  <2>5. accepted' = accepted \cup {k}
    BY DEF Issue
  <2> QED
    BY <2>1, <2>2, <2>3, <2>4, <2>5
<1>8. Served(c)'
  <2>1. Current(c)' = k
    BY <1>4 DEF Current
  <2>2. shown'[c] # "deleted"
    BY DEF Issue, AccessInv, AccessTypeOK
  <2> QED
    BY <2>1, <2>2 DEF Served, Accepted, Issue
<1>9. ASSUME NEW d \in Client, d # c PROVE Served(d)'
  <2>1. Served(d)
    BY DEF AccessInv, Promise, Served
  <2>2. issued'[d] = issued[d] /\ Current(d)' = Current(d) /\ shown'[d] = shown[d]
    BY <1>2, <1>9 DEF Current, Issue, AccessInv, AccessTypeOK
  <2>3. d \notin (changing \cup failed)' => d \notin changing \cup failed
    BY <1>9 DEF Issue, Ends
  <2>4. accepted' = accepted \cup {k} /\ (issued[d] # <<>> => Current(d) # k)
    BY <1>2, <1>3 DEF Issue, Current
  <2> QED
    BY <2>1, <2>2, <2>3, <2>4 DEF Served, Accepted, CutOff
<1>10. AbsentHasNone'
  BY DEF AccessInv, AccessTypeOK, AbsentHasNone, Issue
<1> QED
  BY <1>1, <1>5, <1>6, <1>7, <1>8, <1>9, <1>10 DEF AccessInv, Promise, Served

LEMMA StepKeepsPromise ==
  ASSUME AccessInv, [AccessNext]_accessVars
  PROVE  AccessInv'
PROOF
<1>1. CASE UNCHANGED accessVars
  <2>1. \A c \in Client : Old(c)' = Old(c) /\ Accepted(c)' = Accepted(c) /\ CutOff(c)' = CutOff(c)
    BY <1>1 DEF Old, Accepted, CutOff, Current, accessVars
  <2>2. Unissued' = Unissued
    BY <1>1 DEF Unissued, accessVars
  <2> QED
    BY <1>1, <2>1, <2>2 DEF AccessInv, AccessTypeOK, IssuedOnce, AcceptedWereIssued, AbsentHasNone, Promise, accessVars
<1>2. ASSUME NEW c \in Client, Begins(c) \/ GivesUp(c) PROVE AccessInv'
  <2>1. AccessTypeOK'
    BY <1>2 DEF AccessInv, AccessTypeOK, Begins, GivesUp
  <2>2. IssuedOnce' /\ AcceptedWereIssued' /\ \A d \in Client : Old(d)' \cap accepted' = {}
    BY <1>2, NothingIssued DEF Begins, GivesUp
  <2>3. ASSUME NEW d \in Client PROVE Served(d)'
    BY <1>2, ServedByFrame DEF Begins, GivesUp
  <2>4. AbsentHasNone'
    BY <1>2 DEF AccessInv, AbsentHasNone, Begins, GivesUp
  <2> QED
    BY <2>1, <2>2, <2>3, <2>4 DEF AccessInv, Promise, Served
<1>3. ASSUME NEW c \in Client, Cut(c) PROVE AccessInv'
  BY <1>3, ChangingKeepsPromise DEF Cut
<1>4. ASSUME NEW c \in Client, Admit(c) PROVE AccessInv'
  BY <1>4, ChangingKeepsPromise DEF Admit
<1>5. ASSUME NEW c \in Client, NEW k \in Key, Issue(c, k) PROVE AccessInv'
  BY <1>5, IssueKeepsPromise
<1>6. ASSUME NEW c \in Client, Enable(c) PROVE AccessInv'
  BY <1>6, EndingKeepsPromise DEF Enable
<1>7. ASSUME NEW c \in Client, Refuse(c) PROVE AccessInv'
  <2>1. AccessTypeOK' /\ AbsentHasNone'
    BY <1>7 DEF AccessInv, AccessTypeOK, AbsentHasNone, Refuse
  <2>2. IssuedOnce' /\ AcceptedWereIssued' /\ \A d \in Client : Old(d)' \cap accepted' = {}
    BY <1>7, NothingIssued DEF Refuse
  <2>3. Served(c)'
    BY <1>7 DEF Refuse, Served
  <2>4. ASSUME NEW d \in Client \ {c} PROVE Served(d)'
    BY <1>7, ServedByFrame DEF Refuse
  <2> QED
    BY <2>1, <2>2, <2>3, <2>4 DEF AccessInv, Promise, Served
<1>8. ASSUME NEW c \in Client, Disable(c) PROVE AccessInv'
  BY <1>8, EndingKeepsPromise DEF Disable
<1>9. ASSUME NEW c \in Client, Delete(c) PROVE AccessInv'
  BY <1>9, EndingKeepsPromise DEF Delete
<1>10. ASSUME NEW new \in SUBSET Client, Import(new) PROVE AccessInv'
  <2>1. AccessTypeOK'
    BY <1>10 DEF AccessInv, AccessTypeOK, Import
  <2>2. IssuedOnce' /\ AcceptedWereIssued' /\ \A d \in Client : Old(d)' \cap accepted' = {}
    BY <1>10, NothingIssued DEF Import
  <2>3. ASSUME NEW d \in Client PROVE Served(d)'
    <3>1. CASE d \in new
      BY <1>10, <3>1 DEF Import, Served, AccessInv, AbsentHasNone
    <3>2. CASE d \notin new
      BY <1>10, <3>2, ServedByFrame DEF Import
    <3> QED
      BY <3>1, <3>2
  <2>4. AbsentHasNone'
    BY <1>10 DEF AccessInv, AbsentHasNone, Import
  <2> QED
    BY <2>1, <2>2, <2>3, <2>4 DEF AccessInv, Promise, Served
<1>11. ASSUME NEW lost \in SUBSET Client, NEW regained \in SUBSET Client, Restart(lost, regained) PROVE AccessInv'
  BY <1>11, RestartKeepsPromise
<1> QED
  BY <1>1, <1>2, <1>3, <1>4, <1>5, <1>6, <1>7, <1>8, <1>9, <1>10, <1>11 DEF AccessNext

\* What the panel promises holds at all times: a reissued configuration stays dead, an
\* active client's works unless its last operation failed or one is under way, a deleted
\* client's does not.
THEOREM PromiseKept == AccessSpec => []Promise
PROOF
<1>1. AccessInit => AccessInv
  <2>1. AccessInit => AccessTypeOK
    BY DEF AccessInit, AccessTypeOK
  <2>2. AccessInit => \A c \in Client : issued[c] = <<>> /\ Len(issued[c]) = 0 /\ DOMAIN issued[c] = 1..0
    <3> SUFFICES ASSUME AccessInit, NEW c \in Client
                 PROVE issued[c] = <<>> /\ Len(issued[c]) = 0 /\ DOMAIN issued[c] = 1..0
      OBVIOUS
    <3>1. issued[c] = <<>>
      BY DEF AccessInit
    <3>2. Len(issued[c]) = 0 /\ DOMAIN issued[c] = 1..0
      BY <3>1
    <3> QED
      BY <3>1, <3>2
  <2> QED
    BY <2>1, <2>2 DEF AccessInit, AccessInv, IssuedOnce, AcceptedWereIssued, AbsentHasNone, Promise, CutOff, Old
<1>2. AccessInv /\ [AccessNext]_accessVars => AccessInv'
  BY StepKeepsPromise
<1>3. AccessInv => Promise
  BY DEF AccessInv
<1> QED
  BY <1>1, <1>2, <1>3, PTL DEF AccessSpec
=============================================================================
