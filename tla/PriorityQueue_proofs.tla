------------------------ MODULE PriorityQueue_proofs ------------------------
(* Theorems about PriorityQueue, for every set of requests, every priority,   *)
(* session and model they have, every capacity and every set of faults.       *)
EXTENDS PriorityQueue, FiniteSetTheorems, WellFoundedInduction, TLAPS

-----------------------------------------------------------------------------
(* A nonempty set of indices of a sequence has a last one: LastOf picks it.   *)
LEMMA LastOfIn ==
  ASSUME NEW n \in Nat, NEW S, S \subseteq 1..n, S # {}
  PROVE  LastOf(S) \in S
<1> DEFINE Bounds == {m \in Nat : \A i \in S : i <= m}
<1>1. n \in Bounds  OBVIOUS
<1>2. PICK m \in Bounds : \A k \in Bounds : ~ (<<k, m>> \in OpToRel(<, Nat))
  <2>1. Bounds \subseteq Nat /\ Bounds # {}  BY <1>1
  <2> HIDE DEF Bounds
  <2> QED BY <2>1, NatLessThanWellFounded, WFMin
<1>3. \A k \in Bounds : ~ (k < m)
  BY <1>2 DEF OpToRel
<1>4. m \in S
  <2>1. SUFFICES ASSUME m \notin S PROVE FALSE  OBVIOUS
  <2>2. m - 1 \in Bounds
    <3>1. PICK i \in S : TRUE  OBVIOUS
    <3>2. m # 0 /\ m \in Nat /\ \A j \in S : j \in Nat /\ j <= m  BY <3>1
    <3> QED BY <3>2, <2>1
  <2> QED BY <1>3, <2>2
<1>5. \E i \in S : \A j \in S : j <= i
  BY <1>4
<1> QED BY <1>5 DEF LastOf

(* The candidates a pass collects are well formed.                            *)
LEMMA SnapshotType ==
  queue \subseteq Requests /\ prio \in [Requests -> Priority] => Snapshot \subseteq Candidate
<1> SUFFICES ASSUME queue \subseteq Requests, prio \in [Requests -> Priority],
                    NEW r \in Pending
             PROVE  [req |-> r, pos |-> Position(r), rank |-> prio[r]] \in Candidate
  BY DEF Snapshot
<1>1. IsFiniteSet({x \in queue : Before(x, r)})
  BY ConstantsAssumption, FS_Subset, {x \in queue : Before(x, r)} \subseteq Requests
<1>2. Position(r) \in Nat
  BY <1>1, FS_CardinalityType DEF Position
<1> QED BY <1>2 DEF Candidate, Pending

LEMMA StartPassType ==
  ASSUME NEW o \in Owners, PassTypeOK, queue' \subseteq Requests,
         prio' \in [Requests -> Priority], StartPass(o)
  PROVE  PassTypeOK'
<1>0. (queue \subseteq Requests /\ prio \in [Requests -> Priority] => Snapshot \subseteq Candidate)'
  BY SnapshotType, PTL
<1>1. Snapshot' \subseteq Candidate
  BY <1>0
<1>2. PICK c \in Selected(Snapshot') :
         pass' = [pass EXCEPT ![o] = [todo |-> Snapshot', asking |-> c, admitted |-> <<>>]]
  BY DEF StartPass
<1>3. c \in Snapshot'
  BY DEF Selected
<1> QED BY <1>1, <1>2, <1>3 DEF PassTypeOK, Owners

(* Recounting a priority yields a natural number.                             *)
LEMMA QueuedType == queue \subseteq Requests => \A p \in Priority : Queued(p) \in Nat
<1> SUFFICES ASSUME queue \subseteq Requests, NEW p \in Priority PROVE Queued(p) \in Nat
  OBVIOUS
<1>1. IsFiniteSet({r \in queue : prio[r] = p})
  BY ConstantsAssumption, FS_Subset, {r \in queue : prio[r] = p} \subseteq Requests
<1> QED BY <1>1, FS_CardinalityType DEF Queued

LEMMA RecountType ==
  ASSUME sizes \in [Priority -> Nat], queue' \subseteq Requests, NEW ps, Recount(ps)
  PROVE  sizes' \in [Priority -> Nat]
<1>0. (queue \subseteq Requests => \A p \in Priority : Queued(p) \in Nat)'
  BY QueuedType, PTL
<1>1. \A p \in Priority : Queued(p)' \in Nat
  BY <1>0
<1> QED BY <1>1 DEF Recount

-----------------------------------------------------------------------------
(* Type correctness, one step per action.                                     *)
LEMMA InitType == Init => TypeOK
<1>1. NoPass \in [todo : SUBSET Candidate, asking : Candidate \cup {None},
                  admitted : Seq(Requests)]
  BY DEF NoPass
<1> QED BY <1>1, ConstantsAssumption
        DEF Init, TypeOK, PassTypeOK, Location, Priority, High, Medium, Low, NoPass

LEMMA DropSessionType ==
  ASSUME TypeOK, NEW s, DropSession(s)
  PROVE  /\ queue' \subseteq Requests /\ cancelled' \subseteq Requests
         /\ event' \subseteq Requests
         /\ sizes' \in [Priority -> Nat] /\ gauge' \in [Priority -> Nat]
<1>1. queue' \subseteq Requests  BY DEF TypeOK, DropSession
<1>2. sizes' \in [Priority -> Nat]  BY <1>1, RecountType DEF TypeOK, DropSession
<1> QED BY <1>1, <1>2 DEF TypeOK, DropSession

LEMMA AnswerType ==
  ASSUME TypeOK, NEW o \in Owners, pass[o].todo # {}, NEW ok \in BOOLEAN
  PROVE  /\ Remaining(o, ok) \subseteq Candidate
         /\ Admitted(o, ok) \in Seq(Requests)
         /\ pass[o].asking \in Candidate
<1>1. /\ pass[o].todo \subseteq Candidate
      /\ pass[o].admitted \in Seq(Requests)
      /\ pass[o].asking \in pass[o].todo
  BY DEF TypeOK, PassTypeOK
<1>2. pass[o].asking.req \in Requests  BY <1>1 DEF Candidate
<1> QED BY <1>1, <1>2 DEF Remaining, Admitted

LEMMA AdmitType ==
  ASSUME TypeOK, NEW o \in Owners, pass[o].todo # {}, NEW ok \in BOOLEAN, Admit(o, ok)
  PROVE  event' \subseteq Requests
<1>1. pass[o].asking.req \in Requests  BY AnswerType DEF Candidate
<1> QED BY <1>1 DEF Admit, TypeOK

LEMMA AskNextType ==
  ASSUME TypeOK, NEW o \in Owners, NEW ok \in BOOLEAN, AskNext(o, ok)
  PROVE  TypeOK'
<1>1. pass[o].todo # {}  BY DEF AskNext
<1>2. event' \subseteq Requests  BY <1>1, AdmitType DEF AskNext
<1>3. PICK c \in Selected(Remaining(o, ok)) :
        pass' = [pass EXCEPT ![o] = [todo |-> Remaining(o, ok), asking |-> c,
                                     admitted |-> Admitted(o, ok)]]
  BY DEF AskNext
<1>4. c \in Remaining(o, ok)  BY DEF Selected
<1>5. PassTypeOK'
  BY <1>1, <1>3, <1>4, AnswerType DEF TypeOK, PassTypeOK
<1> QED BY <1>2, <1>5 DEF TypeOK, AskNext

LEMMA EndPassType ==
  ASSUME TypeOK, NEW o \in Owners, NEW ok \in BOOLEAN, EndPass(o, ok)
  PROVE  TypeOK'
<1> DEFINE released == Admitted(o, ok)
<1>1. pass[o].todo # {}  BY DEF EndPass
<1>2. event' \subseteq Requests  BY <1>1, AdmitType DEF EndPass
<1>3. released \in Seq(Requests) /\ Len(released) \in Nat
  BY <1>1, AnswerType
<1>4. PassTypeOK'
  <2>1. NoPass \in [todo : SUBSET Candidate, asking : Candidate \cup {None},
                    admitted : Seq(Requests)]
    BY DEF NoPass
  <2>2. pass' = [pass EXCEPT ![o] = NoPass]  BY DEF EndPass
  <2> QED BY <2>1, <2>2 DEF TypeOK, PassTypeOK, NoPass
<1>5. opened' \in [Requests -> Nat]
  <2>1. ASSUME NEW r \in Requests
        PROVE  Cardinality({i \in DOMAIN released : released[i] = r}) \in Nat
    <3>1. IsFiniteSet(1..Len(released))  BY <1>3, FS_Interval
    <3>2. {i \in DOMAIN released : released[i] = r} \subseteq 1..Len(released)
      BY <1>3
    <3> QED BY <3>1, <3>2, FS_Subset, FS_CardinalityType
  <2>2. opened' = [r \in Requests |->
                     opened[r] + Cardinality({i \in DOMAIN released : released[i] = r})]
    BY DEF EndPass
  <2>3. \A r \in Requests : opened[r] \in Nat  BY DEF TypeOK
  <2> HIDE DEF released
  <2> QED BY <2>1, <2>2, <2>3
<1>6. clock' \in Nat /\ clock' = clock + Len(released)
  BY <1>3 DEF TypeOK, EndPass
<1>7. lastServed' \in [Sessions -> Nat]
  <2>1. ASSUME NEW s \in Sessions, ServedAt(s, released) # {}
        PROVE  LastOf(ServedAt(s, released)) \in Nat
    <3>1. ServedAt(s, released) \subseteq 1..Len(released)
      BY <1>3 DEF ServedAt
    <3>2. LastOf(ServedAt(s, released)) \in ServedAt(s, released)
      BY <1>3, <2>1, <3>1, LastOfIn
    <3> QED BY <3>1, <3>2, <1>3
  <2>2. lastServed' = [s \in Sessions |->
                         IF ServedAt(s, released) = {} THEN lastServed[s]
                         ELSE clock + LastOf(ServedAt(s, released))]
    BY DEF EndPass
  <2> HIDE DEF released
  <2> QED BY <2>1, <2>2 DEF TypeOK
<1>8. pc' \in [Requests -> Location] /\ aging' \subseteq Requests
      /\ closed' \in [Requests -> Nat]
  <2>1. Resume(o)  BY DEF EndPass
  <2> QED BY <2>1 DEF TypeOK, Resume, Owners, Location, Woken
<1> QED BY <1>2, <1>4, <1>5, <1>6, <1>7, <1>8 DEF TypeOK, EndPass

LEMMA TypeStep == TypeOK /\ [Next]_vars => TypeOK'
<1> SUFFICES ASSUME TypeOK, [Next]_vars PROVE TypeOK'  OBVIOUS
<1>1. ASSUME NEW r \in Requests, RejectFull(r) PROVE TypeOK'
  BY <1>1 DEF RejectFull, TypeOK, PassTypeOK, Location
<1>2. ASSUME NEW r \in Requests, Enqueue(r) PROVE TypeOK'
  <2>1. queue' \subseteq Requests /\ prio' \in [Requests -> Priority]
    BY <1>2 DEF Enqueue, TypeOK
  <2>2. sizes' \in [Priority -> Nat]
    BY <1>2, <2>1, RecountType DEF Enqueue, TypeOK
  <2>3. PassTypeOK'
    BY <1>2, <2>1, StartPassType DEF Enqueue, TypeOK, PassTypeOK, Owners
  <2> QED BY <1>2, <2>1, <2>2, <2>3 DEF Enqueue, TypeOK, Location
<1>3. ASSUME NEW r \in Requests, Wake(r) PROVE TypeOK'
  BY <1>3 DEF Wake, Woken, TypeOK, PassTypeOK, Location
<1>4. ASSUME NEW r \in Requests, Timeout(r) PROVE TypeOK'
  <2>1. queue' \subseteq Requests /\ prio' \in [Requests -> Priority]
    BY <1>4 DEF Timeout, TypeOK
  <2>2. sizes' \in [Priority -> Nat]
    BY <1>4, <2>1, RecountType DEF Timeout, TypeOK
  <2>3. PassTypeOK'
    BY <1>4, <2>1, StartPassType DEF Timeout, TypeOK, PassTypeOK, Owners
  <2> QED BY <1>4, <2>1, <2>2, <2>3 DEF Timeout, TypeOK, Location
<1>5. ASSUME NEW r \in Requests, Age(r) PROVE TypeOK'
  <2>1. queue' \subseteq Requests /\ prio' \in [Requests -> Priority]
    BY <1>5 DEF Age, TypeOK, Priority
  <2>2. sizes' \in [Priority -> Nat]
    BY <1>5, <2>1, RecountType DEF Age, TypeOK
  <2> QED BY <1>5, <2>1, <2>2 DEF Age, TypeOK, PassTypeOK
<1>6. ASSUME NEW r \in Requests, Finish(r) PROVE TypeOK'
  <2>1. /\ queue' \subseteq Requests /\ prio' \in [Requests -> Priority]
        /\ completed' \subseteq Requests
    BY <1>6 DEF Finish, TypeOK
  <2>2. sizes' \in [Priority -> Nat]
    <3>1. ASSUME NEW p \in Priority
          PROVE  Cardinality({x \in Leading(completed') : prio[x] = p}) \in Nat
      <4>1. {x \in Leading(completed') : prio[x] = p} \subseteq Requests
        BY DEF Leading, TypeOK
      <4> QED BY <4>1, ConstantsAssumption, FS_Subset, FS_CardinalityType
    <3>2. sizes' = [p \in Priority |-> AtLeastZero(sizes[p] -
                     Cardinality({x \in Leading(completed') : prio[x] = p}))]
      BY <1>6 DEF Finish
    <3>3. \A p \in Priority : sizes[p] \in Nat  BY DEF TypeOK
    <3> QED BY <3>1, <3>2, <3>3 DEF AtLeastZero
  <2>3. PassTypeOK'
    BY <1>6, <2>1, StartPassType DEF Finish, TypeOK, PassTypeOK, Owners
  <2>4. pc' \in [Requests -> Location] /\ closed' \in [Requests -> Nat]
    <3>1. \A n \in Nat : n + 1 \in Nat  OBVIOUS
    <3>2. CASE Pending' = {}
      BY <1>6, <3>1, <3>2 DEF Finish, TypeOK, Location
    <3>3. CASE Pending' # {}
      BY <1>6, <3>3 DEF Finish, TypeOK, Location
    <3> QED BY <3>2, <3>3
  <2>5. gauge' \in [Priority -> Nat]
    BY <1>6, <2>2 DEF Finish, TypeOK
  <2> QED BY <1>6, <2>1, <2>2, <2>3, <2>4, <2>5 DEF Finish, TypeOK
<1>7. ASSUME NEW r \in Requests, Leave(r) PROVE TypeOK'
  <2>1. PassTypeOK'
    <3>1. NoPass \in [todo : SUBSET Candidate, asking : Candidate \cup {None},
                      admitted : Seq(Requests)]
      BY DEF NoPass
    <3> QED BY <1>7, <3>1 DEF Leave, TypeOK, PassTypeOK, NoPass, Owners
  <2>2. pc' \in [Requests -> Location]
    BY <1>7 DEF Leave, TypeOK, Location
  <2> QED BY <1>7, <2>1, <2>2 DEF Leave, TypeOK
<1>8. ASSUME NEW o \in Owners, NEW ok \in BOOLEAN, Answer(o, ok) PROVE TypeOK'
  BY <1>8, AskNextType, EndPassType DEF Answer
<1>9. CASE StartRecheck
  <2>1. PassTypeOK'
    BY <1>9, StartPassType DEF StartRecheck, TypeOK, Owners
  <2> QED BY <1>9, <2>1 DEF StartRecheck, TypeOK
<1>10. ASSUME NEW s \in Sessions, CancelSession(s) PROVE TypeOK'
  BY <1>10, DropSessionType DEF CancelSession, TypeOK, PassTypeOK
<1>11. CASE UNCHANGED vars
  BY <1>11 DEF vars, TypeOK, PassTypeOK
<1> QED BY <1>1, <1>2, <1>3, <1>4, <1>5, <1>6, <1>7, <1>8, <1>9, <1>10, <1>11
        DEF Next, RequestStep

(* Every variable keeps its type.                                             *)
THEOREM TypeCorrect == Spec => []TypeOK
<1>1. Init => TypeOK  BY InitType
<1>2. TypeOK /\ [Next]_vars => TypeOK'  BY TypeStep
<1> QED BY <1>1, <1>2, PTL DEF Spec

-----------------------------------------------------------------------------
(* SizesMatch is inductive given the types: a recount changes only the        *)
(* priorities it names, and dequeue subtracts exactly what it pops.           *)
LEMMA RecountMatches ==
  ASSUME SizesMatch, NEW ps, Recount(ps),
         \A p \in Priority \ ps : {x \in queue' : prio'[x] = p} = {x \in queue : prio[x] = p}
  PROVE  SizesMatch'
<1>1. ASSUME NEW p \in Priority PROVE sizes'[p] = Queued(p)'
  BY DEF Recount, SizesMatch, Queued
<1> QED BY <1>1 DEF Recount, SizesMatch

LEMMA SizesStep == TypeOK /\ SizesMatch /\ [Next]_vars => SizesMatch'
<1> SUFFICES ASSUME TypeOK, SizesMatch, [Next]_vars PROVE SizesMatch'  OBVIOUS
<1>1. ASSUME UNCHANGED <<queue, prio, sizes>> PROVE SizesMatch'
  BY <1>1 DEF SizesMatch, Queued
<1>2. ASSUME NEW r \in Requests, Enqueue(r) PROVE SizesMatch'
  <2>1. \A p \in Priority \ {prio[r]} :
          {x \in queue' : prio'[x] = p} = {x \in queue : prio[x] = p}
    BY <1>2 DEF Enqueue, TypeOK
  <2> QED BY <1>2, <2>1, RecountMatches DEF Enqueue
<1>3. ASSUME NEW r \in Requests, Timeout(r) PROVE SizesMatch'
  <2>1. CASE r \in queue
    <3>1. \A p \in Priority \ {prio[r]} :
            {x \in queue' : prio'[x] = p} = {x \in queue : prio[x] = p}
      BY <1>3 DEF Timeout, TypeOK
    <3> QED BY <1>3, <2>1, <3>1, RecountMatches DEF Timeout
  <2>2. CASE r \notin queue
    <3>1. queue' = queue /\ prio' = prio  BY <1>3, <2>2 DEF Timeout
    <3> QED BY <1>3, <2>2, <3>1, RecountMatches DEF Timeout
  <2> QED BY <2>1, <2>2
<1>4. ASSUME NEW r \in Requests, Age(r) PROVE SizesMatch'
  <2>1. \A p \in Priority \ {prio[r], prio'[r]} :
          {x \in queue' : prio'[x] = p} = {x \in queue : prio[x] = p}
    BY <1>4 DEF Age, TypeOK
  <2> QED BY <1>4, <2>1, RecountMatches DEF Age
<1>5. ASSUME NEW r \in Requests, Finish(r) PROVE SizesMatch'
  <2>1. SUFFICES ASSUME NEW p \in Priority PROVE sizes'[p] = Queued(p)'
    BY <1>5 DEF Finish, SizesMatch
  <2> DEFINE before == {x \in queue : prio[x] = p}
             popped == {x \in Leading(completed') : prio[x] = p}
  <2>2. IsFiniteSet(before) /\ IsFiniteSet(popped)
    <3>1. before \subseteq Requests /\ popped \subseteq Requests
      BY DEF TypeOK, Leading
    <3> QED BY <3>1, ConstantsAssumption, FS_Subset
  <2>3. popped \subseteq before /\ before \cap popped = popped
    BY DEF Leading
  <2>4. Cardinality(before \ popped) = Cardinality(before) - Cardinality(popped)
    BY <2>2, <2>3, FS_Difference
  <2>5. Cardinality(before \ popped) \in Nat
    BY <2>2, FS_Difference, FS_CardinalityType
  <2>6. {x \in queue' : prio'[x] = p} = before \ popped
    BY <1>5 DEF Finish
  <2>7. sizes[p] = Cardinality(before) /\ sizes'[p] = AtLeastZero(sizes[p] - Cardinality(popped))
    BY <1>5 DEF Finish, SizesMatch, Queued
  <2> HIDE DEF before, popped
  <2>8. sizes'[p] = Cardinality(before \ popped)
    BY <2>4, <2>5, <2>7 DEF AtLeastZero
  <2> QED BY <2>6, <2>8 DEF Queued
<1>6. ASSUME NEW s, DropSession(s) PROVE SizesMatch'
  BY <1>6, RecountMatches DEF DropSession
<1>7. ASSUME NEW r \in Requests, Leave(r) PROVE SizesMatch'
  BY <1>1, <1>7 DEF Leave
<1>8. ASSUME NEW o \in Owners, NEW ok \in BOOLEAN, Answer(o, ok) PROVE SizesMatch'
  BY <1>1, <1>8 DEF Answer, AskNext, EndPass
<1>9. ASSUME NEW r \in Requests, RejectFull(r) \/ Wake(r) PROVE SizesMatch'
  BY <1>1, <1>9 DEF RejectFull, Wake
<1>10. CASE StartRecheck
  BY <1>1, <1>10 DEF StartRecheck
<1>11. ASSUME NEW s \in Sessions, CancelSession(s) PROVE SizesMatch'
  BY <1>6, <1>11 DEF CancelSession
<1>12. CASE UNCHANGED vars
  BY <1>1, <1>12 DEF vars
<1> QED BY <1>2, <1>3, <1>4, <1>5, <1>7, <1>8, <1>9, <1>10, <1>11, <1>12
        DEF Next, RequestStep

(* _sizes always is the number of list items of each priority.                *)
THEOREM SizesCorrect == Spec => []SizesMatch
<1>1. Init => SizesMatch
  <2>1. ASSUME Init, NEW p \in Priority PROVE sizes[p] = Queued(p)
    <3>1. {r \in queue : prio[r] = p} = {}  BY <2>1 DEF Init
    <3> QED BY <2>1, <3>1, FS_EmptySet DEF Init, Queued
  <2> QED BY <2>1 DEF Init, SizesMatch
<1>2. TypeOK /\ SizesMatch /\ [Next]_vars => SizesMatch'  BY SizesStep
<1> QED BY <1>1, <1>2, TypeCorrect, PTL DEF Spec

-----------------------------------------------------------------------------
(* A pass has released r and will report it when it ends.                     *)
AboutToReport(o, r) == \E i \in DOMAIN pass[o].admitted : pass[o].admitted[i] = r

(* Why no request is released twice.  A pass admits a request only while its  *)
(* event is clear and sets it in the same step, so from then on the request   *)
(* is in at most one pass's list, once, and was not reported before.          *)
ReleaseInv ==
  /\ \A r \in Requests : pc[r] = "new" => r \notin event /\ r \notin queue
  /\ \A o \in Owners : \A i, j \in DOMAIN pass[o].admitted :
       pass[o].admitted[i] = pass[o].admitted[j] => i = j
  /\ \A o \in Owners, r \in Requests :
       AboutToReport(o, r) => r \in event /\ opened[r] = 0
  /\ \A o1, o2 \in Owners, r \in Requests :
       AboutToReport(o1, r) /\ AboutToReport(o2, r) => o1 = o2
  /\ \A r \in Requests : opened[r] \in {0, 1} /\ (opened[r] = 1 => r \in event)

(* A pass that has just started, or is over, has nothing to report.           *)
LEMMA FreshPass ==
  ASSUME TypeOK, NEW o \in Owners, NEW v, v.admitted = <<>>,
         pass' = [pass EXCEPT ![o] = v]
  PROVE  /\ pass'[o].admitted = <<>>
         /\ \A p \in Owners : p # o => pass'[p] = pass[p]
  BY DEF TypeOK, PassTypeOK

(* Whatever leaves reports as they are or drops a whole list keeps ReleaseInv. *)
LEMMA ReleaseKept ==
  ASSUME TypeOK, ReleaseInv, opened' = opened, event \subseteq event',
         \A o \in Owners : pass'[o].admitted \in {pass[o].admitted, <<>>},
         \A r \in Requests : pc'[r] = "new" =>
           pc[r] = "new" /\ (r \in event' => r \in event) /\ (r \in queue' => r \in queue)
  PROVE  ReleaseInv'
<1>1. \A o \in Owners, r \in Requests : AboutToReport(o, r)' => AboutToReport(o, r)
  BY DEF AboutToReport
<1> QED BY <1>1 DEF ReleaseInv, AboutToReport

LEMMA StartPassAdmitted ==
  ASSUME TypeOK, NEW o \in Owners, StartPass(o)
  PROVE  \A p \in Owners : pass'[p].admitted \in {pass[p].admitted, <<>>}
<1>1. PICK c \in Selected(Snapshot') :
        pass' = [pass EXCEPT ![o] = [todo |-> Snapshot', asking |-> c, admitted |-> <<>>]]
  BY DEF StartPass
<1> QED BY <1>1 DEF TypeOK, PassTypeOK

LEMMA AdmittedStep ==
  ASSUME TypeOK, ReleaseInv, NEW o \in Owners, NEW ok \in BOOLEAN, pass[o].todo # {},
         Admit(o, ok)
  PROVE  LET released == Admitted(o, ok) IN
         /\ released \in Seq(Requests)
         /\ \A i, j \in DOMAIN released : released[i] = released[j] => i = j
         /\ \A i \in DOMAIN released :
              /\ released[i] \in event' /\ opened[released[i]] = 0
              /\ \A p \in Owners : p # o => ~ AboutToReport(p, released[i])
         /\ event \subseteq event'
         /\ \A r \in event' \ event : r \in queue
<1>1. Admitted(o, ok) \in Seq(Requests)  BY AnswerType
<1>2. pass[o].admitted \in Seq(Requests) /\ pass[o].asking.req \in Requests
  BY AnswerType DEF TypeOK, PassTypeOK, Candidate
<1>3. CASE ~ Admits(o, ok)
  BY <1>1, <1>2, <1>3 DEF Admitted, Admit, ReleaseInv, AboutToReport
<1>4. CASE Admits(o, ok)
  <2> DEFINE old == pass[o].admitted
             r == pass[o].asking.req
  <2>1. r \notin event /\ r \in queue  BY <1>4 DEF Admits, StillEligible
  <2>2. opened[r] = 0 /\ \A p \in Owners : ~ AboutToReport(p, r)
    BY <2>1, <1>2 DEF ReleaseInv
  <2>3. Admitted(o, ok) = Append(old, r) /\ event' = event \cup {r}
    BY <1>4 DEF Admitted, Admit
  <2>4. \A i \in DOMAIN old : old[i] \in Requests /\ AboutToReport(o, old[i]) /\ old[i] # r
    BY <1>2, <2>2 DEF AboutToReport
  <2>5. \A i, j \in DOMAIN old : old[i] = old[j] => i = j
    BY DEF ReleaseInv
  <2>6. \A i \in DOMAIN old :
           /\ old[i] \in event /\ opened[old[i]] = 0
           /\ \A p \in Owners : p # o => ~ AboutToReport(p, old[i])
    BY <2>4 DEF ReleaseInv
  <2>7. DOMAIN Append(old, r) = 1..Len(old) + 1 /\ DOMAIN old = 1..Len(old) /\ Len(old) \in Nat
        /\ (\A i \in DOMAIN old : Append(old, r)[i] = old[i])
        /\ Append(old, r)[Len(old) + 1] = r
    BY <1>2
  <2> HIDE DEF old, r
  <2>8. \A i \in DOMAIN Append(old, r) : i \in DOMAIN old \/ i = Len(old) + 1
    BY <2>7
  <2> QED BY <1>1, <2>1, <2>2, <2>3, <2>4, <2>5, <2>6, <2>7, <2>8
<1> QED BY <1>3, <1>4

LEMMA EnqueueRelease ==
  ASSUME TypeOK, ReleaseInv, NEW r \in Requests, Enqueue(r)
  PROVE  ReleaseInv'
<1>1. /\ pc[r] = "new" /\ r \notin event /\ r \notin queue /\ queue' = queue \cup {r}
      /\ \A o \in Owners : ~ AboutToReport(o, r)
      /\ opened[r] = 0
  BY DEF Enqueue, ReleaseInv
<1>2. CASE queue = {}
  <2>1. /\ event' = event \cup {r} /\ pass' = pass
        /\ pc' = [pc EXCEPT ![r] = "running"]
        /\ opened' = [opened EXCEPT ![r] = @ + 1]
    BY <1>2 DEF Enqueue
  <2>2. \A o \in Owners, x \in Requests : AboutToReport(o, x)' <=> AboutToReport(o, x)
    BY <2>1 DEF AboutToReport
  <2>3. \A x \in Requests : opened'[x] = IF x = r THEN 1 ELSE opened[x]
    BY <1>1, <2>1 DEF TypeOK
  <2> QED BY <1>1, <2>1, <2>2, <2>3 DEF ReleaseInv, TypeOK
<1>3. CASE queue # {}
  <2>1. /\ event' = event /\ opened' = opened
        /\ pc' = [pc EXCEPT ![r] = "releasing"] /\ StartPass(r)
    BY <1>3 DEF Enqueue
  <2>2. \A p \in Owners : pass'[p].admitted \in {pass[p].admitted, <<>>}
    BY <2>1, StartPassAdmitted DEF Owners
  <2>3. \A x \in Requests : pc'[x] = "new" => x # r /\ pc[x] = "new"
    BY <2>1 DEF TypeOK
  <2> QED BY <1>1, <2>1, <2>2, <2>3, ReleaseKept
<1> QED BY <1>2, <1>3

LEMMA AskNextRelease ==
  ASSUME TypeOK, ReleaseInv, NEW o \in Owners, NEW ok \in BOOLEAN, AskNext(o, ok)
  PROVE  ReleaseInv'
<1> DEFINE released == Admitted(o, ok)
<1>1. /\ \A i, j \in DOMAIN released : released[i] = released[j] => i = j
      /\ \A i \in DOMAIN released :
           /\ released[i] \in event' /\ opened[released[i]] = 0
           /\ \A p \in Owners : p # o => ~ AboutToReport(p, released[i])
      /\ event \subseteq event'
      /\ \A r \in event' \ event : r \in queue
  BY AdmittedStep DEF AskNext
<1>2. /\ pass'[o].admitted = released
      /\ \A p \in Owners : p # o => pass'[p] = pass[p]
  BY DEF AskNext, TypeOK, PassTypeOK
<1>3. opened' = opened /\ pc' = pc /\ queue' = queue  BY DEF AskNext
<1> HIDE DEF released
<1>4. \A r \in Requests :
        /\ AboutToReport(o, r)' <=> \E i \in DOMAIN released : released[i] = r
        /\ \A p \in Owners : p # o => (AboutToReport(p, r)' <=> AboutToReport(p, r))
  BY <1>2 DEF AboutToReport
<1>5. \A p \in Owners, r \in Requests : AboutToReport(p, r)' => r \in event' /\ opened'[r] = 0
  BY <1>1, <1>3, <1>4 DEF ReleaseInv
<1>6. \A p1, p2 \in Owners, r \in Requests :
        AboutToReport(p1, r)' /\ AboutToReport(p2, r)' => p1 = p2
  BY <1>1, <1>4 DEF ReleaseInv
<1>7. \A p \in Owners : \A i, j \in DOMAIN pass'[p].admitted :
        pass'[p].admitted[i] = pass'[p].admitted[j] => i = j
  BY <1>1, <1>2 DEF ReleaseInv
<1>8. \A r \in Requests : /\ pc'[r] = "new" => r \notin event' /\ r \notin queue'
                          /\ opened'[r] \in {0, 1} /\ (opened'[r] = 1 => r \in event')
  BY <1>1, <1>3 DEF ReleaseInv
<1> QED BY <1>5, <1>6, <1>7, <1>8 DEF ReleaseInv

LEMMA EndPassRelease ==
  ASSUME TypeOK, ReleaseInv, NEW o \in Owners, NEW ok \in BOOLEAN, EndPass(o, ok)
  PROVE  ReleaseInv'
<1> DEFINE released == Admitted(o, ok)
           places(r) == {i \in DOMAIN released : released[i] = r}
<1>1. /\ released \in Seq(Requests)
      /\ \A i, j \in DOMAIN released : released[i] = released[j] => i = j
      /\ \A i \in DOMAIN released :
           /\ released[i] \in event' /\ opened[released[i]] = 0
           /\ \A p \in Owners : p # o => ~ AboutToReport(p, released[i])
      /\ event \subseteq event'
      /\ \A r \in event' \ event : r \in queue
  BY AdmittedStep DEF EndPass
<1>2. /\ pass'[o].admitted = <<>>
      /\ \A p \in Owners : p # o => pass'[p] = pass[p]
  BY DEF EndPass, NoPass, TypeOK, PassTypeOK
<1>3. opened' = [r \in Requests |-> opened[r] + Cardinality(places(r))] /\ queue' = queue
  BY DEF EndPass
<1>4. \A r \in Requests : pc'[r] = "new" => pc[r] = "new"
  <2>1. Resume(o)  BY DEF EndPass
  <2> QED BY <2>1 DEF Resume, Woken, TypeOK, Owners
<1> HIDE DEF released
<1>5. \A r \in Requests : places(r) = {} \/ \E i \in DOMAIN released : places(r) = {i}
  BY <1>1
<1>6. \A r \in Requests :
        IF \E i \in DOMAIN released : released[i] = r
        THEN opened[r] = 0 /\ opened'[r] = 1 /\ r \in event'
        ELSE opened'[r] = opened[r]
  <2> SUFFICES ASSUME NEW r \in Requests
               PROVE  IF \E i \in DOMAIN released : released[i] = r
                      THEN opened[r] = 0 /\ opened'[r] = 1 /\ r \in event'
                      ELSE opened'[r] = opened[r]
    OBVIOUS
  <2>1. opened'[r] = opened[r] + Cardinality(places(r)) /\ opened[r] \in Nat
    BY <1>3 DEF TypeOK
  <2>2. CASE places(r) = {}
    <3>1. Cardinality(places(r)) = 0  BY <2>2, FS_EmptySet
    <3> QED BY <2>1, <2>2, <3>1
  <2>3. CASE \E i \in DOMAIN released : places(r) = {i}
    <3>1. Cardinality(places(r)) = 1  BY <2>3, FS_Singleton
    <3> QED BY <1>1, <2>1, <2>3, <3>1
  <2> QED BY <1>5, <2>2, <2>3
<1>7. \A r \in Requests :
        /\ ~ AboutToReport(o, r)'
        /\ \A p \in Owners : p # o => (AboutToReport(p, r)' <=> AboutToReport(p, r))
  BY <1>2 DEF AboutToReport
<1>8. \A p \in Owners, r \in Requests : AboutToReport(p, r)' => r \in event' /\ opened'[r] = 0
  <2> SUFFICES ASSUME NEW p \in Owners, NEW r \in Requests, AboutToReport(p, r)'
               PROVE  r \in event' /\ opened'[r] = 0
    OBVIOUS
  <2>1. p # o /\ AboutToReport(p, r)  BY <1>7
  <2>2. ~ \E i \in DOMAIN released : released[i] = r  BY <1>1, <2>1
  <2> QED BY <1>1, <1>6, <2>1, <2>2 DEF ReleaseInv
<1>9. \A p1, p2 \in Owners, r \in Requests :
        AboutToReport(p1, r)' /\ AboutToReport(p2, r)' => p1 = p2
  BY <1>7 DEF ReleaseInv
<1>10. \A p \in Owners : \A i, j \in DOMAIN pass'[p].admitted :
        pass'[p].admitted[i] = pass'[p].admitted[j] => i = j
  BY <1>2 DEF ReleaseInv
<1>11. \A r \in Requests : /\ pc'[r] = "new" => r \notin event' /\ r \notin queue'
                          /\ opened'[r] \in {0, 1} /\ (opened'[r] = 1 => r \in event')
  BY <1>1, <1>3, <1>4, <1>6 DEF ReleaseInv
<1> QED BY <1>8, <1>9, <1>10, <1>11 DEF ReleaseInv

LEMMA ReleaseStep == TypeOK /\ ReleaseInv /\ [Next]_vars => ReleaseInv'
<1> SUFFICES ASSUME TypeOK, ReleaseInv, [Next]_vars PROVE ReleaseInv'  OBVIOUS
<1>1. ASSUME NEW r \in Requests, RejectFull(r) \/ Wake(r) \/ Age(r) PROVE ReleaseInv'
  <2>1. opened' = opened /\ event' = event /\ pass' = pass /\ queue' = queue
    BY <1>1 DEF RejectFull, Wake, Age
  <2>2. \A x \in Requests : pc'[x] = "new" => pc[x] = "new"
    BY <1>1 DEF RejectFull, Wake, Woken, Age, TypeOK
  <2> QED BY <2>1, <2>2, ReleaseKept
<1>2. ASSUME NEW r \in Requests, Timeout(r) \/ Finish(r) PROVE ReleaseInv'
  <2>1. opened' = opened /\ event' = event /\ queue' \subseteq queue
    BY <1>2 DEF Timeout, Finish
  <2>2. \A x \in Requests : pc'[x] = "new" => pc[x] = "new"
    BY <1>2 DEF Timeout, Finish, TypeOK
  <2>3. \A o \in Owners : pass'[o].admitted \in {pass[o].admitted, <<>>}
    BY <1>2, StartPassAdmitted DEF Timeout, Finish, Owners
  <2> QED BY <2>1, <2>2, <2>3, ReleaseKept
<1>3. ASSUME NEW s, DropSession(s) PROVE event \subseteq event' /\ queue' \subseteq queue
        /\ \A r \in Requests : pc[r] = "new" /\ r \in event' => r \in event
  BY <1>3 DEF DropSession, ReleaseInv
<1>4. ASSUME NEW r \in Requests, Leave(r) PROVE ReleaseInv'
  <2>1. opened' = opened /\ \A x \in Requests : pc'[x] = "new" => pc[x] = "new"
    BY <1>4 DEF Leave, TypeOK
  <2>2. \A o \in Owners : pass'[o].admitted \in {pass[o].admitted, <<>>}
    BY <1>4 DEF Leave, NoPass, TypeOK, PassTypeOK, Owners
  <2>3. event \subseteq event' /\ queue' \subseteq queue
        /\ \A x \in Requests : pc[x] = "new" /\ x \in event' => x \in event
    BY <1>3, <1>4 DEF Leave
  <2> QED BY <2>1, <2>2, <2>3, ReleaseKept
<1>5. ASSUME NEW o \in Owners, NEW ok \in BOOLEAN, Answer(o, ok) PROVE ReleaseInv'
  BY <1>5, AskNextRelease, EndPassRelease DEF Answer
<1>6. CASE StartRecheck
  <2>1. \A o \in Owners : pass'[o].admitted \in {pass[o].admitted, <<>>}
    BY <1>6, StartPassAdmitted DEF StartRecheck, Owners
  <2> QED BY <1>6, <2>1, ReleaseKept DEF StartRecheck
<1>7. ASSUME NEW s \in Sessions, CancelSession(s) PROVE ReleaseInv'
  BY <1>3, <1>7, ReleaseKept DEF CancelSession
<1>8. CASE UNCHANGED vars
  BY <1>8, ReleaseKept DEF vars
<1> QED BY <1>1, <1>2, <1>4, <1>5, <1>6, <1>7, <1>8, EnqueueRelease DEF Next, RequestStep

(* on_release is called at most once for every request.                       *)
THEOREM ReleasedAtMostOnce == Spec => []ReleasedOnce
<1>1. Init => ReleaseInv
  BY DEF Init, ReleaseInv, AboutToReport, NoPass, Owners
<1>2. TypeOK /\ ReleaseInv /\ [Next]_vars => ReleaseInv'  BY ReleaseStep
<1>3. ReleaseInv => ReleasedOnce  BY DEF ReleaseInv, ReleasedOnce
<1> QED BY <1>1, <1>2, <1>3, TypeCorrect, PTL DEF Spec

-----------------------------------------------------------------------------
(* Why the releases are all reported in the end.  What has been admitted was  *)
(* reported, or a pass holds it in its list; a list is lost only with the     *)
(* task of its pass; and a request that is done has closed once.              *)
Accounted(r) == opened[r] = 1 \/ \E o \in Owners : AboutToReport(o, r)

ClosedWhenDone == \A r \in Requests : closed[r] = IF pc[r] = "done" THEN 1 ELSE 0

PassAtHome ==
  /\ \A r \in Requests : pass[r].todo # {} => pc[r] \in {"releasing", "removing", "dequeuing"}
  /\ \A o \in Owners : pass[o].todo = {} => pass[o].admitted = <<>>

AdmittedAccounted ==
  (\A r \in Requests : pc[r] # "gone") =>
    \A r \in Requests : pc[r] \in {"running", "dequeuing", "done"} \/ r \in event \ cancelled
                          => Accounted(r)

ReportInv == ClosedWhenDone /\ PassAtHome /\ AdmittedAccounted

LEMMA ClosedStep == TypeOK /\ ClosedWhenDone /\ [Next]_vars => ClosedWhenDone'
<1> SUFFICES ASSUME TypeOK, ClosedWhenDone, [Next]_vars PROVE ClosedWhenDone'  OBVIOUS
<1> USE DEF ClosedWhenDone, TypeOK
<1>1. ASSUME NEW r \in Requests, RejectFull(r) \/ Enqueue(r) \/ Wake(r) \/ Timeout(r)
      PROVE  ClosedWhenDone'
  BY <1>1 DEF RejectFull, Enqueue, Wake, Woken, Timeout
<1>2. ASSUME NEW r \in Requests, Age(r) \/ Leave(r) PROVE ClosedWhenDone'
  BY <1>2 DEF Age, Leave
<1>3. ASSUME NEW r \in Requests, Finish(r) PROVE ClosedWhenDone'
  BY <1>3 DEF Finish
<1>4. ASSUME NEW o \in Owners, NEW ok \in BOOLEAN, AskNext(o, ok) PROVE ClosedWhenDone'
  BY <1>4 DEF AskNext
<1>5. ASSUME NEW o \in Owners, NEW ok \in BOOLEAN, EndPass(o, ok) PROVE ClosedWhenDone'
  <2>1. Resume(o)  BY <1>5 DEF EndPass
  <2> QED BY <2>1 DEF Resume, Woken, Owners
<1>6. CASE StartRecheck \/ UNCHANGED vars
  BY <1>6 DEF StartRecheck, vars
<1>7. ASSUME NEW s \in Sessions, CancelSession(s) PROVE ClosedWhenDone'
  BY <1>7 DEF CancelSession
<1> QED BY <1>1, <1>2, <1>3, <1>4, <1>5, <1>6, <1>7 DEF Next, RequestStep, Answer

LEMMA StartPassHome ==
  ASSUME TypeOK, NEW o \in Owners, StartPass(o)
  PROVE  pass'[o].todo # {} /\ \A p \in Owners : p # o => pass'[p] = pass[p]
<1>1. PICK c \in Selected(Snapshot') :
        pass' = [pass EXCEPT ![o] = [todo |-> Snapshot', asking |-> c, admitted |-> <<>>]]
  BY DEF StartPass
<1>2. c \in Snapshot'  BY DEF Selected
<1> QED BY <1>1, <1>2 DEF TypeOK, PassTypeOK

LEMMA HomeStep == TypeOK /\ PassAtHome /\ [Next]_vars => PassAtHome'
<1> SUFFICES ASSUME TypeOK, PassAtHome, [Next]_vars PROVE PassAtHome'  OBVIOUS
<1>0. Recheck \notin Requests /\ Requests \subseteq Owners
  BY ConstantsAssumption DEF Owners
<1>1. ASSUME NEW r \in Requests, RejectFull(r) \/ Wake(r) \/ Age(r) PROVE PassAtHome'
  BY <1>1 DEF RejectFull, Wake, Age, PassAtHome, TypeOK
<1>2. ASSUME NEW r \in Requests, Enqueue(r) \/ Timeout(r) \/ Finish(r) PROVE PassAtHome'
  <2>1. /\ \A x \in Requests : x # r => pc'[x] = pc[x]
        /\ pass[r].todo = {}
        /\ \/ pass' = pass
           \/ StartPass(r) /\ pc'[r] \in {"releasing", "removing", "dequeuing"}
    BY <1>2 DEF Enqueue, Timeout, Finish, PassAtHome, TypeOK
  <2> QED BY <1>0, <2>1, StartPassHome DEF PassAtHome
<1>3. ASSUME NEW r \in Requests, Leave(r) PROVE PassAtHome'
  BY <1>0, <1>3 DEF Leave, NoPass, PassAtHome, TypeOK, PassTypeOK
<1>4. ASSUME NEW o \in Owners, NEW ok \in BOOLEAN, AskNext(o, ok) PROVE PassAtHome'
  <2>1. /\ pass[o].todo # {} /\ pass'[o].todo # {} /\ pc' = pc
        /\ \A p \in Owners : p # o => pass'[p] = pass[p]
    BY <1>4 DEF AskNext, TypeOK, PassTypeOK
  <2> QED BY <1>0, <2>1 DEF PassAtHome
<1>5. ASSUME NEW o \in Owners, NEW ok \in BOOLEAN, EndPass(o, ok) PROVE PassAtHome'
  <2>1. /\ pass'[o].todo = {} /\ pass'[o].admitted = <<>>
        /\ \A p \in Owners : p # o => pass'[p] = pass[p]
    BY <1>5 DEF EndPass, NoPass, TypeOK, PassTypeOK
  <2>2. \A x \in Requests : x # o => pc'[x] = pc[x]
    <3>1. Resume(o)  BY <1>5 DEF EndPass
    <3> QED BY <3>1 DEF Resume, TypeOK
  <2> QED BY <1>0, <2>1, <2>2 DEF PassAtHome
<1>6. CASE StartRecheck
  <2>1. StartPass(Recheck) /\ pc' = pc /\ Recheck \in Owners
    BY <1>6 DEF StartRecheck, Owners
  <2> QED BY <1>0, <2>1, StartPassHome DEF PassAtHome
<1>7. CASE UNCHANGED vars \/ \E s \in Sessions : CancelSession(s)
  BY <1>7 DEF CancelSession, vars, PassAtHome
<1> QED BY <1>1, <1>2, <1>3, <1>4, <1>5, <1>6, <1>7 DEF Next, RequestStep, Answer

(* A step that admits nobody and loses no list.                               *)
LEMMA AccountedKept ==
  ASSUME AdmittedAccounted, opened' = opened,
         event' \ cancelled' \subseteq event \ cancelled,
         \A o \in Owners : pass'[o].admitted = pass[o].admitted,
         \A r \in Requests : pc'[r] # "gone" => pc[r] # "gone",
         \A r \in Requests : pc'[r] \in {"running", "dequeuing", "done"} =>
           pc[r] \in {"running", "dequeuing", "done"} \/ r \in event \ cancelled
  PROVE  AdmittedAccounted'
<1>1. \A r \in Requests : Accounted(r) => Accounted(r)'
  BY DEF Accounted, AboutToReport
<1> QED BY <1>1 DEF AdmittedAccounted

(* A pass starts for an owner that has none under way.                        *)
LEMMA StartPassKeepsLists ==
  ASSUME TypeOK, PassAtHome, NEW o \in Owners, StartPass(o), pass[o].todo = {}
  PROVE  \A p \in Owners : pass'[p].admitted = pass[p].admitted
<1>1. PICK c \in Selected(Snapshot') :
        pass' = [pass EXCEPT ![o] = [todo |-> Snapshot', asking |-> c, admitted |-> <<>>]]
  BY DEF StartPass
<1> QED BY <1>1 DEF TypeOK, PassTypeOK, PassAtHome

LEMMA AnswerAccounted ==
  ASSUME TypeOK, ReleaseInv, ReleaseInv', PassAtHome, AdmittedAccounted,
         NEW o \in Owners, NEW ok \in BOOLEAN, Answer(o, ok)
  PROVE  AdmittedAccounted'
<1> DEFINE released == Admitted(o, ok)
           Listed(r) == \E i \in DOMAIN released : released[i] = r
<1>1. /\ pass[o].todo # {} /\ Admit(o, ok) /\ cancelled' = cancelled
      /\ \A p \in Owners : p # o => pass'[p] = pass[p]
  BY DEF Answer, AskNext, EndPass, TypeOK, PassTypeOK
<1>2. released \in Seq(Requests) /\ pass[o].admitted \in Seq(Requests)
      /\ pass[o].asking.req \in Requests
  BY <1>1, AnswerType DEF TypeOK, PassTypeOK, Candidate
<1>3. \A r \in Requests : AboutToReport(o, r) \/ r \in event' \ event => Listed(r)
  <2>1. CASE Admits(o, ok)
    <3> DEFINE old == pass[o].admitted
    <3>1. released = Append(old, pass[o].asking.req) /\ event' = event \cup {pass[o].asking.req}
      BY <1>1, <2>1 DEF Admitted, Admit
    <3>2. /\ DOMAIN released = 1..Len(old) + 1 /\ DOMAIN old = 1..Len(old) /\ Len(old) \in Nat
          /\ \A i \in DOMAIN old : released[i] = old[i]
          /\ released[Len(old) + 1] = pass[o].asking.req
      BY <1>2, <3>1
    <3> HIDE DEF released
    <3>3. \A i \in DOMAIN old : i \in DOMAIN released  BY <3>2
    <3>4. Len(old) + 1 \in DOMAIN released  BY <3>2
    <3> QED BY <3>1, <3>2, <3>3, <3>4 DEF AboutToReport
  <2>2. CASE ~ Admits(o, ok)
    BY <1>1, <2>2 DEF Admitted, Admit, AboutToReport
  <2> QED BY <2>1, <2>2
<1> HIDE DEF released
<1>4. \A r \in Requests : (opened[r] = 1 \/ Listed(r) \/
                            \E p \in Owners : p # o /\ AboutToReport(p, r)) => Accounted(r)'
  <2>1. \A r \in Requests : \A p \in Owners : p # o => (AboutToReport(p, r) <=> AboutToReport(p, r)')
    BY <1>1 DEF AboutToReport
  <2>2. CASE AskNext(o, ok)
    <3>1. pass'[o].admitted = released /\ opened' = opened
      BY <2>2 DEF AskNext, TypeOK, PassTypeOK, released
    <3> QED BY <2>1, <3>1 DEF Accounted, AboutToReport
  <2>3. CASE EndPass(o, ok)
    <3> SUFFICES ASSUME NEW r \in Requests, opened[r] = 1 \/ Listed(r) PROVE opened'[r] = 1
      BY <2>1 DEF Accounted
    <3> DEFINE places == {i \in DOMAIN released : released[i] = r}
    <3>1. opened'[r] = opened[r] + Cardinality(places)
      BY <2>3 DEF EndPass, released
    <3>2. IsFiniteSet(places)
      <4>1. DOMAIN released = 1..Len(released) /\ Len(released) \in Nat  BY <1>2
      <4>2. IsFiniteSet(1..Len(released))  BY <4>1, FS_Interval
      <4> QED BY <4>1, <4>2, FS_Subset
    <3>3. Cardinality(places) \in Nat /\ (Cardinality(places) = 0 <=> places = {})
      BY <3>2, FS_CardinalityType, FS_EmptySet
    <3>4. opened[r] \in {0, 1} /\ opened'[r] \in {0, 1}  BY DEF ReleaseInv
    <3>5. Listed(r) => places # {}  OBVIOUS
    <3> QED BY <3>1, <3>3, <3>4, <3>5
  <2> QED BY <2>2, <2>3 DEF Answer
<1>5. \A r \in Requests : r \in event' \ event \/ Accounted(r) => Accounted(r)'
  BY <1>3, <1>4 DEF Accounted
<1>6. /\ \A r \in Requests : pc'[r] # "gone" => pc[r] # "gone"
      /\ \A r \in Requests : pc'[r] \in {"running", "dequeuing", "done"} =>
           pc[r] \in {"running", "dequeuing", "done"} \/ r \in event' \ cancelled
  <2>1. CASE AskNext(o, ok)
    BY <2>1 DEF AskNext
  <2>2. CASE EndPass(o, ok)
    <3>1. Resume(o)  BY <2>2 DEF EndPass
    <3> QED BY <3>1 DEF Resume, Woken, TypeOK, Owners
  <2> QED BY <2>1, <2>2 DEF Answer
<1>7. event \subseteq event'  BY <1>1 DEF Admit
<1> QED BY <1>1, <1>5, <1>6, <1>7 DEF AdmittedAccounted

LEMMA AccountedStep ==
  TypeOK /\ ReleaseInv /\ ReleaseInv' /\ PassAtHome /\ AdmittedAccounted /\ [Next]_vars
    => AdmittedAccounted'
<1> SUFFICES ASSUME TypeOK, ReleaseInv, ReleaseInv', PassAtHome, AdmittedAccounted, [Next]_vars
             PROVE  AdmittedAccounted'
  OBVIOUS
<1>1. ASSUME NEW r \in Requests, RejectFull(r) \/ Wake(r) \/ Age(r) PROVE AdmittedAccounted'
  <2>1. opened' = opened /\ event' = event /\ cancelled' = cancelled /\ pass' = pass
    BY <1>1 DEF RejectFull, Wake, Age
  <2>2. \A x \in Requests :
          /\ pc'[x] # "gone" => pc[x] # "gone"
          /\ pc'[x] \in {"running", "dequeuing", "done"} =>
               pc[x] \in {"running", "dequeuing", "done"} \/ x \in event \ cancelled
    BY <1>1 DEF RejectFull, Wake, Woken, Age, TypeOK
  <2> QED BY <2>1, <2>2, AccountedKept
<1>2. ASSUME NEW r \in Requests, Timeout(r) \/ Finish(r) \/ (Enqueue(r) /\ queue # {})
      PROVE  AdmittedAccounted'
  <2>1. /\ opened' = opened /\ event' = event /\ cancelled' = cancelled
        /\ pass[r].todo = {} /\ (pass' = pass \/ StartPass(r)) /\ r \in Owners
    BY <1>2 DEF Timeout, Finish, Enqueue, PassAtHome, Owners
  <2>2. \A x \in Requests :
          /\ pc'[x] # "gone" => pc[x] # "gone"
          /\ pc'[x] \in {"running", "dequeuing", "done"} =>
               pc[x] \in {"running", "dequeuing", "done"} \/ x \in event \ cancelled
    BY <1>2 DEF Timeout, Finish, Enqueue, TypeOK
  <2>3. \A o \in Owners : pass'[o].admitted = pass[o].admitted
    BY <2>1, StartPassKeepsLists
  <2> QED BY <2>1, <2>2, <2>3, AccountedKept
<1>3. ASSUME NEW r \in Requests, Enqueue(r), queue = {} PROVE AdmittedAccounted'
  <2>1. /\ event' = event \cup {r} /\ pass' = pass /\ cancelled' = cancelled
        /\ pc' = [pc EXCEPT ![r] = "running"]
        /\ opened' = [opened EXCEPT ![r] = @ + 1]
    BY <1>3 DEF Enqueue
  <2>2. pc[r] = "new" /\ opened[r] = 0
    BY <1>3 DEF Enqueue, ReleaseInv
  <2>3. Accounted(r)' /\ \A x \in Requests : Accounted(x) => Accounted(x)'
    BY <2>1, <2>2 DEF Accounted, AboutToReport, TypeOK
  <2> QED BY <2>1, <2>2, <2>3 DEF AdmittedAccounted, TypeOK
<1>4. ASSUME NEW r \in Requests, Leave(r) PROVE AdmittedAccounted'
  BY <1>4 DEF Leave, AdmittedAccounted, TypeOK
<1>5. CASE StartRecheck
  <2>1. /\ Recheck \in Owners /\ StartPass(Recheck) /\ pass[Recheck].todo = {}
        /\ UNCHANGED <<opened, event, cancelled, pc>>
    BY <1>5 DEF StartRecheck, Owners
  <2> QED BY <2>1, StartPassKeepsLists, AccountedKept
<1>6. ASSUME NEW s \in Sessions, CancelSession(s) PROVE AdmittedAccounted'
  <2>1. /\ UNCHANGED <<opened, pass, pc>> /\ event' \ cancelled' \subseteq event \ cancelled
    BY <1>6 DEF CancelSession, DropSession
  <2> QED BY <2>1, AccountedKept
<1>7. CASE UNCHANGED vars
  BY <1>7, AccountedKept DEF vars
<1> QED BY <1>1, <1>2, <1>3, <1>4, <1>5, <1>6, <1>7, AnswerAccounted DEF Next, RequestStep

(* When everything has come to rest and no task left while the queue held it, *)
(* every turn that ended was reported released once and ended once.           *)
THEOREM ReportsComplete == Spec => []ReportedAtRest
<1>1. Init => ReleaseInv /\ ReportInv
  BY DEF Init, ReleaseInv, ReportInv, ClosedWhenDone, PassAtHome, AdmittedAccounted,
         AboutToReport, NoPass, Owners
<1>2. TypeOK /\ ReleaseInv /\ ReportInv /\ [Next]_vars => (ReleaseInv /\ ReportInv)'
  BY ReleaseStep, ClosedStep, HomeStep, AccountedStep DEF ReportInv
<1>3. ReleaseInv /\ ReportInv => ReportedAtRest
  <2> SUFFICES ASSUME ReleaseInv, ReportInv, AtRest, \A r \in Requests : pc[r] # "gone",
                      NEW r \in Requests, pc[r] = "done"
               PROVE  opened[r] = closed[r]
    BY DEF ReportedAtRest
  <2>1. Accounted(r)  BY DEF ReportInv, AdmittedAccounted
  <2>2. \A o \in Owners : ~ AboutToReport(o, r)
    BY DEF AtRest, NoPass, AboutToReport
  <2> QED BY <2>1, <2>2 DEF Accounted, ReportInv, ClosedWhenDone
<1> QED BY <1>1, <1>2, <1>3, TypeCorrect, PTL DEF Spec

-----------------------------------------------------------------------------
(* Why only abandoned items wedge the queue.  An item that is not completed   *)
(* has a live task or one that was cancelled in the queue (NoOrphans), and a  *)
(* full queue holds an item that is not completed: dequeue pops everything    *)
(* once all that is queued is completed, and whatever removes an item that is *)
(* not completed leaves room.                                                 *)
NoOrphans ==
  \A r \in queue \ completed : pc[r] \in {"releasing", "waiting", "running", "gone"}

LifeInv ==
  /\ cancelled \cap queue = {}
  /\ \A r \in Requests : pc[r] = "new" => r \notin queue \cup cancelled \cup completed
  /\ \A r \in Requests : pc[r] = "dequeuing" => r \in completed
  /\ \A r \in Requests : pc[r] = "removing" => r \notin queue
  /\ NoOrphans
  /\ Cardinality(queue) <= MaxSize
  /\ Cardinality(queue) = MaxSize => queue \ completed # {}

LEMMA QueueFinite ==
  queue \subseteq Requests => IsFiniteSet(queue) /\ Cardinality(queue) \in Nat
  BY ConstantsAssumption, FS_Subset, FS_CardinalityType

(* A step that shrinks the queue, by nothing or by more, keeps the bounds.    *)
LEMMA RoomKept ==
  ASSUME TypeOK, LifeInv, queue' \subseteq queue, completed' = completed
  PROVE  /\ Cardinality(queue') <= MaxSize
         /\ Cardinality(queue') = MaxSize => queue' \ completed' # {}
<1>1. IsFiniteSet(queue) /\ Cardinality(queue) \in Nat
  BY QueueFinite DEF TypeOK
<1>2. /\ Cardinality(queue') <= Cardinality(queue)
      /\ Cardinality(queue) = Cardinality(queue') => queue' = queue
      /\ Cardinality(queue') \in Nat
  BY <1>1, FS_Subset, FS_CardinalityType
<1> QED BY <1>1, <1>2, ConstantsAssumption DEF LifeInv

LEMMA LifeEnqueue ==
  ASSUME TypeOK, LifeInv, NEW r \in Requests, Enqueue(r)
  PROVE  LifeInv'
<1>1. /\ pc[r] = "new" /\ queue' = queue \cup {r} /\ completed' = completed
      /\ cancelled' = cancelled /\ Cardinality(queue) < MaxSize
  BY DEF Enqueue
<1>2. /\ pc'[r] \in {"releasing", "running"}
      /\ \A x \in Requests : x # r => pc'[x] = pc[x]
  BY DEF Enqueue, TypeOK
<1>3. r \notin queue \cup cancelled \cup completed  BY <1>1 DEF LifeInv
<1>4. Cardinality(queue') <= MaxSize
  <2>1. IsFiniteSet(queue) /\ Cardinality(queue) \in Nat  BY QueueFinite DEF TypeOK
  <2>2. Cardinality(queue') = Cardinality(queue) + 1  BY <1>1, <1>3, <2>1, FS_AddElement
  <2> QED BY <1>1, <2>1, <2>2, ConstantsAssumption
<1>5. NoOrphans'
  BY <1>1, <1>2 DEF LifeInv, NoOrphans, TypeOK
<1> QED BY <1>1, <1>2, <1>3, <1>4, <1>5 DEF LifeInv

LEMMA LifeFinish ==
  ASSUME TypeOK, LifeInv, NEW r \in Requests, Finish(r)
  PROVE  LifeInv'
<1>1. /\ pc[r] = "running" /\ completed' = completed \cup {r}
      /\ queue' = queue \ Leading(completed') /\ cancelled' = cancelled
  BY DEF Finish
<1>2. /\ pc'[r] \in {"done", "dequeuing"}
      /\ \A x \in Requests : x # r => pc'[x] = pc[x]
  BY DEF Finish, TypeOK
<1>3. NoOrphans'
  BY <1>1, <1>2 DEF LifeInv, NoOrphans, TypeOK
<1>4. IsFiniteSet(queue) /\ Cardinality(queue) \in Nat /\ Cardinality(queue') <= Cardinality(queue)
  BY <1>1, QueueFinite, FS_Subset DEF TypeOK
<1>5. queue' \ completed' = {} => queue' = {}
  BY <1>1 DEF Leading
<1>6. Cardinality(queue') = MaxSize => queue' \ completed' # {}
  BY <1>5, FS_EmptySet, ConstantsAssumption
<1>7. Cardinality(queue') <= MaxSize
  <2>1. Cardinality(queue') \in Nat
    BY <1>1, <1>4, FS_Subset, FS_CardinalityType
  <2> QED BY <1>4, <2>1, ConstantsAssumption DEF LifeInv
<1> QED BY <1>1, <1>2, <1>3, <1>6, <1>7 DEF LifeInv

LEMMA LifeDrop ==
  ASSUME TypeOK, LifeInv, NEW s, DropSession(s)
  PROVE  /\ queue' = {r \in queue : SessionOf[r] # s}
         /\ cancelled' \cap queue' = {}
         /\ \A r \in Requests : pc[r] = "new" => r \notin queue' \cup cancelled'
  BY DEF DropSession, LifeInv

LEMMA LifeStep == TypeOK /\ LifeInv /\ [Next]_vars => LifeInv'
<1> SUFFICES ASSUME TypeOK, LifeInv, [Next]_vars PROVE LifeInv'  OBVIOUS
<1>1. ASSUME NEW r \in Requests, RejectFull(r) PROVE LifeInv'
  <2>1. /\ pc[r] = "new" /\ pc' = [pc EXCEPT ![r] = "rejected"]
        /\ queue' = queue /\ completed' = completed /\ cancelled' = cancelled
    BY <1>1 DEF RejectFull
  <2>2. pc'[r] = "rejected" /\ \A x \in Requests : x # r => pc'[x] = pc[x]
    BY <2>1 DEF TypeOK
  <2>3. NoOrphans'  BY <2>1, <2>2 DEF LifeInv, NoOrphans, TypeOK
  <2> QED BY <2>1, <2>2, <2>3, RoomKept DEF LifeInv
<1>2. ASSUME NEW r \in Requests, Wake(r) PROVE LifeInv'
  <2>1. /\ pc[r] = "waiting" /\ pc' = [pc EXCEPT ![r] = Woken(r)]
        /\ queue' = queue /\ completed' = completed /\ cancelled' = cancelled
    BY <1>2 DEF Wake
  <2>2. /\ pc'[r] = Woken(r) /\ Woken(r) \in {"refused", "running"}
        /\ Woken(r) = "refused" => r \notin queue
        /\ \A x \in Requests : x # r => pc'[x] = pc[x]
    BY <2>1 DEF TypeOK, Woken, LifeInv
  <2>3. NoOrphans'  BY <2>1, <2>2 DEF LifeInv, NoOrphans, TypeOK
  <2> QED BY <2>1, <2>2, <2>3, RoomKept DEF LifeInv
<1>3. ASSUME NEW r \in Requests, Timeout(r) PROVE LifeInv'
  <2>1. /\ pc[r] = "waiting" /\ queue' = queue \ {r}
        /\ completed' = completed /\ cancelled' = cancelled
    BY <1>3 DEF Timeout
  <2>2. /\ pc'[r] \in {"removing", "timedout"}
        /\ \A x \in Requests : x # r => pc'[x] = pc[x]
    BY <1>3 DEF Timeout, TypeOK
  <2>3. NoOrphans'  BY <2>1, <2>2 DEF LifeInv, NoOrphans, TypeOK
  <2> QED BY <2>1, <2>2, <2>3, RoomKept DEF LifeInv
<1>4. ASSUME NEW r \in Requests, Age(r) PROVE LifeInv'
  <2>1. pc' = pc /\ queue' = queue /\ completed' = completed /\ cancelled' = cancelled
    BY <1>4 DEF Age
  <2> QED BY <2>1, RoomKept DEF LifeInv, NoOrphans
<1>5. ASSUME NEW r \in Requests, Leave(r) PROVE LifeInv'
  <2>1. /\ pc[r] \in {"releasing", "waiting", "removing", "dequeuing"}
        /\ pc' = [pc EXCEPT ![r] = "gone"]
        /\ queue' = queue /\ completed' = completed /\ cancelled' = cancelled
    BY <1>5 DEF Leave
  <2>2. pc'[r] = "gone" /\ \A x \in Requests : x # r => pc'[x] = pc[x]
    BY <2>1 DEF TypeOK
  <2>3. NoOrphans'  BY <2>1, <2>2 DEF LifeInv, NoOrphans, TypeOK
  <2> QED BY <2>1, <2>2, <2>3, RoomKept DEF LifeInv
<1>6. ASSUME NEW o \in Owners, NEW ok \in BOOLEAN, AskNext(o, ok) PROVE LifeInv'
  <2>1. pc' = pc /\ queue' = queue /\ completed' = completed /\ cancelled' = cancelled
    BY <1>6 DEF AskNext
  <2> QED BY <2>1, RoomKept DEF LifeInv, NoOrphans
<1>7. ASSUME NEW o \in Owners, NEW ok \in BOOLEAN, EndPass(o, ok) PROVE LifeInv'
  <2>1. queue' = queue /\ completed' = completed /\ cancelled' = cancelled /\ Resume(o)
    BY <1>7 DEF EndPass
  <2>2. CASE pc' = pc
    BY <2>1, <2>2, RoomKept DEF LifeInv, NoOrphans
  <2>3. CASE pc' # pc
    <3>1. /\ o \in Requests
          /\ \A x \in Requests : x # o => pc'[x] = pc[x]
          /\ \/ pc[o] = "releasing" /\ pc'[o] \in {"running", "waiting"}
             \/ pc[o] = "releasing" /\ pc'[o] = "refused" /\ o \in cancelled
             \/ pc[o] = "removing" /\ pc'[o] = "timedout"
             \/ pc[o] = "dequeuing" /\ pc'[o] = "done"
      BY <2>1, <2>3 DEF Resume, Woken, TypeOK, Owners
    <3>2. NoOrphans'
      BY <2>1, <3>1 DEF LifeInv, NoOrphans, TypeOK
    <3> QED BY <2>1, <3>1, <3>2, RoomKept DEF LifeInv
  <2> QED BY <2>2, <2>3
<1>8. CASE StartRecheck
  <2>1. pc' = pc /\ queue' = queue /\ completed' = completed /\ cancelled' = cancelled
    BY <1>8 DEF StartRecheck
  <2> QED BY <2>1, RoomKept DEF LifeInv, NoOrphans
<1>9. ASSUME NEW s \in Sessions, CancelSession(s) PROVE LifeInv'
  <2>1. pc' = pc /\ completed' = completed /\ DropSession(s)
    BY <1>9 DEF CancelSession
  <2>2. /\ queue' \subseteq queue /\ cancelled' \cap queue' = {}
        /\ \A r \in Requests : pc[r] = "new" => r \notin queue' \cup cancelled'
    BY <2>1, LifeDrop
  <2> QED BY <2>1, <2>2, RoomKept DEF LifeInv, NoOrphans
<1>10. CASE UNCHANGED vars
  <2>1. pc' = pc /\ queue' = queue /\ completed' = completed /\ cancelled' = cancelled
    BY <1>10 DEF vars
  <2> QED BY <2>1, RoomKept DEF LifeInv, NoOrphans
<1> QED BY <1>1, <1>2, <1>3, <1>4, <1>5, <1>6, <1>7, <1>8, <1>9, <1>10,
           LifeEnqueue, LifeFinish DEF Next, RequestStep, Answer

(* A queue is full for good only if a task was cancelled in it and its item   *)
(* is still there: with every other way a request can end, one in a full list *)
(* is alive.                                                                  *)
THEOREM OnlyLeaversWedge == Spec => []WedgedByLeaversOnly
<1>1. Init => LifeInv
  BY FS_EmptySet, ConstantsAssumption DEF Init, LifeInv, NoOrphans
<1>2. TypeOK /\ LifeInv /\ [Next]_vars => LifeInv'  BY LifeStep
<1>3. TypeOK /\ LifeInv => WedgedByLeaversOnly
  <2> SUFFICES ASSUME TypeOK, LifeInv, Cardinality(queue) >= MaxSize, Abandoned = {}
               PROVE  \E r \in queue : pc[r] \in {"releasing", "waiting", "running"}
    BY DEF WedgedByLeaversOnly
  <2>1. Cardinality(queue) \in Nat  BY QueueFinite DEF TypeOK
  <2>2. PICK r \in queue \ completed : TRUE  BY <2>1, ConstantsAssumption DEF LifeInv
  <2>3. pc[r] # "gone"  BY DEF Abandoned
  <2> QED BY <2>3 DEF LifeInv, NoOrphans
<1> QED BY <1>1, <1>2, <1>3, TypeCorrect, PTL DEF Spec

-----------------------------------------------------------------------------
(* The queue implements Admission.  What a step needs to know: a request that *)
(* waits is in the list unless it was cancelled, and only requests that have  *)
(* finished are marked completed.                                             *)
PromiseInv ==
  /\ \A r \in Requests : pc[r] \in {"releasing", "waiting"} => r \in queue \cup cancelled
  /\ \A r \in completed : pc[r] \in {"dequeuing", "done", "gone"}

(* How the location of one task shows in Stage.                               *)
LEMMA StageMoves ==
  ASSUME TypeOK, NEW r \in Requests, \A x \in Requests : x # r => pc'[x] = pc[x]
  PROVE  Stage' = [Stage EXCEPT ![r] = Stage'[r]]
  BY DEF Stage

LEMMA StageKept ==
  ASSUME TypeOK, NEW r \in Requests, \A x \in Requests : x # r => pc'[x] = pc[x],
         Stage'[r] = Stage[r]
  PROVE  Stage' = Stage
  BY DEF Stage

LEMMA DropIsDrop ==
  ASSUME NEW s, DropSession(s)
  PROVE  /\ queue' = Promise!Without(s)
         /\ queue \subseteq queue' \cup cancelled'
         /\ cancelled \subseteq cancelled'
  BY DEF DropSession, Promise!Without

LEMMA PromiseStep ==
  TypeOK /\ PromiseInv /\ [Next]_vars => PromiseInv' /\ [Promise!Next]_(Promise!vars)
<1> SUFFICES ASSUME TypeOK, PromiseInv, [Next]_vars
             PROVE  PromiseInv' /\ [Promise!Next]_(Promise!vars)
  OBVIOUS
<1> USE DEF Promise!Next, Promise!vars
<1>1. ASSUME NEW r \in Requests, RejectFull(r)
      PROVE  PromiseInv' /\ [Promise!Next]_(Promise!vars)
  <2>1. /\ pc[r] = "new" /\ pc' = [pc EXCEPT ![r] = "rejected"]
        /\ Cardinality(queue) >= MaxSize
        /\ queue' = queue /\ completed' = completed /\ cancelled' = cancelled
    BY <1>1 DEF RejectFull
  <2>2. pc'[r] = "rejected" /\ \A x \in Requests : x # r => pc'[x] = pc[x]
    BY <2>1 DEF TypeOK
  <2>3. Promise!Refuse(r)
    <3>1. Stage[r] = "new" /\ Stage'[r] = "over"
      BY <2>1, <2>2 DEF Stage
    <3>2. Stage' = [Stage EXCEPT ![r] = "over"]
      BY <2>2, <3>1, StageMoves
    <3>3. ~ HasRoom(queue)
      BY <2>1, QueueFinite, ConstantsAssumption DEF HasRoom, TypeOK
    <3> QED BY <2>1, <3>1, <3>2, <3>3 DEF Promise!Refuse
  <2> QED BY <2>1, <2>2, <2>3 DEF PromiseInv, TypeOK
<1>2. ASSUME NEW r \in Requests, Enqueue(r)
      PROVE  PromiseInv' /\ [Promise!Next]_(Promise!vars)
  <2>1. /\ pc[r] = "new" /\ queue' = queue \cup {r} /\ completed' = completed
        /\ cancelled' = cancelled /\ Cardinality(queue) < MaxSize
    BY <1>2 DEF Enqueue
  <2>2. /\ pc'[r] \in {"releasing", "running"}
        /\ \A x \in Requests : x # r => pc'[x] = pc[x]
    BY <1>2 DEF Enqueue, TypeOK
  <2>3. Promise!Enter(r)
    <3>1. Stage[r] = "new" /\ Stage'[r] \in {"waiting", "admitted"}
      BY <2>1, <2>2 DEF Stage
    <3>2. Stage' = [Stage EXCEPT ![r] = Stage'[r]]
      BY <2>2, StageMoves
    <3> QED BY <2>1, <3>1, <3>2 DEF Promise!Enter, HasRoom
  <2> QED BY <2>1, <2>2, <2>3 DEF PromiseInv, TypeOK
<1>3. ASSUME NEW r \in Requests, Wake(r)
      PROVE  PromiseInv' /\ [Promise!Next]_(Promise!vars)
  <2>1. /\ pc[r] = "waiting" /\ pc' = [pc EXCEPT ![r] = Woken(r)]
        /\ queue' = queue /\ completed' = completed /\ cancelled' = cancelled
    BY <1>3 DEF Wake
  <2>2. /\ pc'[r] = Woken(r) /\ Woken(r) \in {"refused", "running"}
        /\ Woken(r) = "running" => r \in queue
        /\ \A x \in Requests : x # r => pc'[x] = pc[x]
    BY <2>1 DEF TypeOK, Woken, PromiseInv
  <2>3. Promise!Admit(r) \/ Promise!GiveUp(r)
    BY <2>1, <2>2, StageMoves DEF Promise!Admit, Promise!GiveUp, Stage
  <2> QED BY <2>1, <2>2, <2>3 DEF PromiseInv, TypeOK
<1>4. ASSUME NEW r \in Requests, Timeout(r)
      PROVE  PromiseInv' /\ [Promise!Next]_(Promise!vars)
  <2>1. /\ pc[r] = "waiting" /\ queue' = queue \ {r}
        /\ completed' = completed /\ cancelled' = cancelled
    BY <1>4 DEF Timeout
  <2>2. /\ pc'[r] \in {"removing", "timedout"}
        /\ \A x \in Requests : x # r => pc'[x] = pc[x]
    BY <1>4 DEF Timeout, TypeOK
  <2>3. Promise!GiveUp(r)
    BY <2>1, <2>2, StageMoves DEF Promise!GiveUp, Stage
  <2> QED BY <2>1, <2>2, <2>3 DEF PromiseInv, TypeOK
<1>5. ASSUME NEW r \in Requests, Age(r)
      PROVE  PromiseInv' /\ [Promise!Next]_(Promise!vars)
  BY <1>5 DEF Age, PromiseInv, Stage
<1>6. ASSUME NEW r \in Requests, Finish(r)
      PROVE  PromiseInv' /\ [Promise!Next]_(Promise!vars)
  <2>1. /\ pc[r] = "running" /\ completed' = completed \cup {r}
        /\ queue' = queue \ Leading(completed') /\ cancelled' = cancelled
    BY <1>6 DEF Finish
  <2>2. /\ pc'[r] \in {"done", "dequeuing"}
        /\ \A x \in Requests : x # r => pc'[x] = pc[x]
    BY <1>6 DEF Finish, TypeOK
  <2>3. queue' \subseteq queue /\ queue \ queue' \subseteq completed'
    BY <2>1 DEF Leading
  <2>4. PromiseInv'
    BY <2>1, <2>2, <2>3 DEF PromiseInv, TypeOK, Leading
  <2>5. \A x \in queue \ queue' : Stage'[x] = "over"
    BY <2>3, <2>4 DEF PromiseInv, Stage, TypeOK
  <2>6. Promise!Finish(r)
    <3>1. Stage[r] = "admitted" /\ Stage' = [Stage EXCEPT ![r] = "over"]
      BY <2>1, <2>2, StageMoves DEF Stage
    <3>2. queue' = queue \ (queue \ queue')
      BY <2>3
    <3> QED BY <2>5, <3>1, <3>2 DEF Promise!Finish
  <2> QED BY <2>4, <2>6
<1>7. ASSUME NEW r \in Requests, Leave(r)
      PROVE  PromiseInv' /\ [Promise!Next]_(Promise!vars)
  <2>1. /\ pc[r] \in {"releasing", "waiting", "removing", "dequeuing"}
        /\ pc' = [pc EXCEPT ![r] = "gone"] /\ completed' = completed
    BY <1>7 DEF Leave
  <2>2. pc'[r] = "gone" /\ \A x \in Requests : x # r => pc'[x] = pc[x]
    BY <2>1 DEF TypeOK
  <2>3. /\ Stage[r] \in {"waiting", "over"} /\ Stage'[r] = "over"
        /\ Stage' = [Stage EXCEPT ![r] = "over"]
    BY <2>1, <2>2, StageMoves DEF Stage
  <2>4. Stage[r] = "over" => Stage' = Stage
    BY <2>2, <2>3, StageKept
  <2>5. queue' = queue /\ cancelled' = cancelled  BY <1>7 DEF Leave
  <2>6. Promise!GiveUp(r) \/ UNCHANGED <<queue, Stage>>
    BY <2>3, <2>4, <2>5 DEF Promise!GiveUp
  <2> QED BY <2>1, <2>2, <2>5, <2>6 DEF PromiseInv, TypeOK
<1>8. ASSUME NEW o \in Owners, NEW ok \in BOOLEAN, AskNext(o, ok)
      PROVE  PromiseInv' /\ [Promise!Next]_(Promise!vars)
  BY <1>8 DEF AskNext, PromiseInv, Stage
<1>9. ASSUME NEW o \in Owners, NEW ok \in BOOLEAN, EndPass(o, ok)
      PROVE  PromiseInv' /\ [Promise!Next]_(Promise!vars)
  <2>1. queue' = queue /\ completed' = completed /\ cancelled' = cancelled /\ Resume(o)
    BY <1>9 DEF EndPass
  <2>2. CASE pc' = pc
    BY <2>1, <2>2 DEF PromiseInv, Stage
  <2>3. CASE pc' # pc
    <3>1. /\ o \in Requests
          /\ \A x \in Requests : x # o => pc'[x] = pc[x]
          /\ \/ pc[o] = "releasing" /\ pc'[o] \in {"waiting", "refused"}
             \/ pc[o] = "releasing" /\ pc'[o] = "running" /\ o \notin cancelled
             \/ pc[o] = "removing" /\ pc'[o] = "timedout"
             \/ pc[o] = "dequeuing" /\ pc'[o] = "done"
      BY <2>1, <2>3 DEF Resume, Woken, TypeOK, Owners
    <3>2. PromiseInv'
      BY <2>1, <3>1 DEF PromiseInv, TypeOK
    <3>3. pc[o] = "releasing" /\ pc'[o] = "running" => o \in queue
      BY <3>1 DEF PromiseInv
    <3>4. Promise!Admit(o) \/ Promise!GiveUp(o) \/ UNCHANGED <<queue, Stage>>
      BY <2>1, <3>1, <3>3, StageMoves, StageKept DEF Promise!Admit, Promise!GiveUp, Stage
    <3> QED BY <3>1, <3>2, <3>4
  <2> QED BY <2>2, <2>3
<1>10. CASE StartRecheck
  BY <1>10 DEF StartRecheck, PromiseInv, Stage
<1>11. ASSUME NEW s \in Sessions, CancelSession(s)
       PROVE  PromiseInv' /\ [Promise!Next]_(Promise!vars)
  <2>1. /\ pc' = pc /\ completed' = completed /\ DropSession(s)
        /\ \E r \in queue : SessionOf[r] = s
    BY <1>11 DEF CancelSession
  <2>2. /\ queue' = Promise!Without(s)
        /\ queue \subseteq queue' \cup cancelled' /\ cancelled \subseteq cancelled'
    BY <2>1, DropIsDrop
  <2>3. Promise!Drop(s)
    BY <2>1, <2>2, ConstantsAssumption DEF Promise!Drop, Stage
  <2>4. PromiseInv'  BY <2>1, <2>2 DEF PromiseInv
  <2> QED BY <2>1, <2>3, <2>4 DEF TypeOK
<1>12. CASE UNCHANGED vars
  BY <1>12 DEF vars, PromiseInv, Stage
<1> QED BY <1>1, <1>2, <1>3, <1>4, <1>5, <1>6, <1>7, <1>8, <1>9, <1>10, <1>11, <1>12
        DEF Next, RequestStep, Answer

(* Whatever the requests, the sessions, the capacity and the order in which   *)
(* the passes, timeouts and cancellations run, the queue keeps the promises   *)
(* of Admission.                                                              *)
THEOREM QueueImplementsAdmission == Spec => KeepsPromise
<1>1. Init => Promise!Init
  BY DEF Init, Promise!Init, Stage
<1>2. Init => PromiseInv
  BY DEF Init, PromiseInv
<1>3. TypeOK /\ PromiseInv /\ [Next]_vars => PromiseInv' /\ [Promise!Next]_(Promise!vars)
  BY PromiseStep
<1> QED BY <1>1, <1>2, <1>3, TypeCorrect, PTL DEF Spec, KeepsPromise, Promise!Spec
=============================================================================
