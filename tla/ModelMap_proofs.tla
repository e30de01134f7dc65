-------------------------- MODULE ModelMap_proofs ---------------------------
(***************************************************************************)
(* Type correctness of ModelMap and of its reference to the pending        *)
(* refresh, for any runners and any number of refreshes.                   *)
(***************************************************************************)
EXTENDS ModelMap, TLAPS

Inv == TypeOK /\ RefIsPending

LEMMA InitInv == Init => Inv
  BY DEF Init, Inv, TypeOK, RefIsPending, States, Pending

(* The tasks that a new refresh takes the place of.                        *)
LEMMA ReplaceInv ==
  ASSUME Inv, NEW t \in Tasks, Replace(t)
  PROVE  /\ job' \in [Jobs -> States] /\ job'[t] = "created"
         /\ waiting' \in [Jobs -> SUBSET Endpoints]
         /\ heard' \in [Jobs -> SUBSET Endpoints]
         /\ \A j \in Jobs : job[t] = "idle" /\ job'[j] # "asking" =>
              waiting'[j] = {} /\ heard'[j] = {}
<1>1. t \in Jobs /\ (ref # None => ref \in Jobs)
  BY DEF Jobs, Inv, TypeOK
<1>2. CASE ref = None
  BY <1>1, <1>2 DEF Replace, Inv, TypeOK, States, Pending
<1>3. CASE ref # None
  BY <1>1, <1>3 DEF Replace, Cancelled, Forgotten, Inv, TypeOK, States, Pending
<1> QED BY <1>2, <1>3

LEMMA StepInv == Inv /\ [Next]_vars => Inv'
<1> SUFFICES ASSUME Inv, [Next]_vars PROVE Inv'
  OBVIOUS
<1> USE DEF Inv
<1>0. Tasks \subseteq Jobs /\ Callers \subseteq Jobs
  BY DEF Jobs
<1>1. ASSUME NEW t \in Tasks, Schedule(t) PROVE Inv'
  <2>1. TypeOK'
    BY <1>1, ReplaceInv DEF Schedule, TypeOK
  <2>2. RefIsPending'
    BY <1>1, ReplaceInv DEF Schedule, RefIsPending, Pending
  <2> QED BY <2>1, <2>2
<1>2. ASSUME NEW t \in Tasks, Start(t) \/ CancelEnds(t) PROVE Inv'
  <2>1. TypeOK'
    BY <1>0, <1>2 DEF Start, CancelEnds, RefAfter, TypeOK, States, Pending
  <2>2. RefIsPending'
    BY <1>0, <1>2 DEF Start, CancelEnds, RefAfter, TypeOK, RefIsPending, Pending
  <2> QED BY <2>1, <2>2
<1>3. ASSUME NEW j \in Jobs, Ask(j) PROVE Inv'
  <2>1. TypeOK'
    BY <1>3 DEF Ask, TypeOK, States, Pending
  <2>2. RefIsPending'
    BY <1>0, <1>3 DEF Ask, TypeOK, RefIsPending, Pending
  <2> QED BY <2>1, <2>2
<1>4. ASSUME NEW j \in Jobs, Write(j) PROVE Inv'
  <2>1. ref' \in Tasks \cup {None} /\ (ref' # None => ref' = ref /\ j \notin Tasks)
    BY <1>4 DEF Write, RefAfter, TypeOK
  <2>2. TypeOK'
    BY <1>4, <2>1 DEF Write, Forgotten, TypeOK, States, Pending
  <2>3. RefIsPending'
    BY <1>0, <1>4, <2>1 DEF Write, TypeOK, RefIsPending, Pending
  <2> QED BY <2>2, <2>3
<1>5. ASSUME NEW j \in Jobs, NEW e \in Endpoints, Answer(j, e) PROVE Inv'
  BY <1>5 DEF Answer, TypeOK, RefIsPending, Pending
<1>6. ASSUME NEW e \in Endpoints, Invalidate(e) \/ Down(e) \/ Up(e) PROVE Inv'
  BY <1>6 DEF Invalidate, Down, Up, TypeOK, RefIsPending
<1>7. CASE UNCHANGED vars
  BY <1>7 DEF vars, TypeOK, RefIsPending
<1> QED BY <1>1, <1>2, <1>3, <1>4, <1>5, <1>6, <1>7 DEF Next

(* Type correctness of the map, the refreshes and the reference.           *)
THEOREM MapTypeCorrect == Spec => []TypeOK
<1>1. Inv => TypeOK
  BY DEF Inv
<1> QED BY InitInv, StepInv, <1>1, PTL DEF Spec

(* _refresh_task never names a task that is over.                          *)
THEOREM RefCorrect == Spec => []RefIsPending
<1>1. Inv => RefIsPending
  BY DEF Inv
<1> QED BY InitInv, StepInv, <1>1, PTL DEF Spec
=============================================================================
