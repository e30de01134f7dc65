----------------------- MODULE SessionLifecycle_proofs -----------------------
(* Theorems of SessionLifecycle, for any sessions, requests and capacity: types, *)
(* the gauge, the in-flight table and the reach of a cancellation.             *)
EXTENDS SessionLifecycle, FiniteSetTheorems, TLAPS

(* What the other proofs need of the types, and how a stage changes.           *)
Shape ==
  /\ stage \in [Requests -> Queue!Stages]
  /\ registry \subseteq Sessions /\ silent \subseteq registry
  /\ gauge \in Int
  /\ inflight \in [Sessions -> Requests \cup {None}]

LEMMA UnregisterEntry ==
  ASSUME Shape, NEW s, Unregister(s)
  PROVE  /\ inflight' \in [Sessions -> Requests \cup {None}]
         /\ \A t \in Sessions : inflight'[t] = IF t = s THEN None ELSE inflight[t]
  BY DEF Unregister, Shape

LEMMA RegisterEntry ==
  ASSUME Shape, NEW r \in Requests, Register(r)
  PROVE  /\ inflight' \in [Sessions -> Requests \cup {None}]
         /\ \A t \in Sessions : inflight'[t] = IF t = SessionOf[r] THEN r ELSE inflight[t]
  BY DEF Register, Shape

(* How many sessions the registry holds after one more, or some fewer.         *)
LEMMA RegistryFinite ==
  registry \subseteq Sessions => IsFiniteSet(registry) /\ Cardinality(registry) \in Nat
  BY SessionAssumption, FS_Subset, FS_CardinalityType

LEMMA OnReleaseShape ==
  ASSUME Shape, GaugeCountsSessions, NEW r \in Requests, OnRelease(r)
  PROVE  /\ registry' \subseteq Sessions /\ silent' \subseteq registry'
         /\ gauge' \in Int /\ GaugeCountsSessions'
<1>1. SessionOf[r] \in Sessions \cup {None}  BY SessionAssumption
<1>2. IsFiniteSet(registry) /\ Cardinality(registry) \in Nat
  BY RegistryFinite DEF Shape
<1>3. CASE SessionOf[r] \in registry \cup {None}
  <2>1. registry' = registry /\ gauge' = gauge
    BY <1>3, SessionAssumption DEF OnRelease, Shape
  <2> QED BY <2>1 DEF OnRelease, Shape, GaugeCountsSessions
<1>4. CASE SessionOf[r] \notin registry \cup {None}
  <2>1. registry' = registry \cup {SessionOf[r]} /\ gauge' = gauge + 1
    BY <1>4 DEF OnRelease
  <2>2. Cardinality(registry') = Cardinality(registry) + 1
    BY <1>2, <1>4, <2>1, FS_AddElement
  <2> QED BY <1>1, <1>2, <1>4, <2>1, <2>2 DEF OnRelease, Shape, GaugeCountsSessions
<1> QED BY <1>3, <1>4

-----------------------------------------------------------------------------
(* The two registries: the gauge is right, and an entry of the table belongs to *)
(* a running turn.                                                              *)
Registries == Shape /\ GaugeCountsSessions /\ InFlightRuns

LEMMA RegistriesInit == Init => Registries
  BY FS_EmptySet DEF Init, Registries, Shape, GaugeCountsSessions, InFlightRuns,
                     Queue!Init, Queue!Stages

(* A turn starts: its task takes the table entry of its session.                *)
LEMMA StartTurn ==
  ASSUME Registries, NEW r \in Requests, Register(r),
         stage' = [stage EXCEPT ![r] = "admitted"]
  PROVE  InFlightRuns' /\ inflight' \in [Sessions -> Requests \cup {None}]
         /\ stage' \in [Requests -> Queue!Stages]
<1>1. /\ inflight' \in [Sessions -> Requests \cup {None}]
      /\ \A t \in Sessions : inflight'[t] = IF t = SessionOf[r] THEN r ELSE inflight[t]
  BY RegisterEntry DEF Registries
<1>2. \A x \in Requests : stage[x] = "admitted" => stage'[x] = "admitted"
  BY DEF Registries, Shape
<1> QED BY <1>1, <1>2 DEF Registries, Shape, InFlightRuns, Queue!Stages

(* Steps that leave the registry and the table alone and end no turn.           *)
LEMMA RegistriesKept ==
  ASSUME Registries, UNCHANGED <<registry, silent, gauge, inflight>>,
         stage' \in [Requests -> Queue!Stages],
         \A x \in Requests : stage[x] = "admitted" => stage'[x] = "admitted"
  PROVE  Registries'
  BY SessionAssumption DEF Registries, Shape, GaugeCountsSessions, InFlightRuns

LEMMA RegistriesArrive ==
  ASSUME Registries, NEW r \in Requests, Arrive(r)
  PROVE  Registries'
<1>1. PICK next \in {"waiting", "admitted"} : stage' = [stage EXCEPT ![r] = next]
  BY DEF Arrive, Queue!Enter
<1>2. stage[r] = "new" /\ stage'[r] = next
  BY <1>1 DEF Arrive, Queue!Enter, Registries, Shape
<1>3. CASE inside = {}
  <2>1. next = "admitted" /\ Register(r) /\ OnRelease(r)
    BY <1>2, <1>3 DEF Arrive
  <2> QED BY <1>1, <2>1, StartTurn, OnReleaseShape DEF Registries, Shape
<1>4. CASE inside # {}
  <2>1. UNCHANGED <<registry, silent, gauge, inflight>>
    BY <1>4 DEF Arrive, stateVars
  <2>2. stage' \in [Requests -> Queue!Stages]
    BY <1>1 DEF Registries, Shape, Queue!Stages
  <2>3. \A x \in Requests : stage[x] = "admitted" => stage'[x] = "admitted"
    BY <1>1, <1>2 DEF Registries, Shape
  <2> QED BY <2>1, <2>2, <2>3, RegistriesKept
<1> QED BY <1>3, <1>4

LEMMA RegistriesStep == Registries /\ [Next]_vars => Registries'
<1> SUFFICES ASSUME Registries, [Next]_vars PROVE Registries'  OBVIOUS
<1>1. ASSUME NEW r \in Requests, Refuse(r) \/ GiveUp(r) PROVE Registries'
  <2>1. /\ stage[r] \in {"new", "waiting"} /\ stage' = [stage EXCEPT ![r] = "over"]
        /\ UNCHANGED <<registry, silent, gauge, inflight>>
    BY <1>1 DEF Refuse, GiveUp, Queue!Refuse, Queue!GiveUp, stateVars
  <2>2. /\ stage' \in [Requests -> Queue!Stages]
        /\ \A x \in Requests : stage[x] = "admitted" => stage'[x] = "admitted"
    BY <2>1 DEF Registries, Shape, Queue!Stages
  <2> QED BY <2>1, <2>2, RegistriesKept
<1>2. ASSUME NEW r \in Requests, Release(r) \/ Unwind(r) PROVE Registries'
  <2>1. stage' = stage /\ UNCHANGED <<registry, silent, gauge, inflight>>
    BY <1>2 DEF Release, Unwind, Queue!Drop, stateVars
  <2> QED BY <2>1, RegistriesKept DEF Registries, Shape
<1>3. ASSUME NEW r \in Requests, Report(r) PROVE Registries'
  <2>1. OnRelease(r) /\ stage' = stage /\ inflight' = inflight
    BY <1>3 DEF Report, queueVars
  <2> QED BY <2>1, OnReleaseShape DEF Registries, Shape, InFlightRuns
<1>4. ASSUME NEW r \in Requests, Wake(r) PROVE Registries'
  <2>1. /\ stage' = [stage EXCEPT ![r] = "admitted"] /\ Register(r)
        /\ UNCHANGED <<registry, silent, gauge>>
    BY <1>4 DEF Wake, Queue!Admit, stateVars
  <2>2. GaugeCountsSessions'  BY <2>1 DEF Registries, GaugeCountsSessions
  <2> QED BY <2>1, <2>2, StartTurn DEF Registries, Shape
<1>5. ASSUME NEW r \in Requests, Finish(r) PROVE Registries'
  <2>1. /\ stage[r] = "admitted" /\ stage' = [stage EXCEPT ![r] = "over"]
        /\ Unregister(SessionOf[r]) /\ UNCHANGED <<registry, silent, gauge>>
    BY <1>5 DEF Finish, Queue!Finish, stateVars
  <2>2. /\ inflight' \in [Sessions -> Requests \cup {None}]
        /\ \A t \in Sessions : inflight'[t] = IF t = SessionOf[r] THEN None ELSE inflight[t]
    BY <2>1, UnregisterEntry DEF Registries
  <2>3. InFlightRuns'
    BY <2>1, <2>2 DEF Registries, Shape, InFlightRuns
  <2> QED BY <2>1, <2>2, <2>3 DEF Registries, Shape, GaugeCountsSessions, Queue!Stages
<1>6. ASSUME NEW s \in Sessions, CancelSession(s) PROVE Registries'
  <2>1. /\ stage' = stage /\ Unregister(s)
        /\ registry' = registry \ {s} /\ silent' = silent \ {s}
        /\ gauge' = IF s \in registry THEN gauge - 1 ELSE gauge
    BY <1>6 DEF CancelSession, Stop, Queue!Drop
  <2>2. /\ inflight' \in [Sessions -> Requests \cup {None}]
        /\ \A t \in Sessions : inflight'[t] = IF t = s THEN None ELSE inflight[t]
    BY <2>1, UnregisterEntry DEF Registries
  <2>3. InFlightRuns'  BY <2>1, <2>2 DEF Registries, InFlightRuns
  <2>4. IsFiniteSet(registry) /\ Cardinality(registry) \in Nat
    BY RegistryFinite DEF Registries, Shape
  <2>5. GaugeCountsSessions'
    <3>1. CASE s \in registry
      <4>1. Cardinality(registry') = Cardinality(registry) - 1
        BY <2>1, <2>4, <3>1, FS_RemoveElement
      <4> QED BY <2>1, <3>1, <4>1 DEF Registries, GaugeCountsSessions
    <3>2. CASE s \notin registry
      <4>1. registry' = registry  BY <2>1, <3>2
      <4> QED BY <2>1, <3>2, <4>1 DEF Registries, GaugeCountsSessions
    <3> QED BY <3>1, <3>2
  <2> QED BY <2>1, <2>2, <2>3, <2>5 DEF Registries, Shape
<1>7. ASSUME NEW s \in Sessions, GoSilent(s) PROVE Registries'
  BY <1>7 DEF GoSilent, queueVars, Registries, Shape, GaugeCountsSessions, InFlightRuns
<1>8. CASE Sweep
  <2>1. /\ stage' = stage /\ inflight' = inflight
        /\ registry' = registry \ silent /\ silent' = {}
        /\ gauge' = gauge - Cardinality(silent)
    BY <1>8 DEF Sweep, queueVars
  <2>2. IsFiniteSet(registry) /\ Cardinality(registry) \in Nat
    BY RegistryFinite DEF Registries, Shape
  <2>3. /\ IsFiniteSet(silent) /\ Cardinality(silent) \in Nat
        /\ Cardinality(registry \ silent) = Cardinality(registry) - Cardinality(registry \cap silent)
    BY <2>2, FS_Subset, FS_CardinalityType, FS_Difference DEF Registries, Shape
  <2>4. registry \cap silent = silent  BY DEF Registries, Shape
  <2> QED BY <2>1, <2>2, <2>3, <2>4 DEF Registries, Shape, GaugeCountsSessions, InFlightRuns
<1>9. CASE UNCHANGED vars
  BY <1>9, RegistriesKept DEF vars, queueVars, stateVars, Registries, Shape
<1> QED BY <1>1, <1>2, <1>3, <1>4, <1>5, <1>6, <1>7, <1>8, <1>9, RegistriesArrive DEF Next

(* The active_sessions gauge is the number of sessions in the registry.         *)
THEOREM GaugeCorrect == Spec => []GaugeCountsSessions
<1>1. Registries => GaugeCountsSessions  BY DEF Registries
<1> QED BY <1>1, RegistriesInit, RegistriesStep, PTL DEF Spec

(* An entry of the in-flight table is the task of a running turn of its session. *)
THEOREM InFlightCorrect == Spec => []InFlightRuns
<1>1. Registries => InFlightRuns  BY DEF Registries
<1> QED BY <1>1, RegistriesInit, RegistriesStep, PTL DEF Spec

-----------------------------------------------------------------------------
(* The sets of requests, which the two registries do not depend on.             *)
Members ==
  /\ inside \subseteq Requests /\ released \subseteq Requests
  /\ reported \subseteq Requests /\ told \subseteq Requests

LEMMA MembersStep == Registries /\ Members /\ [Next]_vars => Members'
<1> SUFFICES ASSUME Registries, Members, [Next]_vars PROVE Members'  OBVIOUS
<1>1. ASSUME NEW r \in Requests, Arrive(r) PROVE Members'
  BY <1>1 DEF Arrive, Queue!Enter, OnRelease, stateVars, Members
<1>2. ASSUME NEW r \in Requests, Refuse(r) \/ Release(r) PROVE Members'
  BY <1>2 DEF Refuse, Release, Queue!Refuse, stateVars, Members
<1>3. ASSUME NEW r \in Requests, Report(r) \/ Wake(r) PROVE Members'
  BY <1>3 DEF Report, Wake, Queue!Admit, OnRelease, queueVars, stateVars, Members
<1>4. ASSUME NEW r \in Requests, GiveUp(r) PROVE Members'
  BY <1>4 DEF GiveUp, Queue!GiveUp, Queue!Without, stateVars, Members
<1>5. ASSUME NEW r \in Requests, Unwind(r) PROVE Members'
  BY <1>5 DEF Unwind, Queue!Drop, Queue!Without, stateVars, Members
<1>6. ASSUME NEW r \in Requests, Finish(r) PROVE Members'
  BY <1>6 DEF Finish, Queue!Finish, stateVars, Members
<1>7. ASSUME NEW s \in Sessions, CancelSession(s) PROVE Members'
  <2>1. inflight[s] \in Requests \cup {None}  BY DEF Registries, Shape
  <2> QED BY <1>7, <2>1 DEF CancelSession, Stop, Queue!Drop, Queue!Without, Members
<1>8. ASSUME NEW s \in Sessions, GoSilent(s) PROVE Members'
  BY <1>8 DEF GoSilent, queueVars, Members
<1>9. CASE Sweep \/ UNCHANGED vars
  BY <1>9 DEF Sweep, vars, queueVars, stateVars, Members
<1> QED BY <1>1, <1>2, <1>3, <1>4, <1>5, <1>6, <1>7, <1>8, <1>9 DEF Next

(* Every variable keeps its type; a silent session is always a registered one.  *)
THEOREM TypeCorrect == Spec => []TypeOK
<1>1. Init => Members  BY DEF Init, Queue!Init, Members
<1>2. Registries /\ Members => TypeOK  BY DEF Registries, Shape, Members, TypeOK
<1> QED BY <1>1, <1>2, RegistriesInit, RegistriesStep, MembersStep, PTL DEF Spec

-----------------------------------------------------------------------------
(* Why a cancellation cannot miss: the turn of a session's only request is in   *)
(* the table from the step that starts it, or has been asked to stop.           *)
Only(s, r) == {q \in Requests : SessionOf[q] = s} = {r}

Reachable ==
  \A s \in Sessions, r \in Requests :
    Only(s, r) /\ stage[r] = "admitted" => inflight[s] = r \/ r \in told

LEMMA StartTurnReachable ==
  ASSUME Registries, Reachable, NEW q \in Requests, Register(q), told' = told,
         stage' = [stage EXCEPT ![q] = "admitted"]
  PROVE  Reachable'
<1>1. \A t \in Sessions : inflight'[t] = IF t = SessionOf[q] THEN q ELSE inflight[t]
  BY RegisterEntry DEF Registries
<1>2. \A x \in Requests : x # q => stage'[x] = stage[x]
  BY DEF Registries, Shape
<1>3. \A s \in Sessions, r \in Requests : Only(s, r) => SessionOf[r] = s /\ (SessionOf[q] = s => q = r)
  BY DEF Only
<1> QED BY <1>1, <1>2, <1>3 DEF Reachable, Only

(* No turn starts, the table keeps its entries and nobody's order is revoked.    *)
LEMMA ReachableKept ==
  ASSUME Reachable, inflight' = inflight, told \subseteq told',
         \A x \in Requests : stage'[x] = "admitted" => stage[x] = "admitted"
  PROVE  Reachable'
  BY DEF Reachable, Only

LEMMA ReachableStep == Registries /\ Reachable /\ [Next]_vars => Reachable'
<1> SUFFICES ASSUME Registries, Reachable, [Next]_vars PROVE Reachable'  OBVIOUS
<1>1. ASSUME NEW r \in Requests, Arrive(r) PROVE Reachable'
  <2>1. PICK next \in {"waiting", "admitted"} : stage' = [stage EXCEPT ![r] = next]
    BY <1>1 DEF Arrive, Queue!Enter
  <2>2. stage'[r] = next /\ told' = told
    BY <1>1, <2>1 DEF Arrive, Registries, Shape
  <2>3. CASE inside = {}
    BY <1>1, <2>1, <2>2, <2>3, StartTurnReachable DEF Arrive
  <2>4. CASE inside # {}
    <3>1. next = "waiting" /\ inflight' = inflight
      BY <1>1, <2>2, <2>4 DEF Arrive
    <3> QED BY <2>1, <2>2, <3>1, ReachableKept DEF Registries, Shape
  <2> QED BY <2>3, <2>4
<1>2. ASSUME NEW r \in Requests, Refuse(r) \/ GiveUp(r) PROVE Reachable'
  <2>1. stage' = [stage EXCEPT ![r] = "over"] /\ inflight' = inflight /\ told' = told
    BY <1>2 DEF Refuse, GiveUp, Queue!Refuse, Queue!GiveUp
  <2> QED BY <2>1, ReachableKept DEF Registries, Shape
<1>3. ASSUME NEW r \in Requests, Release(r) \/ Unwind(r) \/ Report(r) PROVE Reachable'
  <2>1. stage' = stage /\ inflight' = inflight /\ told' = told
    BY <1>3 DEF Release, Unwind, Report, Queue!Drop, queueVars
  <2> QED BY <2>1, ReachableKept
<1>4. ASSUME NEW r \in Requests, Wake(r) PROVE Reachable'
  BY <1>4, StartTurnReachable DEF Wake, Queue!Admit
<1>5. ASSUME NEW q \in Requests, Finish(q) PROVE Reachable'
  <2>1. /\ stage' = [stage EXCEPT ![q] = "over"] /\ told' = told /\ Unregister(SessionOf[q])
    BY <1>5 DEF Finish, Queue!Finish
  <2>2. \A t \in Sessions : inflight'[t] = IF t = SessionOf[q] THEN None ELSE inflight[t]
    BY <2>1, UnregisterEntry DEF Registries
  <2>3. stage'[q] # "admitted" /\ \A x \in Requests : x # q => stage'[x] = stage[x]
    BY <2>1 DEF Registries, Shape
  <2>4. \A s \in Sessions, r \in Requests : Only(s, r) => (SessionOf[q] = s => q = r)
    BY DEF Only
  <2> QED BY <2>1, <2>2, <2>3, <2>4 DEF Reachable, Only
<1>6. ASSUME NEW s \in Sessions, CancelSession(s) PROVE Reachable'
  <2>1. stage' = stage /\ told' = told \cup ({inflight[s]} \ {None}) /\ Unregister(s)
    BY <1>6 DEF CancelSession, Stop, Queue!Drop
  <2>2. \A t \in Sessions : inflight'[t] = IF t = s THEN None ELSE inflight[t]
    BY <2>1, UnregisterEntry DEF Registries
  <2>3. \A r \in Requests : inflight[s] = r => r \in told'
    BY <2>1, SessionAssumption
  <2> QED BY <2>1, <2>2, <2>3 DEF Reachable, Only
<1>7. ASSUME NEW s \in Sessions, GoSilent(s) PROVE Reachable'
  BY <1>7, ReachableKept DEF GoSilent, queueVars
<1>8. CASE Sweep \/ UNCHANGED vars
  BY <1>8, ReachableKept DEF Sweep, vars, queueVars
<1> QED BY <1>1, <1>2, <1>3, <1>4, <1>5, <1>6, <1>7, <1>8 DEF Next

(* The cancel endpoint leaves the only request of a session neither queued nor  *)
(* running unasked, whichever point of its life it had reached.                 *)
THEOREM CancellationReaches == Spec => CancelReaches
<1>1. Init => Reachable
  BY DEF Init, Queue!Init, Reachable
<1>2. Registries /\ Reachable /\ [Next]_vars =>
        [\A s \in Sessions, r \in Requests :
           /\ CancelSession(s)
           /\ {q \in Requests : SessionOf[q] = s} = {r}
           => r \notin inside' /\ (stage'[r] = "admitted" => r \in told')]_vars
  <2> SUFFICES ASSUME Reachable, NEW s \in Sessions, NEW r \in Requests, CancelSession(s), Only(s, r)
               PROVE  r \notin inside' /\ (stage'[r] = "admitted" => r \in told')
    BY DEF Only
  <2>1. stage' = stage /\ inside' = Queue!Without(s) /\ told' = told \cup ({inflight[s]} \ {None})
    BY DEF CancelSession, Stop, Queue!Drop
  <2>2. SessionOf[r] = s  BY DEF Only
  <2>3. stage[r] = "admitted" => inflight[s] = r \/ r \in told
    BY DEF Reachable
  <2> QED BY <2>1, <2>2, <2>3, SessionAssumption DEF Queue!Without
<1> QED BY <1>1, <1>2, RegistriesInit, RegistriesStep, ReachableStep, PTL DEF Spec, CancelReaches
=============================================================================
