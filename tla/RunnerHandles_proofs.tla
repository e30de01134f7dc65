------------------------ MODULE RunnerHandles_proofs ------------------------
(***************************************************************************)
(* Three invariants of RunnerHandles for any requests, runners and bounds: *)
(* the list for the cleanup is part of the registry of handles, a handle   *)
(* registered under the client's baseline leaves with it, and the types.   *)
(***************************************************************************)
EXTENDS RunnerHandles, TLAPS

(* What the two invariants need of the types.                              *)
Shape ==
  /\ boot \in [Endpoints -> Boots]
  /\ made \in [Endpoints -> 0..MaxServers]
  /\ live \subseteq Handles
  /\ active \subseteq Handles
  /\ owned \in [Endpoints -> SUBSET Handles]
  /\ baseline \in [Endpoints -> 0..MaxBoot]
  /\ left \subseteq Endpoints
  /\ pc \in [Requests -> Steps]
  /\ at \in [Requests -> Endpoints \cup {None}]
  /\ held \in [Requests -> Handles \cup {None}]
  /\ \A r \in Requests : pc[r] \in {"asking", "posting", "created"} => at[r] # None
  /\ \A r \in Requests : pc[r] \in {"created", "using", "releasing", "shutting"} => held[r] # None

Inv == Shape /\ ListIsActive /\ KnownHandlesMatch

(* The initial state has no handle.                                        *)
LEMMA InitInv == Init => Inv
  BY HandlesAssumption, NoneAssumption
  DEF Init, Inv, Shape, ListIsActive, KnownHandlesMatch, Boots, Steps, On

(* Forgetting a handle keeps both.                                         *)
LEMMA ForgetInv ==
  ASSUME Inv, NEW h \in Handles, Forget(h), UNCHANGED <<baseline, blind>>
  PROVE  /\ active' \subseteq Handles /\ owned' \in [Endpoints -> SUBSET Handles]
         /\ ListIsActive' /\ KnownHandlesMatch'
<1>1. h.host \in Endpoints
  BY DEF Handles
<1>2. active' \subseteq Handles /\ owned' \in [Endpoints -> SUBSET Handles]
  BY <1>1 DEF Inv, Shape, Forget
<1>3. ListIsActive'
  <2> SUFFICES ASSUME NEW e \in Endpoints, NEW g \in owned'[e]
               PROVE  g \in active' /\ g.host = e
    BY DEF ListIsActive, On
  <2>1. g \in owned[e] /\ (e = h.host => g # h)
    BY <1>1 DEF Forget, Inv, Shape
  <2>2. g \in active /\ g.host = e
    BY <2>1 DEF Inv, ListIsActive, On
  <2> QED BY <2>1, <2>2 DEF Forget
<1>4. KnownHandlesMatch'
  BY DEF Inv, KnownHandlesMatch, Forget
<1> QED BY <1>2, <1>3, <1>4

(* An epoch check keeps both: a first sighting finds no handle that is     *)
(* known, a changed epoch leaves none on the endpoint.                     *)
LEMMA ObserveInv ==
  ASSUME Inv, NEW e \in Endpoints, Observe(e), UNCHANGED blind
  PROVE  /\ active' \subseteq Handles /\ owned' \in [Endpoints -> SUBSET Handles]
         /\ baseline' \in [Endpoints -> 0..MaxBoot]
         /\ ListIsActive' /\ KnownHandlesMatch'
<1>1. boot[e] \in Boots /\ boot[e] \in 0..MaxBoot /\ 0 \notin Boots
  BY HandlesAssumption DEF Inv, Shape, Boots
<1>2. baseline' \in [Endpoints -> 0..MaxBoot]
  BY <1>1 DEF Observe, Inv, Shape
<1>3. /\ active' \subseteq active
      /\ owned' \in [Endpoints -> SUBSET Handles]
      /\ \A f \in Endpoints : owned'[f] \subseteq owned[f]
  BY DEF Observe, Inv, Shape
<1>4. ListIsActive'
  <2> SUFFICES ASSUME NEW f \in Endpoints, NEW h \in owned'[f]
               PROVE  h \in active' /\ h.host = f
    BY DEF ListIsActive, On
  <2>1. h \in active /\ h.host = f
    BY <1>3 DEF Inv, ListIsActive, On
  <2>2. h \in active'
    BY <2>1 DEF Observe, On, Inv, Shape
  <2> QED BY <2>1, <2>2
<1>5. KnownHandlesMatch'
  <2> SUFFICES ASSUME NEW h \in active', h \notin blind
               PROVE  baseline'[h.host] = h.boot
    BY DEF KnownHandlesMatch
  <2>1. h \in active /\ h \in Handles
    BY <1>3 DEF Inv, Shape
  <2>2. h.host \in Endpoints /\ h.boot \in Boots /\ baseline[h.host] = h.boot
    BY <2>1 DEF Handles, Inv, KnownHandlesMatch
  <2>3. h.host = e => baseline[e] = boot[e]
    BY <1>1, <2>1, <2>2 DEF Observe, On
  <2> QED BY <2>2, <2>3 DEF Observe, Inv, Shape
<1> QED BY <1>2, <1>3, <1>4, <1>5 DEF Inv, Shape

(* One step keeps the invariant.                                           *)
LEMMA StepInv == Inv /\ [Next]_vars => Inv'
<1> SUFFICES ASSUME Inv, [Next]_vars PROVE Inv'
  OBVIOUS
<1> USE DEF Inv
<1>a. ASSUME UNCHANGED <<active, owned, baseline, blind>>
      PROVE  ListIsActive' /\ KnownHandlesMatch'
  BY <1>a DEF ListIsActive, KnownHandlesMatch, On
<1>1. ASSUME NEW r \in Requests, RequestStep(r) PROVE Inv'
  <2>1. CASE Begin(r) \/ GiveUp(r) \/ Release(r)
    BY <2>1, <1>a DEF Begin, GiveUp, Release, Goto, Shape, Steps, runnerVars, clientVars
  <2>2. ASSUME NEW e \in Endpoints, Try(r, e) PROVE Inv'
    <3>1. Shape'
      BY <2>2, NoneAssumption DEF Try, Goto, Shape, Steps, runnerVars, clientVars
    <3> QED BY <2>2, <3>1, <1>a DEF Try, clientVars
  <2>3. CASE CheckEpoch(r)
    <3>1. at[r] \in Endpoints
      BY <2>3 DEF CheckEpoch, Shape
    <3>2. /\ boot' = boot /\ made' = made /\ live' = live /\ left' = left
          /\ blind' = blind /\ held' = held
      BY <2>3 DEF CheckEpoch, runnerVars
    <3>3. /\ active' \subseteq Handles /\ owned' \in [Endpoints -> SUBSET Handles]
          /\ baseline' \in [Endpoints -> 0..MaxBoot]
          /\ ListIsActive' /\ KnownHandlesMatch'
      <4>1. CASE Observe(at[r])
        BY <3>1, <3>2, <4>1, ObserveInv
      <4>2. CASE UNCHANGED clientVars
        BY <3>2, <4>2, <1>a DEF clientVars, Shape
      <4> QED BY <2>3, <4>1, <4>2 DEF CheckEpoch
    <3>4. /\ pc' \in [Requests -> Steps]
          /\ at' \in [Requests -> Endpoints \cup {None}]
          /\ \A q \in Requests : pc'[q] \in {"asking", "posting", "created"} => at'[q] # None
          /\ \A q \in Requests : pc'[q] \in {"created", "using", "releasing", "shutting"} => held[q] # None
      BY <2>3, <3>1 DEF CheckEpoch, Goto, Shape, Steps
    <3> QED BY <3>2, <3>3, <3>4 DEF Shape
  <2>4. CASE Busy(r)
    <3>1. held[r] \in Handles /\ held[r].host \in Endpoints
      BY <2>4 DEF Busy, Shape, Handles
    <3>2. Shape'
      BY <2>4, <3>1, NoneAssumption DEF Busy, Goto, Shape, Steps, runnerVars, clientVars
    <3> QED BY <2>4, <3>2, <1>a DEF Busy, clientVars
  <2>5. CASE Create(r)
    <3>1. at[r] \in Endpoints
      BY <2>5 DEF Create, Shape
    <3>2. PICK h \in Handles : /\ held' = [held EXCEPT ![r] = h]
                               /\ live' \subseteq live \cup {h}
                               /\ made' \in [Endpoints -> 0..MaxServers]
      <4>1. CASE \E h \in On(at[r], live) : held' = [held EXCEPT ![r] = h] /\ UNCHANGED <<made, live>>
        BY <4>1 DEF On, Shape
      <4>2. CASE /\ made[at[r]] < MaxServers
                 /\ held' = [held EXCEPT ![r] = [host |-> at[r], boot |-> boot[at[r]], n |-> made[at[r]] + 1]]
                 /\ made' = [made EXCEPT ![at[r]] = @ + 1]
                 /\ live' = live \cup {[host |-> at[r], boot |-> boot[at[r]], n |-> made[at[r]] + 1]}
        <5>1. made[at[r]] + 1 \in 1..MaxServers
          BY <3>1, <4>2, HandlesAssumption DEF Shape
        <5>2. [host |-> at[r], boot |-> boot[at[r]], n |-> made[at[r]] + 1] \in Handles
          BY <3>1, <5>1 DEF Handles, Shape
        <5>3. made' \in [Endpoints -> 0..MaxServers]
          BY <3>1, <4>2, <5>1, HandlesAssumption DEF Shape
        <5> QED BY <4>2, <5>2, <5>3
      <4> QED BY <2>5, <4>1, <4>2 DEF Create
    <3>3. /\ UNCHANGED <<boot, active, owned, baseline, left, at, blind>>
          /\ pc' = [pc EXCEPT ![r] = "created"]
      BY <2>5 DEF Create, Goto, clientVars
    <3>4. Shape'
      BY <3>1, <3>2, <3>3, NoneAssumption DEF Shape, Steps
    <3> QED BY <3>3, <3>4, <1>a
  <2>6. CASE Register(r)
    <3> DEFINE h == held[r]
    <3>1. h \in Handles /\ h.host \in Endpoints
      BY <2>6 DEF Register, Shape, Handles
    <3>2. /\ active' = active \cup {h}
          /\ owned' = [owned EXCEPT ![h.host] = @ \cup {h}]
          /\ UNCHANGED <<baseline, boot, made, live, left, held>>
          /\ pc' = [pc EXCEPT ![r] = "using"]
          /\ at' = [at EXCEPT ![r] = None]
      BY <2>6 DEF Register, Goto, runnerVars
    <3>3. Shape'
      BY <2>6, <3>1, <3>2 DEF Register, Shape, Steps
    <3>4. ListIsActive'
      BY <3>1, <3>2 DEF ListIsActive, On, Shape
    <3>5. KnownHandlesMatch'
      <4> SUFFICES ASSUME NEW g \in active', g \notin blind'
                   PROVE  baseline[g.host] = g.boot
        BY <3>2 DEF KnownHandlesMatch
      <4>1. CASE g = h
        BY <2>6, <4>1 DEF Register
      <4>2. CASE g # h
        BY <2>6, <3>2, <4>2 DEF Register, KnownHandlesMatch
      <4> QED BY <4>1, <4>2
    <3> QED BY <3>3, <3>4, <3>5
  <2>7. CASE Refused(r) \/ Fails(r)
    <3>1. Shape'
      BY <2>7 DEF Refused, Fails, Trip, Goto, Shape, Steps, runnerVars, clientVars
    <3> QED BY <2>7, <3>1, <1>a DEF Refused, Fails, clientVars
  <2>8. CASE Released(r) \/ ShutDown(r)
    <3>1. held[r] \in Handles /\ Forget(held[r]) /\ UNCHANGED <<baseline, blind>>
      BY <2>8 DEF Released, ShutDown, Shape
    <3>2. /\ active' \subseteq Handles /\ owned' \in [Endpoints -> SUBSET Handles]
          /\ ListIsActive' /\ KnownHandlesMatch'
      BY <3>1, ForgetInv
    <3>3. Shape'
      BY <2>8, <3>2 DEF Released, ShutDown, Goto, Shape, Steps, runnerVars
    <3> QED BY <3>2, <3>3
  <2>9. CASE Abandon(r)
    <3>1. Shape'
      BY <2>9 DEF Abandon, Goto, Shape, Steps, runnerVars, clientVars
    <3> QED BY <2>9, <3>1, <1>a DEF Abandon, clientVars
  <2> QED BY <1>1, <2>1, <2>2, <2>3, <2>4, <2>5, <2>6, <2>7, <2>8, <2>9 DEF RequestStep
<1>2. ASSUME NEW e \in Endpoints,
             HealthFails(e) \/ WindowPasses(e) \/ StartCleanup(e) \/ Restart(e)
      PROVE  Inv'
  <2>1. CASE HealthFails(e) \/ WindowPasses(e)
    BY <2>1, <1>a DEF HealthFails, WindowPasses, Shape, runnerVars, clientVars, requestVars
  <2>2. CASE StartCleanup(e)
    <3>1. Shape'
      BY <2>2 DEF StartCleanup, Shape, runnerVars, requestVars
    <3>2. ListIsActive' /\ KnownHandlesMatch'
      BY <2>2 DEF StartCleanup, ListIsActive, KnownHandlesMatch, On, Shape
    <3> QED BY <3>1, <3>2
  <2>3. CASE Restart(e)
    <3>1. boot[e] + 1 \in Boots
      BY <2>3, HandlesAssumption DEF Restart, Shape, Boots
    <3>2. Shape'
      BY <2>3, <3>1, HandlesAssumption DEF Restart, Shape, On, clientVars, requestVars
    <3> QED BY <2>3, <3>2, <1>a DEF Restart, clientVars
  <2> QED BY <1>2, <2>1, <2>2, <2>3
<1>3. ASSUME NEW h \in Handles, Delete(h) \/ Probe(h) \/ Evict(h) PROVE Inv'
  <2>1. Shape'
    BY <1>3 DEF Delete, Probe, Evict, Shape, runnerVars, clientVars, requestVars
  <2> QED BY <1>3, <2>1, <1>a DEF Delete, Probe, Evict, clientVars
<1>4. CASE StartSweep \/ StartProbe
  <2>1. Shape'
    BY <1>4 DEF StartSweep, StartProbe, Shape, runnerVars, clientVars, requestVars
  <2> QED BY <1>4, <2>1, <1>a DEF StartSweep, StartProbe, clientVars
<1>5. CASE EndSweep
  <2>1. Shape'
    BY <1>5 DEF EndSweep, Shape, runnerVars, requestVars
  <2>2. ListIsActive'
    BY <1>5 DEF EndSweep, ListIsActive, On
  <2>3. KnownHandlesMatch'
    BY <1>5 DEF EndSweep, KnownHandlesMatch
  <2> QED BY <2>1, <2>2, <2>3
<1>6. ASSUME NEW e \in Endpoints, ProbeEpoch(e) PROVE Inv'
  <2>1. UNCHANGED <<boot, made, live, pc, at, held, blind>> /\ left' \subseteq Endpoints
    BY <1>6 DEF ProbeEpoch, Shape, runnerVars, requestVars
  <2>2. /\ active' \subseteq Handles /\ owned' \in [Endpoints -> SUBSET Handles]
        /\ baseline' \in [Endpoints -> 0..MaxBoot]
        /\ ListIsActive' /\ KnownHandlesMatch'
    <3>1. CASE Observe(e)
      BY <2>1, <3>1, ObserveInv
    <3>2. CASE UNCHANGED clientVars
      BY <2>1, <3>2, <1>a DEF clientVars, Shape
    <3> QED BY <1>6, <3>1, <3>2 DEF ProbeEpoch
  <2> QED BY <2>1, <2>2 DEF Shape
<1>7. CASE UNCHANGED vars
  BY <1>7, <1>a DEF vars, Shape, runnerVars, clientVars, requestVars
<1> QED BY <1>1, <1>2, <1>3, <1>4, <1>5, <1>6, <1>7 DEF Next

(* What a cleanup may kill is always still registered (release_server,      *)
(* shutdown_server, the epoch purge, the health loop, _cleanup_endpoint).   *)
THEOREM ListCorrect == Spec => []ListIsActive
<1>1. Inv => ListIsActive
  BY DEF Inv
<1> QED BY InitInv, StepInv, <1>1, PTL DEF Spec

(* A handle registered under the client's baseline leaves the registry with *)
(* it, whoever observes the new epoch (_check_runner_epoch).                *)
THEOREM KnownHandlesCorrect == Spec => []KnownHandlesMatch
<1>1. Inv => KnownHandlesMatch
  BY DEF Inv
<1> QED BY InitInv, StepInv, <1>1, PTL DEF Spec

-----------------------------------------------------------------------------
(* The circuit breaker, the health loop and the choices, which the registry *)
(* does not depend on.                                                      *)
Members ==
  /\ open \subseteq Endpoints /\ tripped \subseteq Endpoints /\ doomed \subseteq Handles
  /\ sweeping \in BOOLEAN /\ todo \subseteq Handles /\ bad \subseteq Handles
  /\ choices \in [Requests -> SUBSET Endpoints]
  /\ blind \subseteq Handles

LEMMA MembersStep == Inv /\ Members /\ [Next]_vars => Members'
<1> SUFFICES ASSUME Inv, Members, [Next]_vars PROVE Members'
  OBVIOUS
<1> USE DEF Members
<1>1. ASSUME NEW r \in Requests, RequestStep(r) PROVE Members'
  <2>1. CASE Begin(r) \/ GiveUp(r) \/ Release(r)
    BY <2>1 DEF Begin, GiveUp, Release, circuitVars, sweepVars
  <2>2. ASSUME NEW e \in Endpoints, Try(r, e) PROVE Members'
    BY <2>2 DEF Try, circuitVars, sweepVars
  <2>3. CASE CheckEpoch(r) \/ Busy(r) \/ Create(r)
    BY <2>3 DEF CheckEpoch, Busy, Create, circuitVars, sweepVars
  <2>4. CASE Register(r)
    <3>1. held[r] \in Handles  BY <2>4 DEF Register, Inv, Shape
    <3> QED BY <2>4, <3>1 DEF Register, sweepVars
  <2>5. CASE Refused(r)
    BY <2>5 DEF Refused, circuitVars, sweepVars
  <2>6. CASE Fails(r)
    <3>1. at[r] \in Endpoints  BY <2>6 DEF Fails, Inv, Shape
    <3> QED BY <2>6, <3>1 DEF Fails, Trip, sweepVars
  <2>7. CASE Released(r) \/ ShutDown(r) \/ Abandon(r)
    BY <2>7 DEF Released, ShutDown, Abandon, circuitVars, sweepVars
  <2> QED BY <1>1, <2>1, <2>2, <2>3, <2>4, <2>5, <2>6, <2>7 DEF RequestStep
<1>2. ASSUME NEW e \in Endpoints, HealthFails(e) \/ WindowPasses(e) PROVE Members'
  BY <1>2 DEF HealthFails, WindowPasses, Trip, sweepVars, requestVars
<1>3. ASSUME NEW e \in Endpoints, StartCleanup(e) \/ Restart(e) PROVE Members'
  BY <1>3 DEF StartCleanup, Restart, Inv, Shape, circuitVars, sweepVars, requestVars
<1>4. ASSUME NEW h \in Handles, Delete(h) \/ Probe(h) \/ Evict(h) PROVE Members'
  BY <1>4 DEF Delete, Probe, Evict, circuitVars, sweepVars, requestVars
<1>5. CASE StartSweep \/ EndSweep
  BY <1>5 DEF StartSweep, EndSweep, Round, Inv, Shape, circuitVars, requestVars
<1>6. CASE StartProbe
  BY <1>6 DEF StartProbe, circuitVars, sweepVars, requestVars
<1>7. ASSUME NEW e \in Endpoints, ProbeEpoch(e) PROVE Members'
  BY <1>7 DEF ProbeEpoch, circuitVars, sweepVars, requestVars
<1>8. CASE UNCHANGED vars
  BY <1>8 DEF vars, circuitVars, sweepVars, requestVars
<1> QED BY <1>1, <1>2, <1>3, <1>4, <1>5, <1>6, <1>7, <1>8 DEF Next

(* Every variable keeps its type, and a request that waits for a runner or   *)
(* uses a server knows which (acquire_server, release_server, the loops).    *)
THEOREM TypeCorrect == Spec => []TypeOK
<1>1. Init => Members
  BY DEF Init, Members
<1>2. Inv /\ Members => TypeOK
  BY DEF Inv, Shape, Members, TypeOK
<1> QED BY <1>1, <1>2, InitInv, StepInv, MembersStep, PTL DEF Spec
=============================================================================
