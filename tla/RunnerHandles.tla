--------------------------- MODULE RunnerHandles ----------------------------
(***************************************************************************)
(* The handles that RunnerClient keeps of llama.cpp servers on the runners *)
(* (services/runner_client): acquiring and releasing them, detecting that  *)
(* a runner restarted by its startup epoch, the circuit breaker and the    *)
(* cleanup it starts, and the health loop that purges dead handles.        *)
(*                                                                         *)
(* A request walks from await to await; whatever runs between two of them  *)
(* is one action.  One model is served, so a runner has at most one server *)
(* and gives it to every request that asks.  Handles are values: requests  *)
(* that share a server hold equal handles, and the registry is a set.      *)
(***************************************************************************)
EXTENDS Integers, FiniteSets

CONSTANTS
  Requests,   \* requests that use a server
  Endpoints,  \* the runners
  None,       \* no endpoint, no handle
  MaxBoot,    \* bound on the boots of a runner
  MaxServers, \* bound on the servers it starts in one boot
  Flaky,      \* a health probe of a server that runs may fail
  Sweeps,     \* the health loop runs
  Revalidates \* revalidate_runner_handles is called

ASSUME HandlesAssumption ==
  /\ IsFiniteSet(Endpoints)
  /\ MaxBoot \in Nat \ {0} /\ MaxServers \in Nat \ {0}
  /\ Flaky \in BOOLEAN /\ Sweeps \in BOOLEAN /\ Revalidates \in BOOLEAN

Boots == 1..MaxBoot
Handles == [host : Endpoints, boot : Boots, n : 1..MaxServers]

ASSUME NoneAssumption == None \notin Endpoints /\ None \notin Handles

VARIABLES
  boot, made, live, \* the runners: startup epoch, servers started in it, servers up
  active,           \* _active_handles
  owned,            \* _active_servers_by_endpoint
  baseline,         \* _runner_epochs, 0 when unseen
  open,             \* endpoints with an open circuit breaker
  tripped, doomed,  \* cleanup tasks to start; servers they still have to delete
  sweeping, todo, bad, \* the health loop: in a round, handles to probe, handles to purge
  left,             \* revalidate_runner_handles: endpoints to check
  pc, at, held, choices, \* a request: step, endpoint, handle, endpoints to try
  blind             \* history: handles whose boot was not the baseline when they
                    \* were registered

runnerVars == <<boot, made, live>>
clientVars == <<active, owned, baseline>>
circuitVars == <<open, tripped, doomed>>
sweepVars == <<sweeping, todo, bad>>
requestVars == <<pc, at, held, choices>>
vars == <<runnerVars, clientVars, circuitVars, sweepVars, left, requestVars, blind>>

Steps == {"idle", "choosing", "asking", "posting", "created", "using",
          "releasing", "shutting"}

TypeOK ==
  /\ boot \in [Endpoints -> Boots] /\ made \in [Endpoints -> 0..MaxServers]
  /\ live \subseteq Handles /\ active \subseteq Handles
  /\ owned \in [Endpoints -> SUBSET Handles]
  /\ baseline \in [Endpoints -> 0..MaxBoot]
  /\ open \subseteq Endpoints /\ tripped \subseteq Endpoints /\ doomed \subseteq Handles
  /\ sweeping \in BOOLEAN /\ todo \subseteq Handles /\ bad \subseteq Handles
  /\ left \subseteq Endpoints
  /\ pc \in [Requests -> Steps] /\ at \in [Requests -> Endpoints \cup {None}]
  /\ held \in [Requests -> Handles \cup {None}]
  /\ choices \in [Requests -> SUBSET Endpoints]
  /\ blind \subseteq Handles
  /\ \A r \in Requests : pc[r] \in {"asking", "posting", "created"} => at[r] # None
  /\ \A r \in Requests : pc[r] \in {"created", "using", "releasing", "shutting"} => held[r] # None

On(e, S) == {h \in S : h.host = e}

(* r works with the server of h.                                             *)
Holds(r, h) == held[r] = h /\ pc[r] \in {"using", "asking"}

Init ==
  /\ boot = [e \in Endpoints |-> 1] /\ made = [e \in Endpoints |-> 0] /\ live = {}
  /\ active = {} /\ owned = [e \in Endpoints |-> {}] /\ baseline = [e \in Endpoints |-> 0]
  /\ open = {} /\ tripped = {} /\ doomed = {}
  /\ sweeping = FALSE /\ todo = {} /\ bad = {}
  /\ left = {}
  /\ pc = [r \in Requests |-> "idle"] /\ at = [r \in Requests |-> None]
  /\ held = [r \in Requests |-> None] /\ choices = [r \in Requests |-> {}]
  /\ blind = {}

-----------------------------------------------------------------------------
(* Updates that several operations make.                                     *)

(* Mutant: the registry is forgotten, the list for the cleanup is not.       *)
LeakyForget(h) ==
  /\ active' = active \ {h}
  /\ UNCHANGED owned

Forget(h) ==
  /\ active' = active \ {h}
  /\ owned' = [owned EXCEPT ![h.host] = @ \ {h}]

(* Mutant: the handles to purge are looked up in the list for the cleanup.   *)
ListedObserve(e) ==
  /\ baseline' = [baseline EXCEPT ![e] = boot[e]]
  /\ IF baseline[e] \in {0, boot[e]}
     THEN UNCHANGED <<active, owned>>
     ELSE /\ active' = active \ owned[e]
          /\ owned' = [owned EXCEPT ![e] = {}]

(* _check_runner_epoch, once /v1/status has answered.                        *)
Observe(e) ==
  /\ baseline' = [baseline EXCEPT ![e] = boot[e]]
  /\ IF baseline[e] \in {0, boot[e]}
     THEN UNCHANGED <<active, owned>>
     ELSE /\ active' = active \ On(e, active)
          /\ owned' = [owned EXCEPT ![e] = {}]

(* _trip_circuit_and_cleanup.                                                *)
Trip(e) ==
  /\ open' = open \cup {e}
  /\ tripped' = tripped \cup {e}
  /\ UNCHANGED doomed

Goto(r, step) == pc' = [pc EXCEPT ![r] = step]

-----------------------------------------------------------------------------
(* acquire_server.                                                           *)

Begin(r) ==
  /\ pc[r] = "idle"
  /\ Goto(r, "choosing")
  /\ choices' = [choices EXCEPT ![r] = Endpoints]
  /\ UNCHANGED <<runnerVars, clientVars, circuitVars, sweepVars, left, at, held, blind>>

(* Which endpoint comes next is the selector's business; it is not one with  *)
(* an open circuit.                                                          *)
Try(r, e) ==
  /\ pc[r] = "choosing" /\ e \in choices[r] \ open
  /\ Goto(r, "asking")
  /\ at' = [at EXCEPT ![r] = e]
  /\ choices' = [choices EXCEPT ![r] = @ \ {e}]
  /\ UNCHANGED <<runnerVars, clientVars, circuitVars, sweepVars, left, held, blind>>

GiveUp(r) ==
  /\ pc[r] = "choosing" /\ choices[r] \subseteq open
  /\ Goto(r, "idle")
  /\ choices' = [choices EXCEPT ![r] = {}]
  /\ UNCHANGED <<runnerVars, clientVars, circuitVars, sweepVars, left, at, held, blind>>

(* The epoch check of acquire_server, and that of proxy_request after a 503; *)
(* it may fail to reach the runner, and the request goes on all the same.    *)
CheckEpoch(r) ==
  /\ pc[r] = "asking"
  /\ Observe(at[r]) \/ UNCHANGED clientVars
  /\ IF held[r] = None
     THEN Goto(r, "posting") /\ UNCHANGED at
     ELSE Goto(r, "using") /\ at' = [at EXCEPT ![r] = None]
  /\ UNCHANGED <<runnerVars, circuitVars, sweepVars, left, held, choices, blind>>

Busy(r) ==
  /\ pc[r] = "using"
  /\ Goto(r, "asking")
  /\ at' = [at EXCEPT ![r] = held[r].host]
  /\ UNCHANGED <<runnerVars, clientVars, circuitVars, sweepVars, left, held, choices, blind>>

(* The runner answers POST /v1/server/create: with the server it has, or     *)
(* with a new one.                                                           *)
Create(r) ==
  LET e == at[r]
      fresh == [host |-> e, boot |-> boot[e], n |-> made[e] + 1]
  IN
  /\ pc[r] = "posting"
  /\ Goto(r, "created")
  /\ \/ \E h \in On(e, live) :
          /\ held' = [held EXCEPT ![r] = h]
          /\ UNCHANGED <<made, live>>
     \/ /\ On(e, live) = {} /\ made[e] < MaxServers
        /\ held' = [held EXCEPT ![r] = fresh]
        /\ made' = [made EXCEPT ![e] = @ + 1]
        /\ live' = live \cup {fresh}
  /\ UNCHANGED <<boot, clientVars, circuitVars, sweepVars, left, at, choices, blind>>

Register(r) ==
  LET h == held[r] IN
  /\ pc[r] = "created"
  /\ Goto(r, "using")
  /\ active' = active \cup {h}
  /\ owned' = [owned EXCEPT ![h.host] = @ \cup {h}]
  /\ open' = open \ {h.host}
  /\ blind' = IF baseline[h.host] = h.boot THEN blind \ {h} ELSE blind \cup {h}
  /\ at' = [at EXCEPT ![r] = None]
  /\ choices' = [choices EXCEPT ![r] = {}]
  /\ UNCHANGED <<runnerVars, baseline, tripped, doomed, sweepVars, left, held>>

(* 507 or a cold start: on to the next endpoint.                             *)
Refused(r) ==
  /\ pc[r] = "posting"
  /\ Goto(r, "choosing")
  /\ at' = [at EXCEPT ![r] = None]
  /\ UNCHANGED <<runnerVars, clientVars, circuitVars, sweepVars, left, held, choices, blind>>

(* Any other failure, the loss of the answer included.                       *)
Fails(r) ==
  /\ pc[r] \in {"posting", "created"}
  /\ Trip(at[r])
  /\ Goto(r, "choosing")
  /\ at' = [at EXCEPT ![r] = None]
  /\ held' = [held EXCEPT ![r] = None]
  /\ UNCHANGED <<runnerVars, clientVars, sweepVars, left, choices, blind>>

-----------------------------------------------------------------------------
(* release_server, shutdown_server and callers that do neither.              *)

Release(r) ==
  /\ pc[r] = "using"
  /\ Goto(r, "releasing")
  /\ UNCHANGED <<runnerVars, clientVars, circuitVars, sweepVars, left, at, held, choices, blind>>

(* Mutant: the handle is dropped with the release, before the shutdown.      *)
EarlyDetach(r) ==
  /\ pc[r] = "releasing"
  /\ Forget(held[r])
  /\ Goto(r, "idle") \/ Goto(r, "shutting")
  /\ held' = [held EXCEPT ![r] = None]
  /\ UNCHANGED <<runnerVars, baseline, circuitVars, sweepVars, left, at, choices, blind>>

(* The answer to the release, or its failure; image pipelines go on to shut  *)
(* the server down.                                                          *)
Released(r) ==
  /\ pc[r] = "releasing"
  /\ Forget(held[r])
  /\ \/ /\ Goto(r, "idle")
        /\ held' = [held EXCEPT ![r] = None]
     \/ /\ Goto(r, "shutting")
        /\ UNCHANGED held
  /\ UNCHANGED <<runnerVars, baseline, circuitVars, sweepVars, left, at, choices, blind>>

ShutDown(r) ==
  /\ pc[r] = "shutting"
  /\ live' \in {live, live \ {held[r]}}
  /\ Forget(held[r])
  /\ Goto(r, "idle")
  /\ held' = [held EXCEPT ![r] = None]
  /\ UNCHANGED <<boot, made, baseline, circuitVars, sweepVars, left, at, choices, blind>>

(* The memory tool and the dialog builder keep no hold of their embedding    *)
(* server and never release it.                                              *)
Abandon(r) ==
  /\ pc[r] = "using"
  /\ Goto(r, "idle")
  /\ held' = [held EXCEPT ![r] = None]
  /\ UNCHANGED <<runnerVars, clientVars, circuitVars, sweepVars, left, at, choices, blind>>

-----------------------------------------------------------------------------
(* Circuit breaker and cleanup.                                              *)

HealthFails(e) ==
  /\ e \notin open
  /\ Trip(e)
  /\ UNCHANGED <<runnerVars, clientVars, sweepVars, left, requestVars, blind>>

WindowPasses(e) ==
  /\ e \in open
  /\ open' = open \ {e}
  /\ UNCHANGED <<runnerVars, clientVars, tripped, doomed, sweepVars, left, requestVars, blind>>

(* _cleanup_endpoint takes the list first and deletes one server per await.  *)
StartCleanup(e) ==
  /\ e \in tripped
  /\ tripped' = tripped \ {e}
  /\ doomed' = doomed \cup owned[e]
  /\ owned' = [owned EXCEPT ![e] = {}]
  /\ UNCHANGED <<runnerVars, active, baseline, open, sweepVars, left, requestVars, blind>>

Delete(h) ==
  /\ h \in doomed
  /\ doomed' = doomed \ {h}
  /\ live' \in {live, live \ {h}}
  /\ UNCHANGED <<boot, made, clientVars, open, tripped, sweepVars, left, requestVars, blind>>

-----------------------------------------------------------------------------
(* The health loop: a copy of the registry is probed, one await per handle.  *)

(* Mutant: the list for the cleanup is probed instead of the registry.       *)
ListedRound == UNION {owned[e] : e \in Endpoints}

Round == active

StartSweep ==
  /\ Sweeps /\ ~sweeping /\ active # {}
  /\ sweeping' = TRUE
  /\ todo' = Round
  /\ UNCHANGED <<runnerVars, clientVars, circuitVars, bad, left, requestVars, blind>>

Probe(h) ==
  /\ h \in todo
  /\ todo' = todo \ {h}
  /\ bad' \in {IF h \in live THEN bad ELSE bad \cup {h},
               IF h \in live /\ ~Flaky THEN bad ELSE bad \cup {h}}
  /\ UNCHANGED <<runnerVars, clientVars, circuitVars, sweeping, left, requestVars, blind>>

EndSweep ==
  /\ sweeping /\ todo = {}
  /\ sweeping' = FALSE /\ bad' = {}
  /\ active' = active \ bad
  /\ owned' = [e \in Endpoints |-> owned[e] \ bad]
  /\ UNCHANGED <<runnerVars, baseline, circuitVars, todo, left, requestVars, blind>>

-----------------------------------------------------------------------------
(* revalidate_runner_handles: every known endpoint is checked, one per await. *)

StartProbe ==
  /\ Revalidates /\ left = {}
  /\ left' = {e \in Endpoints : baseline[e] # 0}
  /\ left' # {}
  /\ UNCHANGED <<runnerVars, clientVars, circuitVars, sweepVars, requestVars, blind>>

ProbeEpoch(e) ==
  /\ e \in left
  /\ left' = left \ {e}
  /\ Observe(e) \/ UNCHANGED clientVars
  /\ UNCHANGED <<runnerVars, circuitVars, sweepVars, requestVars, blind>>

-----------------------------------------------------------------------------
(* The runners: a restart loses every server, and servers are evicted.       *)

Restart(e) ==
  /\ boot[e] < MaxBoot
  /\ boot' = [boot EXCEPT ![e] = @ + 1]
  /\ made' = [made EXCEPT ![e] = 0]
  /\ live' = live \ On(e, live)
  /\ UNCHANGED <<clientVars, circuitVars, sweepVars, left, requestVars, blind>>

Evict(h) ==
  /\ h \in live
  /\ live' = live \ {h}
  /\ UNCHANGED <<boot, made, clientVars, circuitVars, sweepVars, left, requestVars, blind>>

RequestStep(r) ==
  \/ Begin(r) \/ (\E e \in Endpoints : Try(r, e)) \/ GiveUp(r) \/ CheckEpoch(r) \/ Busy(r)
  \/ Create(r) \/ Register(r) \/ Refused(r) \/ Fails(r)
  \/ Release(r) \/ Released(r) \/ ShutDown(r) \/ Abandon(r)

Next ==
  \/ \E r \in Requests : RequestStep(r)
  \/ \E e \in Endpoints : HealthFails(e) \/ WindowPasses(e) \/ StartCleanup(e) \/ Restart(e)
  \/ \E h \in Handles : Delete(h) \/ Probe(h) \/ Evict(h)
  \/ StartSweep \/ EndSweep
  \/ StartProbe \/ (\E e \in Endpoints : ProbeEpoch(e))

Spec == Init /\ [][Next]_vars

(* The health loop sleeps and wakes for ever, and every probe of it ends, by *)
(* an answer or by its timeout of 3 s.                                       *)
FairSpec ==
  /\ Spec
  /\ WF_vars(StartSweep) /\ WF_vars(EndSweep)
  /\ \A h \in Handles : WF_vars(Probe(h))

-----------------------------------------------------------------------------
(* What a tripped circuit will kill is always something the client still has  *)
(* a handle of: handles leave the registry on five paths, each of which must   *)
(* leave the list for the cleanup as well.                                     *)
ListIsActive == \A e \in Endpoints : owned[e] \subseteq On(e, active)

(* A handle registered while the client knew the runner's boot is forgotten    *)
(* with that boot: no purge leaves one behind, whatever releases, cleanups and *)
(* checks by several requests come between.                                    *)
KnownHandlesMatch == \A h \in active \ blind : baseline[h.host] = h.boot

(* The health loop forgets every handle of a server that is gone.              *)
DeadForgotten ==
  \A h \in Handles : (h \in active /\ h \notin live) ~> h \notin active

(* "Immediately open the circuit breaker and clean up orphaned servers."  No   *)
(* run checks it: the code deletes servers that others use as well.           *)
CleansOrphansOnly ==
  [][\A h \in Handles : Delete(h) => \A r \in Requests : ~Holds(r, h)]_vars

=============================================================================
