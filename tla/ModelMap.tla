------------------------------ MODULE ModelMap ------------------------------
(***************************************************************************)
(* The model map of RunnerClient: which runners host a model.  It is       *)
(* rebuilt by refreshes, that acquire_server schedules as tasks and that   *)
(* start-up, the health loop and the stale-server retry call directly, and *)
(* endpoints found unhealthy are taken out of it at once.                  *)
(*                                                                         *)
(* A refresh asks every runner and writes the whole map when all have      *)
(* answered; refreshes overlap.  A cancelled task runs its finally block   *)
(* only in a later turn of the event loop, and not at all if it had not    *)
(* begun.  Servers are acquired without end, and the name of a task that   *)
(* is over is used again.  One model is considered.                        *)
(***************************************************************************)
EXTENDS Integers, FiniteSets

CONSTANTS
  Endpoints, \* the runners
  Tasks,     \* scheduled refresh tasks; their number bounds how many are not over
  Callers,   \* the code that refreshes without a task
  None       \* no task

ASSUME MapAssumption == None \notin Tasks /\ Tasks \cap Callers = {}

VARIABLES
  up,      \* the runners that are up and list the model
  map,     \* _model_map of the model
  job,     \* state of every refresh
  waiting, \* endpoints a refresh has no answer from
  heard,   \* endpoints that answered it with the model
  ref,     \* _refresh_task
  due      \* history: endpoints that were missing when a server was acquired, and
           \* up ever since

vars == <<up, map, job, waiting, heard, ref, due>>

Jobs == Tasks \cup Callers
Pending == {"created", "sleeping", "asking"}
States == Pending \cup {"idle", "cancelled"}

TypeOK ==
  /\ up \subseteq Endpoints /\ map \subseteq Endpoints
  /\ job \in [Jobs -> States]
  /\ waiting \in [Jobs -> SUBSET Endpoints] /\ heard \in [Jobs -> SUBSET Endpoints]
  /\ ref \in Tasks \cup {None}
  /\ due \subseteq Endpoints
  /\ \A j \in Jobs : job[j] # "asking" => waiting[j] = {} /\ heard[j] = {}

Init ==
  /\ up = Endpoints /\ map = {}
  /\ job = [j \in Jobs |-> "idle"]
  /\ waiting = [j \in Jobs |-> {}] /\ heard = waiting
  /\ ref = None
  /\ due = {}

-----------------------------------------------------------------------------
(* Cancelling a task that has not begun ends it there.                       *)
Cancelled(state) == IF state = "created" THEN "idle" ELSE "cancelled"

Forgotten(f, t) == [f EXCEPT ![t] = {}]

(* Mutant: the requests of the cancelled task are not cancelled with it.     *)
LeakyReplace(t) ==
  /\ job' = IF ref = None THEN [job EXCEPT ![t] = "created"]
            ELSE [job EXCEPT ![ref] = Cancelled(@), ![t] = "created"]
  /\ UNCHANGED <<waiting, heard>>

(* The pending task is cancelled and a new one created.                      *)
Replace(t) ==
  IF ref = None
  THEN job' = [job EXCEPT ![t] = "created"] /\ UNCHANGED <<waiting, heard>>
  ELSE /\ job' = [job EXCEPT ![ref] = Cancelled(@), ![t] = "created"]
       /\ waiting' = Forgotten(waiting, ref)
       /\ heard' = Forgotten(heard, ref)

(* _schedule_refresh, at the end of acquire_server: any number of times.      *)
Schedule(t) ==
  /\ job[t] = "idle" /\ up # {}
  /\ Replace(t)
  /\ ref' = t
  /\ due' = due \cup (up \ map)
  /\ UNCHANGED <<up, map>>

Start(t) ==
  /\ job[t] = "created"
  /\ job' = [job EXCEPT ![t] = "sleeping"]
  /\ UNCHANGED <<up, map, waiting, heard, ref, due>>

(* refresh_model_map begins, when a task has slept or when it is called.      *)
Ask(j) ==
  /\ job[j] = IF j \in Tasks THEN "sleeping" ELSE "idle"
  /\ job' = [job EXCEPT ![j] = "asking"]
  /\ waiting' = [waiting EXCEPT ![j] = Endpoints]
  /\ UNCHANGED <<up, map, heard, ref, due>>

(* A runner answers, or it is down and the request fails.                    *)
Answer(j, e) ==
  /\ e \in waiting[j]
  /\ waiting' = [waiting EXCEPT ![j] = @ \ {e}]
  /\ heard' = [heard EXCEPT ![j] = @ \cup ({e} \cap up)]
  /\ UNCHANGED <<up, map, job, ref, due>>

(* Mutant: a task that is done stays the pending one.                        *)
KeptRef(j) == ref

(* Mutant: a task clears the reference only if it is its own.                *)
OwnRefAfter(j) == IF ref = j THEN None ELSE ref

(* The finally block clears the reference, whatever it points to.            *)
RefAfter(j) == IF j \in Tasks THEN None ELSE ref

(* All have answered: the map is replaced and the refresh ends.              *)
Write(j) ==
  /\ job[j] = "asking" /\ waiting[j] = {}
  /\ map' = heard[j]
  /\ job' = [job EXCEPT ![j] = "idle"]
  /\ heard' = Forgotten(heard, j)
  /\ ref' = RefAfter(j)
  /\ due' = due \ heard[j]
  /\ UNCHANGED <<up, waiting>>

CancelEnds(t) ==
  /\ job[t] = "cancelled"
  /\ job' = [job EXCEPT ![t] = "idle"]
  /\ ref' = RefAfter(t)
  /\ UNCHANGED <<up, map, waiting, heard, due>>

(* A health check that fails.                                                *)
Invalidate(e) ==
  /\ e \notin up
  /\ map' = map \ {e}
  /\ UNCHANGED <<up, job, waiting, heard, ref, due>>

Down(e) ==
  /\ e \in up
  /\ up' = up \ {e}
  /\ due' = due \ {e}
  /\ UNCHANGED <<map, job, waiting, heard, ref>>

Up(e) ==
  /\ e \notin up
  /\ up' = up \cup {e}
  /\ UNCHANGED <<map, job, waiting, heard, ref, due>>

Next ==
  \/ \E t \in Tasks : Schedule(t) \/ Start(t) \/ CancelEnds(t)
  \/ \E j \in Jobs : Ask(j) \/ Write(j) \/ \E e \in Endpoints : Answer(j, e)
  \/ \E e \in Endpoints : Invalidate(e) \/ Down(e) \/ Up(e)

Spec == Init /\ [][Next]_vars

(* The event loop runs every ready task, a sleep that is not cancelled ends,   *)
(* and a request to a runner ends by its answer or its timeout.  A task that   *)
(* was created begins in the next turn of the loop, so it is not every new     *)
(* task that another acquire cancels first.  Nothing makes servers be acquired *)
(* or direct refreshes be called, and nothing keeps them from it.              *)
FairSpec ==
  /\ Spec
  /\ SF_vars(\E t \in Tasks : Start(t))
  /\ \A t \in Tasks : WF_vars(Start(t)) /\ WF_vars(Ask(t)) /\ WF_vars(CancelEnds(t))
  /\ \A j \in Jobs : WF_vars(Write(j)) /\ \A e \in Endpoints : WF_vars(Answer(j, e))

-----------------------------------------------------------------------------
(* The reference is never left on a task that is over: the next acquire would  *)
(* cancel nothing, and shutdown would wait for a task that is not the one that *)
(* sleeps.                                                                     *)
RefIsPending == ref # None => job[ref] \in Pending

(* A runner that was missing when a server was acquired is found, unless it    *)
(* goes down, though servers may be acquired so often that every acquire       *)
(* cancels the refresh of the one before while it sleeps: the finally block of *)
(* the cancelled task clears the reference to its successor, which no acquire   *)
(* can cancel from then on.                                                    *)
FoundAgain == \A e \in Endpoints : e \in due ~> e \in map \/ e \notin up

(* "Schedule a model-map refresh after a delay, cancelling any pending one."   *)
(* No run checks it: a cancelled refresh clears its successor's reference.    *)
OnePending == Cardinality({t \in Tasks : job[t] \in Pending}) <= 1

=============================================================================
