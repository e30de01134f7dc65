-------------------------- MODULE SessionLifecycle --------------------------
(***************************************************************************)
(* Sessions around the priority queue: the registry of observed sessions   *)
(* and its gauge (queue_callbacks, session_registry), the table of         *)
(* in-flight tasks (session_tracking), the endpoint that cancels a session *)
(* (routers/session_admin) and the sweep of stale sessions.                *)
(*                                                                         *)
(* The queue is used through what Admission promises of it; a pass that    *)
(* sets the event of a request reports the release later, when it ends, so *)
(* the release, the report and the wake-up of the task are three steps.    *)
(***************************************************************************)
EXTENDS Integers, FiniteSets

CONSTANTS
  Requests,   \* the requests that may arrive
  Sessions,   \* session ids
  None,       \* no session id, no task
  SessionOf,  \* session_id of each request
  MaxSize     \* max_size of the queue

ASSUME SessionAssumption ==
  /\ IsFiniteSet(Sessions)
  /\ None \notin Sessions /\ None \notin Requests
  /\ SessionOf \in [Requests -> Sessions \cup {None}]

VARIABLES
  inside,    \* the requests in the queue
  stage,     \* new, waiting, admitted (the turn runs) or over
  released,  \* requests whose event a pass has set
  reported,  \* requests for which on_release was called
  registry,  \* the session ids in _session_state
  silent,    \* of these, the ones whose last_activity is over the stale timeout
  gauge,     \* the active_sessions gauge, over all labels
  inflight,  \* _in_flight_tasks
  told       \* requests whose task was asked to stop

queueVars == <<inside, stage, released>>
stateVars == <<reported, registry, silent, gauge>>
vars == <<queueVars, stateVars, inflight, told>>

HasRoom(S) == Cardinality(S) < MaxSize

Queue == INSTANCE Admission

TypeOK ==
  /\ inside \subseteq Requests
  /\ stage \in [Requests -> Queue!Stages]
  /\ released \subseteq Requests /\ reported \subseteq Requests
  /\ registry \subseteq Sessions /\ silent \subseteq registry
  /\ gauge \in Int
  /\ inflight \in [Sessions -> Requests \cup {None}]
  /\ told \subseteq Requests

Init ==
  /\ Queue!Init
  /\ released = {} /\ reported = {}
  /\ registry = {} /\ silent = {} /\ gauge = 0
  /\ inflight = [s \in Sessions |-> None]
  /\ told = {}

-----------------------------------------------------------------------------
(* What the queue calls back and what the request's task does around it.     *)

(* Mutant: every turn counts.                                                *)
EveryTurnOnRelease(r) ==
  /\ reported' = reported \cup {r}
  /\ registry' = registry \cup ({SessionOf[r]} \ {None})
  /\ silent' = silent \ {SessionOf[r]}
  /\ gauge' = IF SessionOf[r] = None THEN gauge ELSE gauge + 1

(* _on_release: the gauge counts the first turn of a session only.           *)
OnRelease(r) ==
  /\ reported' = reported \cup {r}
  /\ registry' = registry \cup ({SessionOf[r]} \ {None})
  /\ silent' = silent \ {SessionOf[r]}
  /\ gauge' = IF SessionOf[r] \in registry \cup {None} THEN gauge ELSE gauge + 1

(* register_session_task overwrites, unregister_session_task pops whatever    *)
(* task is in the table.                                                      *)
Register(r) ==
  inflight' = [s \in Sessions |-> IF s = SessionOf[r] THEN r ELSE inflight[s]]

(* Mutant: the entry is left to be overwritten by the next turn.              *)
LazyUnregister(s) == UNCHANGED inflight

Unregister(s) ==
  inflight' = [t \in Sessions |-> IF t = s THEN None ELSE inflight[t]]

(* enqueue(): a request alone in the queue is released, reported and running  *)
(* at once.                                                                   *)
Arrive(r) ==
  /\ Queue!Enter(r)
  /\ stage'[r] = "admitted" <=> inside = {}
  /\ UNCHANGED told
  /\ IF inside = {}
     THEN released' = released \cup {r} /\ OnRelease(r) /\ Register(r)
     ELSE UNCHANGED <<released, stateVars, inflight>>

Refuse(r) ==
  /\ Queue!Refuse(r)
  /\ UNCHANGED <<released, stateVars, inflight, told>>

(* A pass sets the event of r, and reports it when it ends, if it does.       *)
Release(r) ==
  /\ stage[r] = "waiting" /\ r \in inside \ released
  /\ released' = released \cup {r}
  /\ UNCHANGED <<inside, stage, stateVars, inflight, told>>

Report(r) ==
  /\ r \in released \ reported
  /\ OnRelease(r)
  /\ UNCHANGED <<queueVars, inflight, told>>

Wake(r) ==
  /\ r \in released
  /\ Queue!Admit(r)
  /\ Register(r)
  /\ UNCHANGED <<released, stateVars, told>>

(* A timeout, a cancelled item or a departed client.                          *)
GiveUp(r) ==
  /\ Queue!GiveUp(r)
  /\ UNCHANGED <<released, stateVars, inflight, told>>

(* A workflow that is cancelled, by the endpoint or by its client, drops the   *)
(* queued work of its session on the way out.                                 *)
Unwind(r) ==
  /\ stage[r] = "admitted" /\ SessionOf[r] # None
  /\ Queue!Drop(SessionOf[r])
  /\ UNCHANGED <<released, stateVars, inflight, told>>

(* The end of a turn, in the finally block of _enqueue_and_wait.              *)
Finish(r) ==
  /\ Queue!Finish(r)
  /\ Unregister(SessionOf[r])
  /\ UNCHANGED <<released, stateVars, told>>

-----------------------------------------------------------------------------
(* Mutant: only the queued work is cancelled, as if the turn would notice.    *)
QueueOnlyStop(s) == UNCHANGED <<told, inflight>>

(* Mutant: the absence of a task is not looked at.                            *)
UncheckedStop(s) ==
  /\ told' = told \cup {inflight[s]}
  /\ Unregister(s)

(* cancel_session of session_tracking.                                        *)
Stop(s) ==
  /\ told' = told \cup ({inflight[s]} \ {None})
  /\ Unregister(s)

(* POST /internal/session/{id}/cancel: queued work, then the in-flight task,  *)
(* then the registry, without a suspension in between.                        *)
CancelSession(s) ==
  /\ Queue!Drop(s)
  /\ Stop(s)
  /\ registry' = registry \ {s}
  /\ silent' = silent \ {s}
  /\ gauge' = IF s \in registry THEN gauge - 1 ELSE gauge
  /\ UNCHANGED <<released, reported>>

(* Time: the session's last turn was released long ago.                       *)
GoSilent(s) ==
  /\ s \in registry \ silent
  /\ silent' = silent \cup {s}
  /\ UNCHANGED <<queueVars, reported, registry, gauge, inflight, told>>

(* Mutant: a session with a single turn is not looked at.                     *)
ManyTurnSweep ==
  LET stale == {s \in silent : \E q, r \in reported :
                  q # r /\ SessionOf[q] = s /\ SessionOf[r] = s} IN
  /\ stale # {}
  /\ registry' = registry \ stale
  /\ silent' = silent \ stale
  /\ gauge' = gauge - Cardinality(stale)
  /\ UNCHANGED <<queueVars, reported, inflight, told>>

(* One round of _cleanup_stale_sessions.                                      *)
Sweep ==
  /\ silent # {}
  /\ registry' = registry \ silent
  /\ silent' = {}
  /\ gauge' = gauge - Cardinality(silent)
  /\ UNCHANGED <<queueVars, reported, inflight, told>>

Next ==
  \/ \E r \in Requests :
       \/ Arrive(r) \/ Refuse(r) \/ Release(r) \/ Report(r) \/ Wake(r)
       \/ GiveUp(r) \/ Unwind(r) \/ Finish(r)
  \/ \E s \in Sessions : CancelSession(s) \/ GoSilent(s)
  \/ Sweep

Spec == Init /\ [][Next]_vars

(* Time passes and the sweep keeps running.  Nothing is assumed of clients,   *)
(* of turns or of the queue.                                                  *)
FairSpec == Spec /\ (\A s \in Sessions : WF_vars(GoSilent(s))) /\ WF_vars(Sweep)

-----------------------------------------------------------------------------
(* The gauge goes up on a session's first release and down in the sweep or in *)
(* the cancel endpoint; late reports of releases may bring a cancelled session *)
(* back.  It always is the number of sessions in the registry.                 *)
GaugeCountsSessions == gauge = Cardinality(registry)

(* The table never names a task whose turn is over, so a cancellation is never *)
(* spent on a task that ended while the turn of another one goes on.           *)
InFlightRuns ==
  \A s \in Sessions : inflight[s] # None =>
    stage[inflight[s]] = "admitted" /\ SessionOf[inflight[s]] = s

(* The endpoint reaches the request of a session that makes one request: after *)
(* it the request is not queued, and has been asked to stop if it runs,         *)
(* whichever point between release and registration it had reached.             *)
CancelReaches ==
  [][\A s \in Sessions, r \in Requests :
       /\ CancelSession(s)
       /\ {q \in Requests : SessionOf[q] = s} = {r}
       => r \notin inside' /\ (stage'[r] = "admitted" => r \in told')]_vars

(* Sessions do not pile up: one that has no further turn leaves the registry.   *)
EventuallyForgotten == <>[](registry = {})

=============================================================================
