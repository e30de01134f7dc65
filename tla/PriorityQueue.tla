--------------------------- MODULE PriorityQueue ---------------------------
(***************************************************************************)
(* The asyncio priority queue that admits completion and image requests    *)
(* (services/priority_queue.py), with the life of the request tasks that   *)
(* use it (CompletionService._enqueue_and_wait, image_service._queued).    *)
(*                                                                         *)
(* Everything runs on one event loop and the queue's lock is never held    *)
(* across an await, so a critical section is one step.  What interleaves   *)
(* is what is suspended: a task waiting for its event, and a release pass  *)
(* (_release_eligible) waiting for the answer of _can_proceed.             *)
(*                                                                         *)
(* The Python list is always sorted by sort_key and its keys are distinct, *)
(* so the set of queued requests together with the order Before is that    *)
(* list, and Position(r) is the index of r in it.                          *)
(***************************************************************************)
EXTENDS Integers, FiniteSets, Sequences

CONSTANTS
  Requests,      \* the requests that may arrive; each one is one metadata object
  Sessions,      \* session ids
  None,          \* no session id, no model id, no candidate
  Recheck,       \* the background recheck task, owner of its own release passes
  SessionOf,     \* metadata.session_id of each request
  ModelOf,       \* metadata.model_id of each request
  FirstPriority, \* metadata.priority of each request when it is created
  MaxSize,       \* max_size of the queue
  ClockAhead,    \* clock readings exceed the values the enqueue counter reaches
  TimesOut,      \* requests whose wait may exceed their timeout
  Leaves,        \* requests whose task may be cancelled while it is suspended
  Cancellable    \* sessions an administrator or a dying workflow may cancel

High == 1
Medium == 2
Low == 3
Priority == {High, Medium, Low}

ASSUME ConstantsAssumption ==
  /\ IsFiniteSet(Requests)
  /\ Recheck \notin Requests
  /\ None \notin Sessions
  /\ SessionOf \in [Requests -> Sessions \cup {None}]
  /\ FirstPriority \in [Requests -> Priority]
  /\ MaxSize \in Nat \ {0}
  /\ ClockAhead \in BOOLEAN

VARIABLES
  queue,       \* the requests in _queue: waiting, running or completed
  prio,        \* metadata.priority
  arrival,     \* logical time of enqueue: orders both counter and enqueued_at
  aged,        \* requests whose sort_key was rebuilt from enqueued_at
  aging,       \* requests whose aging task exists and has not fired
  event,       \* requests whose event is set
  cancelled,   \* items with cancelled = True
  completed,   \* items with completed = True
  sizes,       \* _sizes
  gauge,       \* the exported queue size per priority
  lastServed,  \* _session_last_served, 0 for a session not in it
  clock,       \* logical time: advances with arrivals and with servings
  pc,          \* where the task of each request is
  pass,        \* the release pass each owner has under way
  opened,      \* how often on_release was called for each request
  closed       \* how often on_complete was called for each request

vars == <<queue, prio, arrival, aged, aging, event, cancelled, completed, sizes,
          gauge, lastServed, clock, pc, pass, opened, closed>>

Owners == Requests \cup {Recheck}

(* One (index, metadata) pair of a pass, with the priority group it was put in. *)
Candidate == [req : Requests, pos : Nat, rank : Priority]

NoPass == [todo |-> {}, asking |-> None, admitted |-> <<>>]

-----------------------------------------------------------------------------
(* The order of the list and what the code reads off it.                     *)

(* sort_key is (priority, counter), and (priority, enqueued_at) once aged.    *)
Before(x, y) ==
  \/ prio[x] < prio[y]
  \/ /\ prio[x] = prio[y]
     /\ IF x \in aged <=> y \in aged THEN arrival[x] < arrival[y]
                                     ELSE ClockAhead <=> y \in aged

Position(r) == Cardinality({x \in queue : Before(x, r)})

Pending == queue \ (event \cup completed)

Snapshot == {[req |-> r, pos |-> Position(r), rank |-> prio[r]] : r \in Pending}

Queued(p) == Cardinality({r \in queue : prio[r] = p})

(* Completed items with only completed items before them: what dequeue pops. *)
Leading(done) ==
  {r \in queue \cap done : \A x \in queue : Before(x, r) => x \in done}

AtLeastZero(n) == IF n < 0 THEN 0 ELSE n

HasHigherPriorityWaiting(r) ==
  /\ prio[r] = Low
  /\ \E x \in queue :
       /\ Before(r, x)
       /\ prio[x] = High
       /\ None \in {ModelOf[r], ModelOf[x]} \/ ModelOf[r] = ModelOf[x]

(* A session's last service, or the request's own arrival before the first.   *)
SessionScore(r) ==
  IF SessionOf[r] # None /\ lastServed[SessionOf[r]] > 0
  THEN lastServed[SessionOf[r]] ELSE arrival[r]

(* The candidate a pass asks about next: highest priority group, then least   *)
(* recently served session, then list order.                                  *)
AskedFirst(c, d) ==
  \/ c.rank < d.rank
  \/ c.rank = d.rank /\ SessionScore(c.req) < SessionScore(d.req)
  \/ c.rank = d.rank /\ SessionScore(c.req) = SessionScore(d.req) /\ c.pos <= d.pos

Selected(todo) == {c \in todo : \A d \in todo : AskedFirst(c, d)}

-----------------------------------------------------------------------------
Init ==
  /\ queue = {}
  /\ prio = FirstPriority
  /\ arrival = [r \in Requests |-> 0]
  /\ aged = {} /\ aging = {} /\ event = {} /\ cancelled = {} /\ completed = {}
  /\ sizes = [p \in Priority |-> 0]
  /\ gauge = sizes
  /\ lastServed = [s \in Sessions |-> 0]
  /\ clock = 0
  /\ pc = [r \in Requests |-> "new"]
  /\ pass = [o \in Owners |-> NoPass]
  /\ opened = [r \in Requests |-> 0]
  /\ closed = [r \in Requests |-> 0]

(* Mutant: the first candidate may be an item that this step takes out.       *)
StaleStartPass(o) ==
  \E c \in Selected(Snapshot \cup Snapshot') :
    pass' = [pass EXCEPT ![o] = [todo |-> Snapshot', asking |-> c, admitted |-> <<>>]]

(* Begin a pass over the items that are pending once this step is done.       *)
StartPass(o) ==
  \E c \in Selected(Snapshot') :
    pass' = [pass EXCEPT ![o] = [todo |-> Snapshot', asking |-> c, admitted |-> <<>>]]

(* Mutant: the items are counted before the list changes.                     *)
EarlyRecount(ps) ==
  sizes' = [p \in Priority |-> IF p \in ps THEN Queued(p) ELSE sizes[p]]

(* _sizes is recounted for some priorities from the list as it now is.        *)
Recount(ps) ==
  sizes' = [p \in Priority |-> IF p \in ps THEN Queued(p)' ELSE sizes[p]]

-----------------------------------------------------------------------------
(* enqueue()                                                                 *)

RejectFull(r) ==
  /\ pc[r] = "new"
  /\ Cardinality(queue) >= MaxSize
  /\ pc' = [pc EXCEPT ![r] = "rejected"]
  /\ UNCHANGED <<queue, prio, arrival, aged, aging, event, cancelled, completed,
                 sizes, gauge, lastServed, clock, pass, opened, closed>>

Enqueue(r) ==
  /\ pc[r] = "new"
  /\ Cardinality(queue) < MaxSize
  /\ clock' = clock + 1
  /\ arrival' = [arrival EXCEPT ![r] = clock']
  /\ queue' = queue \cup {r}
  /\ UNCHANGED <<prio, aged, cancelled, completed, lastServed, closed>>
  /\ Recount({prio[r]})
  /\ gauge' = sizes'
  /\ \/ /\ queue = {}
        /\ event' = event \cup {r}
        /\ opened' = [opened EXCEPT ![r] = @ + 1]
        /\ pc' = [pc EXCEPT ![r] = "running"]
        /\ aging' = aging \cup {r}
        /\ UNCHANGED pass
     \/ /\ queue # {}
        /\ pc' = [pc EXCEPT ![r] = "releasing"]
        /\ UNCHANGED <<event, aging, opened>>
        /\ StartPass(r)

-----------------------------------------------------------------------------
(* _release_eligible(): one step per answer of _can_proceed.                 *)

(* Mutant: nobody looks whether another pass has set the event meanwhile.     *)
UncheckedStillEligible(c) ==
  c.req \in queue /\ Position(c.req) = c.pos /\ c.req \notin completed

(* The item the index was taken for is still there and still waits.          *)
StillEligible(c) ==
  /\ c.req \in queue /\ Position(c.req) = c.pos
  /\ c.req \notin event /\ c.req \notin completed

Blocked(c) == StillEligible(c) /\ HasHigherPriorityWaiting(c.req)

Admits(o, ok) ==
  ok /\ StillEligible(pass[o].asking) /\ ~Blocked(pass[o].asking)

(* Mutant: the list of released items is made anew for every candidate.       *)
OnlyLastAdmitted(o, ok) ==
  IF Admits(o, ok) THEN <<pass[o].asking.req>> ELSE pass[o].admitted

Admitted(o, ok) ==
  IF Admits(o, ok) THEN Append(pass[o].admitted, pass[o].asking.req)
                   ELSE pass[o].admitted

Remaining(o, ok) ==
  IF ok /\ Blocked(pass[o].asking)
  THEN {c \in pass[o].todo : c.rank # pass[o].asking.rank}
  ELSE pass[o].todo \ {pass[o].asking}

Admit(o, ok) ==
  event' = IF Admits(o, ok) THEN event \cup {pass[o].asking.req} ELSE event

AskNext(o, ok) ==
  /\ pass[o].todo # {}
  /\ Remaining(o, ok) # {}
  /\ Admit(o, ok)
  /\ \E c \in Selected(Remaining(o, ok)) :
       pass' = [pass EXCEPT ![o] = [todo |-> Remaining(o, ok), asking |-> c,
                                    admitted |-> Admitted(o, ok)]]
  /\ UNCHANGED <<queue, prio, arrival, aged, aging, cancelled, completed, sizes,
                 gauge, lastServed, clock, pc, opened, closed>>

(* The indices in the list of released metadata that belong to session s.     *)
ServedAt(s, released) == {i \in DOMAIN released : SessionOf[released[i]] = s}

LastOf(S) == CHOOSE i \in S : \A j \in S : j <= i

(* Mutant: a set event is taken for an admission.                             *)
TrustingWoken(r) == "running"

(* Where the wait for the event leads once the event is set.                  *)
Woken(r) == IF r \in cancelled THEN "refused" ELSE "running"

(* What the task that ran the pass does next.  Waiting for an event that is   *)
(* set already does not suspend.                                              *)
Resume(o) ==
  \/ /\ o = Recheck
     /\ UNCHANGED <<pc, aging, closed>>
  \/ /\ o # Recheck /\ pc[o] = "releasing"
     /\ pc' = [pc EXCEPT ![o] = IF o \in event' THEN Woken(o) ELSE "waiting"]
     /\ aging' = aging \cup {o}
     /\ UNCHANGED closed
  \/ /\ o # Recheck /\ pc[o] = "removing"
     /\ pc' = [pc EXCEPT ![o] = "timedout"]
     /\ UNCHANGED <<aging, closed>>
  \/ /\ o # Recheck /\ pc[o] = "dequeuing"
     /\ pc' = [pc EXCEPT ![o] = "done"]
     /\ closed' = [closed EXCEPT ![o] = @ + 1]
     /\ UNCHANGED aging

EndPass(o, ok) ==
  LET released == Admitted(o, ok)
  IN /\ pass[o].todo # {}
     /\ Remaining(o, ok) = {}
     /\ Admit(o, ok)
     /\ pass' = [pass EXCEPT ![o] = NoPass]
     /\ opened' = [r \in Requests |->
                     opened[r] + Cardinality({i \in DOMAIN released : released[i] = r})]
     /\ clock' = clock + Len(released)
     /\ lastServed' = [s \in Sessions |->
                         IF ServedAt(s, released) = {} THEN lastServed[s]
                         ELSE clock + LastOf(ServedAt(s, released))]
     /\ Resume(o)
     /\ UNCHANGED <<queue, prio, arrival, aged, cancelled, completed, sizes, gauge>>

Answer(o, ok) == AskNext(o, ok) \/ EndPass(o, ok)

-----------------------------------------------------------------------------
(* The wait for the event, and its ends.                                     *)

Wake(r) ==
  /\ pc[r] = "waiting"
  /\ r \in event
  /\ pc' = [pc EXCEPT ![r] = Woken(r)]
  /\ UNCHANGED <<queue, prio, arrival, aged, aging, event, cancelled, completed,
                 sizes, gauge, lastServed, clock, pass, opened, closed>>

(* wait_for expires, possibly when the event is already set but the task has *)
(* not run yet; _remove_item takes the item out.                             *)
Timeout(r) ==
  /\ pc[r] = "waiting"
  /\ r \in TimesOut
  /\ queue' = queue \ {r}
  /\ UNCHANGED <<prio, arrival, aged, aging, event, cancelled, completed,
                 lastServed, clock, opened, closed>>
  /\ Recount(IF r \in queue THEN {prio[r]} ELSE {})
  /\ gauge' = IF r \in queue THEN sizes' ELSE gauge
  /\ IF r \in queue /\ Position(r) = 0 /\ Pending' # {}
     THEN pc' = [pc EXCEPT ![r] = "removing"] /\ StartPass(r)
     ELSE pc' = [pc EXCEPT ![r] = "timedout"] /\ UNCHANGED pass

(* _age_item: fires once per request, also while the request runs or is      *)
(* completed but not compacted away.  Firing on a HIGH item or on one that   *)
(* has left the queue changes nothing.                                       *)
Age(r) ==
  /\ r \in aging
  /\ r \in queue
  /\ prio[r] # High
  /\ aging' = aging \ {r}
  /\ aged' = aged \cup {r}
  /\ prio' = [prio EXCEPT ![r] = IF @ = Low THEN Medium ELSE High]
  /\ UNCHANGED <<queue, arrival, event, cancelled, completed, lastServed, clock,
                 pc, pass, opened, closed>>
  /\ Recount({prio[r], prio'[r]})
  /\ gauge' = sizes'

-----------------------------------------------------------------------------
(* dequeue(item): the finishing request is marked, completed items are popped *)
(* off the front only, and a pass starts if anything is pending.              *)
Finish(r) ==
  /\ pc[r] = "running"
  /\ completed' = completed \cup {r}
  /\ queue' = queue \ Leading(completed')
  /\ sizes' = [p \in Priority |->
                 AtLeastZero(sizes[p] - Cardinality({x \in Leading(completed') : prio[x] = p}))]
  /\ gauge' = IF queue = {} THEN gauge ELSE sizes'
  /\ UNCHANGED <<prio, arrival, aged, aging, event, cancelled, lastServed, clock, opened>>
  /\ \/ /\ Pending' = {}
        /\ pc' = [pc EXCEPT ![r] = "done"]
        /\ closed' = [closed EXCEPT ![r] = @ + 1]
        /\ UNCHANGED pass
     \/ /\ Pending' # {}
        /\ pc' = [pc EXCEPT ![r] = "dequeuing"]
        /\ UNCHANGED closed
        /\ StartPass(r)

-----------------------------------------------------------------------------
(* Mutant: only the head of the list is looked at.                            *)
HeadStartRecheck ==
  /\ pass[Recheck].todo = {}
  /\ \E r \in Pending : Position(r) = 0
  /\ UNCHANGED <<queue, prio, arrival, aged, aging, event, cancelled, completed,
                 sizes, gauge, lastServed, clock, pc, opened, closed>>
  /\ StartPass(Recheck)

(* _recheck_blocked(): the periodic safety net.                              *)
StartRecheck ==
  /\ pass[Recheck].todo = {}
  /\ Pending # {}
  /\ UNCHANGED <<queue, prio, arrival, aged, aging, event, cancelled, completed,
                 sizes, gauge, lastServed, clock, pc, opened, closed>>
  /\ StartPass(Recheck)

-----------------------------------------------------------------------------
(* Mutant: the items are flagged and left for a later dequeue to pop.         *)
LazyDropSession(s) ==
  LET hit == {r \in queue : SessionOf[r] = s}
  IN /\ cancelled' = cancelled \cup hit
     /\ event' = event \cup hit
     /\ UNCHANGED <<queue, gauge, sizes>>

(* cancel_by_session_id(): the gauges are exported before _sizes is recounted. *)
DropSession(s) ==
  LET hit == {r \in queue : SessionOf[r] = s}
  IN /\ queue' = queue \ hit
     /\ cancelled' = cancelled \cup hit
     /\ event' = event \cup hit
     /\ gauge' = sizes
     /\ Recount(Priority)

CancelSession(s) ==
  /\ s \in Cancellable
  /\ \E r \in queue : SessionOf[r] = s
  /\ UNCHANGED <<prio, arrival, aged, aging, completed, lastServed, clock, pc,
                 pass, opened, closed>>
  /\ DropSession(s)

(* CancelledError at the await where the request's task is suspended in the   *)
(* queue.  Nothing in the queue handles it: the item stays, and a pass the    *)
(* task was running is lost with the releases it had not reported.  The       *)
(* completion service takes the error for the end of the stream, so that the  *)
(* handlers of the router and of the executor that drop a session's queued    *)
(* work do not see it.                                                        *)
Leave(r) ==
  /\ r \in Leaves
  /\ pc[r] \in {"releasing", "waiting", "removing", "dequeuing"}
  /\ pc' = [pc EXCEPT ![r] = "gone"]
  /\ pass' = [pass EXCEPT ![r] = NoPass]
  /\ UNCHANGED <<queue, prio, arrival, aged, aging, event, cancelled, completed,
                 sizes, gauge, lastServed, clock, opened, closed>>

-----------------------------------------------------------------------------
RequestStep(r) ==
  RejectFull(r) \/ Enqueue(r) \/ Wake(r) \/ Timeout(r) \/ Age(r) \/ Finish(r) \/ Leave(r)

Next ==
  \/ \E r \in Requests : RequestStep(r)
  \/ \E o \in Owners, ok \in BOOLEAN : Answer(o, ok)
  \/ StartRecheck
  \/ \E s \in Sessions : CancelSession(s)

Spec == Init /\ [][Next]_vars

(* The event loop runs what is runnable, the recheck task keeps polling, a    *)
(* _can_proceed call returns, and a request that is asked about again and     *)
(* again is let through some time.  Nothing is assumed about how long a turn  *)
(* runs, about clients or about timers.                                       *)
LetThrough(r) ==
  \E o \in Owners : /\ pass[o].todo # {}
                    /\ pass[o].asking.req = r
                    /\ Answer(o, TRUE)

Fairness ==
  /\ WF_vars(StartRecheck)
  /\ \A o \in Owners : WF_vars(\E ok \in BOOLEAN : Answer(o, ok))
  /\ \A r \in Requests : WF_vars(Wake(r)) /\ SF_vars(LetThrough(r))

FairSpec == Spec /\ Fairness

-----------------------------------------------------------------------------
Location == {"new", "releasing", "waiting", "removing", "running", "dequeuing",
             "rejected", "refused", "timedout", "done", "gone"}

PassTypeOK ==
  /\ pass \in [Owners -> [todo : SUBSET Candidate,
                         asking : Candidate \cup {None},
                         admitted : Seq(Requests)]]
  /\ \A o \in Owners : pass[o].todo # {} => pass[o].asking \in pass[o].todo

(* Every variable keeps its type; a pass under way asks about a candidate it  *)
(* has not settled yet.                                                       *)
TypeOK ==
  /\ queue \subseteq Requests
  /\ prio \in [Requests -> Priority]
  /\ arrival \in [Requests -> Nat]
  /\ aged \subseteq Requests /\ aging \subseteq Requests
  /\ event \subseteq Requests
  /\ cancelled \subseteq Requests /\ completed \subseteq Requests
  /\ sizes \in [Priority -> Nat]
  /\ gauge \in [Priority -> Nat]
  /\ lastServed \in [Sessions -> Nat]
  /\ clock \in Nat
  /\ pc \in [Requests -> Location]
  /\ PassTypeOK
  /\ opened \in [Requests -> Nat]
  /\ closed \in [Requests -> Nat]

(* _sizes, partly recounted and partly decremented, is the number of list     *)
(* items of each priority, whatever ages, completes or is cancelled between.  *)
SizesMatch == sizes = [p \in Priority |-> Queued(p)]

(* However many passes have a request among their candidates at once, it is   *)
(* released once: on_release is called at most once for it.                   *)
ReleasedOnce == \A r \in Requests : opened[r] <= 1

(* Items whose task was cancelled in the queue before it could run.            *)
Abandoned == {r \in queue \ completed : pc[r] = "gone"}

(* Only dequeue pops completed items, and a rejected request never dequeues:  *)
(* a queue full of items nobody will dequeue would refuse every request for   *)
(* ever.  Timeouts, aging, compaction and the cancelling of sessions never    *)
(* lead there: as long as no task was cancelled in the queue and left its     *)
(* item behind, a full list holds one whose task is there to finish it, to    *)
(* time out or to be refused.                                                 *)
WedgedByLeaversOnly ==
  Cardinality(queue) >= MaxSize /\ Abandoned = {} =>
    \E r \in queue : pc[r] \in {"releasing", "waiting", "running"}

Ended == {"rejected", "refused", "timedout", "done", "gone"}

AtRest == (\A r \in Requests : pc[r] \in Ended) /\ (\A o \in Owners : pass[o] = NoPass)

(* Once all is over the release of every request that ran to its end has been *)
(* reported, as often as its completion, so it leaves the active count of its *)
(* model as it found it: a request may finish before the pass that released   *)
(* it reports that.  Only a task that is cancelled can take its pass along.   *)
ReportedAtRest ==
  AtRest /\ (\A r \in Requests : pc[r] # "gone") =>
    \A r \in Requests : pc[r] = "done" => opened[r] = closed[r]

(* A request that waits stops waiting: a pass that skips it because the list  *)
(* moved under its index, or a pass that dies with its task, only delays it.  *)
EventuallyAdmitted == \A r \in Requests : pc[r] = "waiting" ~> pc[r] # "waiting"

(* What the callers see of a request's task.                                  *)
Stage ==
  [r \in Requests |->
     IF pc[r] = "new" THEN "new"
     ELSE IF pc[r] \in {"releasing", "waiting"} THEN "waiting"
     ELSE IF pc[r] = "running" THEN "admitted" ELSE "over"]

HasRoom(S) == Cardinality(S) < MaxSize

Promise == INSTANCE Admission WITH inside <- queue, stage <- Stage

(* The queue keeps the promises of Admission: whichever release pass, timeout *)
(* or cancellation wins a race, at most max_size items are in the list when a *)
(* request enters, and a request taken out while it waits is never admitted.  *)
KeepsPromise == Promise!Spec

(* A request whose client has left does not stay in the list.  No run checks   *)
(* it: the code breaks it.  One such item is enough to wedge the queue, for    *)
(* whatever is completed behind it is never popped.                           *)
LeaversDropped == Abandoned = {}

(* The number of active requests of a model is never negative.  No run checks  *)
(* it: the code breaks it while a pass still has releases to report.          *)
ActiveNeverNegative ==
  \A r \in Requests : closed[r] <= opened[r]

(* A LOW request is not let through while a HIGH one for its model waits.  No  *)
(* run checks it: the code breaks it, for it looks behind the LOW one only.   *)
PriorityOrder ==
  [][\A l, h \in Requests :
       /\ l \in (event' \ event) \ cancelled' /\ prio[l] = Low
       /\ h \in Pending /\ prio[h] = High
       => ModelOf[l] # ModelOf[h]]_vars

=============================================================================
