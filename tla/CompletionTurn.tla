--------------------------- MODULE CompletionTurn ---------------------------
(***************************************************************************)
(* A completion turn: composing a workflow through the composer singleton  *)
(* and its workflow cache, running it, giving the server handle back, and  *)
(* the retries around that (CompletionService, retry_policies,             *)
(* composer_init, ComposerService, WorkflowCache).                         *)
(*                                                                         *)
(* The composer keeps the builder of the first request that composes, and  *)
(* every workflow is built by it, so its server_handle is the one slot     *)
(* that all builds write; an attempt gives back what its own builder has.  *)
(* A cached workflow has the address of its server built in.  One model is *)
(* served, and a step is what runs between two awaits.                     *)
(***************************************************************************)
EXTENDS Integers, FiniteSets

CONSTANTS
  Requests,       \* the requests
  Keys,           \* cache keys: user, session and model
  KeyOf,          \* the key of each request
  Routed,         \* requests whose router builds a workflow before the turn
  Leaves,         \* requests whose task may be cancelled
  BuildBreaks,    \* a build may fail after it has acquired its server
  MaxServers,     \* bound on the servers that ever run
  MaxHeld,        \* bound on the acquisitions of a server not yet released
  StaleRetries,   \* STALE_SERVER_RETRIES
  OverflowRetries,\* OVERFLOW_SUMMARY_RETRIES
  ColdRetries,    \* COLD_START_RETRIES
  MaxPasses,      \* secondary passes the turn of each request may make
  None,           \* no server, no builder
  Spent           \* a builder whose attempt is over, or that no attempt has

Servers == 1..MaxServers

ASSUME TurnAssumption ==
  /\ KeyOf \in [Requests -> Keys] /\ BuildBreaks \in BOOLEAN
  /\ MaxServers \in Nat /\ MaxHeld \in Nat /\ MaxPasses \in [Requests -> Nat]
  /\ StaleRetries \in Nat /\ OverflowRetries \in Nat /\ ColdRetries \in Nat
  /\ None \notin Servers /\ None \notin Requests
  /\ Spent \notin Requests /\ Spent # None

VARIABLES
  live, made,  \* servers that are up; how many were started
  held,        \* acquisitions of each server less its releases
  composer,    \* whose builder the composer singleton keeps
  slot,        \* server_handle of that builder, while an attempt looks at it
  cache,       \* the server built into the cached workflow of each key
  turn,        \* where the turn of each request is, and its locals
  blamed       \* history: servers a turn found dead since another request
               \* stored a workflow under its key

serverVars == <<live, made>>
composerVars == <<composer, slot, cache, held>>
vars == <<serverVars, composerVars, turn, blamed>>

(* The locals of a turn: who builds, the router or an attempt; the server      *)
(* built into its workflow; the handle it is giving back, and how the run that *)
(* had it ended; _retry_count, _overflow_retry, cold_attempts, secondary       *)
(* passes.  runs is history: the attempts made.                                *)
At(place) ==
  [at |-> place, by |-> "attempt", using |-> None, giving |-> None, why |-> "answer",
   stale |-> 0, summed |-> 0, cold |-> 0, pass |-> 0, runs |-> 0]

Init ==
  /\ live = {} /\ made = 0
  /\ held = [h \in Servers |-> 0]
  /\ composer = None /\ slot = None
  /\ cache = [k \in Keys |-> None]
  /\ turn = [r \in Requests |-> At("new")]
  /\ blamed = [r \in Requests |-> {}]

IsAt(r, place) == turn[r].at = place

(* The turn of r is over, and its locals are gone.                           *)
Quit(r) ==
  /\ turn' = [turn EXCEPT ![r] = At("over")]
  /\ blamed' = [blamed EXCEPT ![r] = {}]

(* The attempt of r is over: nobody looks at its builder any more.           *)
Dismiss(r) ==
  IF composer = r THEN composer' = Spent /\ slot' = None
                  ELSE UNCHANGED <<composer, slot>>

-----------------------------------------------------------------------------
(* CompletionService.build_workflow, for the router or for an attempt.       *)

Builder(r) == IF r \in Routed THEN "router" ELSE "attempt"

Start(r) ==
  /\ IsAt(r, "new")
  /\ turn' = [turn EXCEPT ![r].at = "composing", ![r].by = Builder(r)]
  /\ UNCHANGED <<serverVars, composerVars, blamed>>

(* Mutant: an entry that has expired is a hit.                               *)
AlwaysHit(r) == TRUE

Hit(r) == cache[KeyOf[r]] # None

Attempts(t) == IF t.by = "router" THEN t.runs ELSE t.runs + 1

(* The composer is made with the first builder; the cache is looked up.      *)
Compose(r) ==
  /\ IsAt(r, "composing")
  /\ composer' = IF composer # None THEN composer
                 ELSE IF turn[r].by = "router" THEN Spent ELSE r
  /\ \/ /\ Hit(r)
        /\ turn' = [turn EXCEPT ![r].at = "locating", ![r].using = cache[KeyOf[r]],
                                ![r].runs = Attempts(turn[r])]
     \/ /\ ~Hit(r)
        /\ turn' = [turn EXCEPT ![r].at = "building", ![r].runs = Attempts(turn[r])]
  /\ UNCHANGED <<serverVars, slot, cache, held, blamed>>

(* _acquire_primary_server_and_agent: a server that is up, or a new one.      *)
Acquire(r) ==
  /\ IsAt(r, "building")
  /\ \E h \in Servers :
       /\ held[h] < MaxHeld
       /\ \/ h \in live /\ UNCHANGED serverVars
          \/ h = made + 1 /\ made' = h /\ live' = live \cup {h}
       /\ turn' = [turn EXCEPT ![r].at = "storing", ![r].using = h]
       /\ slot' = IF composer = Spent THEN None ELSE h
       /\ held' = [held EXCEPT ![h] = @ + 1]
  /\ UNCHANGED <<composer, cache, blamed>>

(* The router drops the workflow it built; an attempt runs its own.           *)
Proceed(r) ==
  \/ /\ turn[r].by = "router"
     /\ turn' = [turn EXCEPT ![r].at = "composing", ![r].using = None, ![r].by = "attempt"]
  \/ /\ turn[r].by = "attempt"
     /\ turn' = [turn EXCEPT ![r].at = "running"]

Store(r) ==
  /\ IsAt(r, "storing")
  /\ cache' = [cache EXCEPT ![KeyOf[r]] = turn[r].using]
  /\ blamed' = [q \in Requests |->
                  IF q # r /\ KeyOf[q] = KeyOf[r] THEN {} ELSE blamed[q]]
  /\ Proceed(r)
  /\ UNCHANGED <<serverVars, composer, slot, held>>

(* A cached workflow: base_url_for_model is awaited.                          *)
Locate(r) ==
  /\ IsAt(r, "locating")
  /\ Proceed(r)
  /\ UNCHANGED <<serverVars, composerVars, blamed>>

(* Mutant: a cold start is not counted.                                      *)
UncountedCold(n) == n

CountCold(n) == n + 1

(* No server, or no embedding server.  build_workflow has not returned, so    *)
(* the attempt has no builder to give a handle back from.  Only the primary   *)
(* pass waits for a cold start, and calls _build_and_run anew.               *)
BuildFails(r) ==
  /\ IsAt(r, "building") \/ (IsAt(r, "storing") /\ BuildBreaks)
  /\ \/ /\ turn[r].by = "attempt" /\ turn[r].pass = 0 /\ turn[r].cold < ColdRetries
        /\ turn' = [turn EXCEPT ![r].at = "cooling", ![r].using = None,
                                ![r].cold = CountCold(@),
                                ![r].stale = 0, ![r].summed = 0]
        /\ UNCHANGED blamed
     \/ Quit(r)
  /\ Dismiss(r)
  /\ UNCHANGED <<serverVars, cache, held>>

-----------------------------------------------------------------------------
(* _build_and_run around the run.                                            *)

(* Mutant: the stale workflow stays in the cache.                            *)
NoPurge(r) == UNCHANGED cache

Purge(r) == cache' = [cache EXCEPT ![KeyOf[r]] = None]

Rest(r, place) ==
  turn' = [turn EXCEPT ![r].at = place, ![r].using = None,
                       ![r].giving = None, ![r].why = "answer"]

(* The finally block is through: the result, the retry or the error.          *)
Settle(r, reason) ==
  /\ Dismiss(r)
  /\ \/ reason = "answer" /\ Rest(r, "passed") /\ UNCHANGED <<cache, blamed>>
     \/ reason = "overflow" /\ Rest(r, "summarizing") /\ UNCHANGED <<cache, blamed>>
     \/ /\ reason = "stale" /\ turn[r].stale < StaleRetries
        /\ Rest(r, "refreshing")
        /\ Purge(r)
        /\ blamed' = [blamed EXCEPT ![r] = @ \cup {turn[r].using}]
     \/ /\ reason = "error" \/ (reason = "stale" /\ turn[r].stale >= StaleRetries)
        /\ Quit(r) /\ UNCHANGED cache
     \/ reason = "cancel" /\ Quit(r) /\ UNCHANGED cache

(* An answer is any end the executor makes an event of: a runner that cannot  *)
(* be reached is one.  An overflow is retried if no event was yielded yet,    *)
(* and is an error otherwise.                                                 *)
Ends(r, reason) ==
  \/ reason \in {"answer", "error"}
  \/ reason = "stale" /\ turn[r].using \notin live
  \/ reason = "overflow" /\ turn[r].summed < OverflowRetries
  \/ reason = "cancel" /\ r \in Leaves

Reasons == {"answer", "stale", "overflow", "error", "cancel"}

(* Mutant: the builder keeps the handle that is given back.                  *)
KeepHandle == slot

Detach == None

(* The run ends; the attempt gives back what its own builder has.            *)
EndRun(r) ==
  /\ IsAt(r, "running")
  /\ \E reason \in Reasons :
       /\ Ends(r, reason)
       /\ \/ /\ composer = r /\ slot # None
             /\ turn' = [turn EXCEPT ![r].at = "releasing", ![r].giving = slot,
                                     ![r].why = reason]
             /\ slot' = Detach
             /\ UNCHANGED <<composer, cache, blamed>>
          \/ /\ composer # r \/ slot = None
             /\ Settle(r, reason)
  /\ UNCHANGED <<serverVars, held>>

Released(r) ==
  /\ IsAt(r, "releasing")
  /\ held' = [held EXCEPT ![turn[r].giving] = @ - 1]
  /\ Settle(r, turn[r].why)
  /\ UNCHANGED serverVars

(* The model map is refreshed and the workflow composed again.                *)
RetryStale(r) ==
  /\ IsAt(r, "refreshing")
  /\ turn' = [turn EXCEPT ![r].at = "composing", ![r].stale = @ + 1]
  /\ UNCHANGED <<serverVars, composerVars, blamed>>

(* Mutant: the retry starts with its full budget of stale retries.           *)
RefillStale(n) == 0

KeepStale(n) == n

(* The history is summarized and the workflow composed again, or the overflow  *)
(* is the error.                                                              *)
RetryShorter(r) ==
  /\ IsAt(r, "summarizing")
  /\ \/ /\ turn' = [turn EXCEPT ![r].at = "composing", ![r].summed = @ + 1,
                                ![r].stale = KeepStale(@)]
        /\ UNCHANGED blamed
     \/ Quit(r)
  /\ UNCHANGED <<serverVars, composerVars>>

RetryCold(r) ==
  /\ IsAt(r, "cooling")
  /\ turn' = [turn EXCEPT ![r].at = "composing"]
  /\ UNCHANGED <<serverVars, composerVars, blamed>>

(* After a pass: the turn is over, or a follow-up or empty-response retry     *)
(* calls _build_and_run itself, or the probe for restarted runners raises.    *)
Follow(r) ==
  /\ IsAt(r, "passed")
  /\ \/ Quit(r)
     \/ live # 1..made /\ Quit(r)
     \/ /\ turn[r].pass < MaxPasses[r]
        /\ turn' = [turn EXCEPT ![r].at = "composing", ![r].pass = @ + 1,
                                ![r].stale = 0, ![r].summed = 0]
        /\ UNCHANGED blamed
  /\ UNCHANGED <<serverVars, composerVars>>

(* CancelledError outside the run.  A release that is cut off may or may not  *)
(* have reached the runner.                                                   *)
Leave(r) ==
  /\ r \in Leaves
  /\ turn[r].at \notin {"over", "new", "running"}
  /\ Quit(r)
  /\ Dismiss(r)
  /\ \/ UNCHANGED held
     \/ IsAt(r, "releasing") /\ held' = [held EXCEPT ![turn[r].giving] = @ - 1]
  /\ UNCHANGED <<serverVars, cache>>

-----------------------------------------------------------------------------
(* A server is evicted or lost; an entry expires or is the least recently used. *)

Die(h) ==
  /\ h \in live
  /\ live' = live \ {h}
  /\ UNCHANGED <<made, composerVars, turn, blamed>>

Expire(k) ==
  /\ cache[k] # None
  /\ cache' = [cache EXCEPT ![k] = None]
  /\ UNCHANGED <<serverVars, composer, slot, held, turn, blamed>>

Next ==
  \/ \E r \in Requests :
       \/ Start(r) \/ Compose(r) \/ Acquire(r) \/ BuildFails(r) \/ Store(r) \/ Locate(r)
       \/ EndRun(r) \/ Released(r) \/ RetryStale(r) \/ RetryShorter(r) \/ RetryCold(r)
       \/ Follow(r) \/ Leave(r)
  \/ \E h \in Servers : Die(h)
  \/ \E k \in Keys : Expire(k)

Spec == Init /\ [][Next]_vars

-----------------------------------------------------------------------------
Places == {"new", "composing", "building", "storing", "locating", "running", "releasing",
           "refreshing", "summarizing", "cooling", "passed", "over"}

Turns ==
  [at : Places, by : {"router", "attempt"}, using : Servers \cup {None}, giving : Servers \cup {None},
   why : Reasons, stale : 0..StaleRetries, summed : 0..OverflowRetries,
   cold : 0..ColdRetries, pass : Nat, runs : Nat]

(* Types, and: whoever has a workflow has a server to run it on.              *)
TypeOK ==
  /\ live \subseteq Servers /\ made \in 0..MaxServers
  /\ held \in [Servers -> Int]
  /\ composer \in Requests \cup {None, Spent} /\ slot \in Servers \cup {None}
  /\ cache \in [Keys -> Servers \cup {None}]
  /\ turn \in [Requests -> Turns]
  /\ blamed \in [Requests -> SUBSET Servers]
  /\ \A r \in Requests :
       /\ turn[r].at \in {"storing", "locating", "running"} => turn[r].using # None
       /\ turn[r].at = "releasing" => turn[r].giving # None
       /\ turn[r].pass <= MaxPasses[r]

(* The budgets nest, they do not multiply: within one call of _build_and_run  *)
(* stale and overflow retries share a bound, and every cold start and every   *)
(* secondary pass buys one more call, however they follow each other.  Every    *)
(* step of an attempt is an await that ends, so the turn ends too.             *)
RunsBounded ==
  \A r \in Requests :
    turn[r].runs <= (ColdRetries + MaxPasses[r] + 1) * (StaleRetries + OverflowRetries + 1)

(* A retry never runs on a server the turn has found dead, unless another      *)
(* request with the same key stored a workflow in between.                     *)
RetriesElsewhere ==
  \A r \in Requests : turn[r].at = "running" => turn[r].using \notin blamed[r]

(* "Detach from the builder so any later code path can't accidentally release  *)
(* twice": whatever builds overwrite the slot while another request gives a    *)
(* handle back, each handle in the slot or on its way back was acquired once   *)
(* more than it was released.                                                  *)
Unreleased(h) ==
  Cardinality({r \in Requests : turn[r].giving = h}) + (IF slot = h THEN 1 ELSE 0)

ReleasedOnce == \A h \in Servers : Unreleased(h) <= held[h]

(* "Always release the handle: success, error, or cancel": once all turns are   *)
(* over no server that is up is still acquired.                                *)
HandlesReturned ==
  (\A r \in Requests : turn[r].at = "over") => \A h \in live : held[h] = 0
=============================================================================
