---------------------------- MODULE ConfigTiers -----------------------------
(***************************************************************************)
(* The configuration of one user in its three tiers: the memory of each    *)
(* worker process, Redis, and the users table (db/userconfig_storage,      *)
(* with the operations of db/cache_storage it calls).                      *)
(*                                                                         *)
(* A call is suspended only in the database, so whatever it does to the    *)
(* caches before or after a query is one step, and other calls come in     *)
(* between.  A query and the return of its answer are two steps.           *)
(***************************************************************************)
EXTENDS Naturals

CONSTANTS
  Workers,    \* processes that serve requests
  Redis,      \* the tier the workers share
  Readers,    \* tasks that get the configuration, again and again
  Writers,    \* updates; each names the configuration it sends
  Partial,    \* updates whose configuration leaves sections open
  Invalid,    \* updates whose configuration cannot be dumped
  HomeOf,     \* the worker of each reader and writer
  Default,    \* names the default configuration
  None,       \* no configuration
  RedisFails, \* a call of Redis may fail
  MaxFaults   \* bound on the database calls that fail

ASSUME TiersAssumption ==
  /\ Redis \notin Workers /\ Readers \cap Writers = {}
  /\ HomeOf \in [Readers \cup Writers -> Workers]
  /\ Partial \subseteq Writers /\ Invalid \subseteq Writers
  /\ Default \notin Writers /\ None \notin [of : Writers \cup {Default}, full : BOOLEAN]
  /\ RedisFails \in BOOLEAN /\ MaxFaults \in Nat

VARIABLES
  row,    \* the user has a row in the users table
  stored, \* its column config
  cache,  \* the entry of each tier
  old,    \* tiers whose entry is past its time to live
  made,   \* workers whose memory tier exists
  step,   \* where each reader and writer is
  got,    \* the configuration a reader takes to the caches
  faults

tableVars == <<row, stored, faults>>
tierVars == <<cache, old, made>>
vars == <<tableVars, tierVars, step, got>>

Tiers == Workers \cup {Redis}

(* A configuration: whose it is, and whether all its sections are there.      *)
Configs == [of : Writers \cup {Default}, full : BOOLEAN]

(* create_default_user_config leaves the section of the tools open.           *)
DefaultConfig == [of |-> Default, full |-> FALSE]

Sent(u) == [of |-> u, full |-> u \notin Partial]

(* _ensure_required_fields.                                                  *)
Completed(config) == [config EXCEPT !.full = TRUE]

Works == {TRUE} \cup (IF RedisFails THEN {FALSE} ELSE {})

Init ==
  /\ row \in BOOLEAN /\ stored = None
  /\ cache = [t \in Tiers |-> None] /\ old = {} /\ made = {}
  /\ step = [t \in Readers \cup Writers |-> IF t \in Readers THEN "idle" ELSE "new"]
  /\ got = [r \in Readers |-> None]
  /\ faults = 0

Goto(t, s) == step' = [step EXCEPT ![t] = s]

(* A database call fails; what it wrote may have been committed.             *)
Fault == faults < MaxFaults /\ faults' = faults + 1

-----------------------------------------------------------------------------
(* get_user_config: memory, then Redis, then the table.  A hit in memory     *)
(* changes nothing.                                                          *)

(* Mutant: a hit renews the entry in Redis.                                  *)
SlidingFind(r) ==
  LET w == HomeOf[r] IN
  /\ step[r] = "idle" /\ cache[w] = None
  /\ cache[Redis] # None
  /\ cache' = [cache EXCEPT ![w] = cache[Redis]]
  /\ old' = old \ {w, Redis}
  /\ made' = made \cup {w}
  /\ UNCHANGED <<tableVars, step, got>>

Find(r) ==
  LET w == HomeOf[r] IN
  /\ step[r] = "idle" /\ cache[w] = None
  /\ cache[Redis] # None
  /\ cache' = [cache EXCEPT ![w] = cache[Redis]]
  /\ old' = old \ {w}
  /\ made' = made \cup {w}
  /\ UNCHANGED <<tableVars, step, got>>

(* Mutant: the memory tier is not made, as the check in get_user_config alone *)
(* would have it.                                                             *)
UnmadeMiss(r) ==
  /\ step[r] = "idle" /\ cache[HomeOf[r]] = None
  /\ cache[Redis] = None \/ RedisFails
  /\ Goto(r, "querying")
  /\ UNCHANGED <<tableVars, tierVars, got>>

Miss(r) ==
  /\ step[r] = "idle" /\ cache[HomeOf[r]] = None
  /\ cache[Redis] = None \/ RedisFails
  /\ Goto(r, "querying")
  /\ made' = made \cup {HomeOf[r]}
  /\ UNCHANGED <<tableVars, cache, old, got>>

(* get_user_config_from_users_table: no row, no config and any error are one  *)
(* answer.                                                                    *)
Query(r) ==
  /\ step[r] = "querying"
  /\ \/ /\ stored # None
        /\ got' = [got EXCEPT ![r] = stored]
        /\ Goto(r, "answered") /\ UNCHANGED faults
     \/ /\ stored = None
        /\ Goto(r, "creating") /\ UNCHANGED <<got, faults>>
     \/ Fault /\ Goto(r, "creating") /\ UNCHANGED got
  /\ UNCHANGED <<row, stored, tierVars>>

(* Mutant: the insert overwrites a configuration that is there.               *)
OverwritingEnsure ==
  /\ row' = TRUE
  /\ stored' = DefaultConfig

(* ensure_user_exists: INSERT ... ON CONFLICT, keeping a configuration.       *)
Ensure ==
  /\ row' = TRUE
  /\ stored' = IF stored = None THEN DefaultConfig ELSE stored

Create(r) ==
  /\ step[r] = "creating"
  /\ \/ /\ Ensure
        /\ got' = [got EXCEPT ![r] = DefaultConfig]
        /\ Goto(r, "answered") /\ UNCHANGED faults
     \/ /\ Fault /\ (Ensure \/ UNCHANGED <<row, stored>>)
        /\ Goto(r, "fallback") /\ UNCHANGED got
  /\ UNCHANGED tierVars

(* The legacy query, after a failed insert, completes what a row has; another *)
(* failure is raised.                                                        *)
Legacy ==
  IF stored # None THEN Completed(stored)
  ELSE IF row THEN Completed(DefaultConfig) ELSE DefaultConfig

Fallback(r) ==
  /\ step[r] = "fallback"
  /\ \/ /\ got' = [got EXCEPT ![r] = Legacy]
        /\ Goto(r, "answered") /\ UNCHANGED faults
     \/ Fault /\ Goto(r, "idle") /\ UNCHANGED got
  /\ UNCHANGED <<row, stored, tierVars>>

Fill(r) ==
  LET w == HomeOf[r] IN
  /\ step[r] = "answered"
  /\ \E set \in Works :
       /\ cache' = [cache EXCEPT ![w] = got[r], ![Redis] = IF set THEN got[r] ELSE @]
       /\ old' = old \ ({w} \cup IF set THEN {Redis} ELSE {})
  /\ Goto(r, "idle")
  /\ got' = [got EXCEPT ![r] = None]
  /\ UNCHANGED <<tableVars, made>>

Read(r) == Query(r) \/ Create(r) \/ Fallback(r) \/ Fill(r)

(* create_conversation makes sure of the row without a look at the caches.    *)
CreateConversation == Ensure /\ UNCHANGED <<faults, tierVars, step, got>>

-----------------------------------------------------------------------------
(* What an update writes: its configuration with all sections, or the default *)
(* for one that cannot be dumped.  Without a row the UPDATE changes none, and  *)
(* succeeds.                                                                 *)
Written(u) ==
  IF row THEN Completed(IF u \in Invalid THEN DefaultConfig ELSE Sent(u)) ELSE stored

(* update_user_config.                                                       *)
Save(u) ==
  /\ step[u] = "new"
  /\ \/ /\ stored' = Written(u)
        /\ Goto(u, "saved") /\ UNCHANGED faults
     \/ /\ Fault /\ stored' \in {stored, Written(u)}
        /\ Goto(u, "failed")
  /\ UNCHANGED <<row, tierVars, got>>

(* All tiers are invalidated and set to the configuration as it was sent; what *)
(* Redis does not do is not noticed, one that cannot be dumped does not get    *)
(* there, and a memory tier that no read has made yet is left alone.           *)
Publish(u) ==
  LET w == HomeOf[u] IN
  /\ step[u] = "saved"
  /\ \E deleted \in Works, set \in (IF u \in Invalid THEN {FALSE} ELSE Works) :
       /\ cache' = [cache EXCEPT
            ![w] = IF w \in made THEN Sent(u) ELSE @,
            ![Redis] = IF set THEN Sent(u) ELSE IF deleted THEN None ELSE @]
       /\ old' = old \ ({w} \cup IF set \/ deleted THEN {Redis} ELSE {})
  /\ Goto(u, "done")
  /\ UNCHANGED <<tableVars, made, got>>

-----------------------------------------------------------------------------
(* Time, room and restarts.                                                   *)

Age(t) ==
  /\ cache[t] # None /\ t \notin old
  /\ old' = old \cup {t}
  /\ UNCHANGED <<tableVars, cache, made, step, got>>

Expire(t) ==
  /\ t \in old
  /\ cache' = [cache EXCEPT ![t] = None]
  /\ old' = old \ {t}
  /\ UNCHANGED <<tableVars, made, step, got>>

(* The entries of other users fill the memory of a worker.                    *)
Evict(w) ==
  /\ cache[w] # None
  /\ cache' = [cache EXCEPT ![w] = None]
  /\ old' = old \ {w}
  /\ UNCHANGED <<tableVars, made, step, got>>

(* A worker restarts; its calls end where they are.                           *)
Restart(w) ==
  /\ w \in made
  /\ made' = made \ {w}
  /\ cache' = [cache EXCEPT ![w] = None]
  /\ old' = old \ {w}
  /\ step' = [t \in Readers \cup Writers |->
                IF HomeOf[t] # w THEN step[t]
                ELSE IF t \in Readers THEN "idle"
                ELSE IF step[t] = "saved" THEN "failed" ELSE step[t]]
  /\ got' = [r \in Readers |-> IF HomeOf[r] = w THEN None ELSE got[r]]
  /\ UNCHANGED tableVars

Next ==
  \/ \E r \in Readers : Find(r) \/ Miss(r) \/ Read(r)
  \/ CreateConversation
  \/ \E u \in Writers : Save(u) \/ Publish(u)
  \/ \E t \in Tiers : Age(t) \/ Expire(t)
  \/ \E w \in Workers : Evict(w) \/ Restart(w)

Spec == Init /\ [][Next]_vars

(* Entries age and expire.  Nobody has to read, and no call has to end.       *)
FairSpec == Spec /\ \A t \in Tiers : WF_vars(Age(t)) /\ WF_vars(Expire(t))

-----------------------------------------------------------------------------
ReaderSteps == {"idle", "querying", "creating", "fallback", "answered"}
WriterSteps == {"new", "saved", "done", "failed"}

(* Every variable keeps its type; an expired entry is an entry, a memory tier *)
(* that does not exist has none, and a reader fills only with something.      *)
TypeOK ==
  /\ row \in BOOLEAN /\ stored \in Configs \cup {None} /\ (stored # None => row)
  /\ cache \in [Tiers -> Configs \cup {None}]
  /\ old \subseteq {t \in Tiers : cache[t] # None}
  /\ made \subseteq Workers /\ \A w \in Workers \ made : cache[w] = None
  /\ step \in [Readers \cup Writers -> ReaderSteps \cup WriterSteps]
  /\ \A r \in Readers : step[r] \in ReaderSteps
  /\ \A u \in Writers : step[u] \in WriterSteps
  /\ got \in [Readers -> Configs \cup {None}]
  /\ \A r \in Readers : step[r] = "answered" => got[r] # None
  /\ \A r \in Readers : step[r] # "idle" => HomeOf[r] \in made
  /\ faults \in 0..MaxFaults

Own == stored # None /\ stored.of # Default

(* Once a user has a configuration of their own only an update whose          *)
(* configuration cannot be dumped puts a default in its place in the table,    *)
(* though a read that failed or came too early goes on to insert one, and      *)
(* create_conversation always does.                                           *)
NeverReset == [][Own => Own' \/ \E u \in Invalid : Save(u)]_vars

(* A configuration read before an update may be written to the caches after   *)
(* it, an update may reach the table and not Redis, or the caches as it was    *)
(* sent and the table as it was completed or replaced, and another worker      *)
(* keeps what it has; all of that passes when the updates have, for a tier     *)
(* passes on what it has but not its time to live.                             *)
EventuallyFresh == <>[](\A t \in Tiers : cache[t] \in {None, stored})

(* "Returns the user's configuration": what ensure_user_exists returns is what *)
(* the table has.                                                              *)
EnsureReturnsStored ==
  [][\A r \in Readers :
       step[r] = "creating" /\ step'[r] = "answered" => got'[r] = stored']_vars

=============================================================================
