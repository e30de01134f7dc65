------------------------- MODULE ConfigTiers_proofs -------------------------
(***************************************************************************)
(* Theorems of ConfigTiers for any workers, readers, updates and number of *)
(* faults: types, and what may put a default over a user's configuration.  *)
(***************************************************************************)
EXTENDS ConfigTiers, TLAPS

Tasks == Readers \cup Writers

(* The configurations that are sent, completed and written are some.          *)
LEMMA ConfigTypes ==
  /\ None \notin Configs /\ DefaultConfig \in Configs
  /\ \A u \in Writers : Sent(u) \in Configs /\ Sent(u).of = u
  /\ \A c \in Configs : Completed(c) \in Configs /\ Completed(c).of = c.of
  BY TiersAssumption DEF Configs, DefaultConfig, Sent, Completed

LEMMA WrittenType ==
  ASSUME TypeOK, NEW u \in Writers
  PROVE  Written(u) \in Configs \cup {None} /\ (Written(u) # None => row)
  BY ConfigTypes DEF TypeOK, Written

LEMMA InitType == Init => TypeOK
  BY TiersAssumption
  DEF Init, TypeOK, Tiers, Configs, ReaderSteps, WriterSteps

(* A step of a reader other than to "answered" goes to one of its steps.       *)
LEMMA ReaderGoes ==
  ASSUME TypeOK, NEW r \in Readers, NEW s \in ReaderSteps, Goto(r, s), HomeOf[r] \in made'
  PROVE  /\ step' \in [Tasks -> ReaderSteps \cup WriterSteps]
         /\ \A q \in Readers : step'[q] \in ReaderSteps
         /\ \A u \in Writers : step'[u] \in WriterSteps
         /\ step'[r] = s /\ \A q \in Readers : q # r => step'[q] = step[q]
  BY TiersAssumption DEF TypeOK, Goto, Tasks

LEMMA WriterGoes ==
  ASSUME TypeOK, NEW u \in Writers, NEW s \in WriterSteps, Goto(u, s)
  PROVE  /\ step' \in [Tasks -> ReaderSteps \cup WriterSteps]
         /\ \A q \in Readers : step'[q] = step[q]
         /\ \A x \in Writers : step'[x] \in WriterSteps
  BY TiersAssumption DEF TypeOK, Goto, Tasks

(* What ensure_user_exists and a failing call leave behind has its type.       *)
LEMMA EnsureType ==
  ASSUME TypeOK, Ensure
  PROVE  row' \in BOOLEAN /\ stored' \in Configs \cup {None} /\ (stored' # None => row')
  BY ConfigTypes DEF TypeOK, Ensure

LEMMA FaultType ==
  ASSUME TypeOK, Fault
  PROVE  faults' \in 0..MaxFaults
  BY TiersAssumption DEF TypeOK, Fault

LEMMA ReadType ==
  ASSUME TypeOK, NEW r \in Readers, Read(r)
  PROVE  TypeOK'
<1>0. /\ HomeOf[r] \in Workers /\ HomeOf[r] # Redis
      /\ DefaultConfig \in Configs /\ DefaultConfig # None
      /\ {"answered", "creating", "fallback", "idle"} \subseteq ReaderSteps
  BY TiersAssumption, ConfigTypes DEF ReaderSteps
<1>1. step[r] # "idle"
  BY DEF Read, Query, Create, Fallback, Fill
<1>2. HomeOf[r] \in made  BY <1>1 DEF TypeOK
<1>3. CASE Query(r)
  <2>1. UNCHANGED <<row, stored, cache, old, made>>
    BY <1>3 DEF Query, tierVars
  <2>2. faults' \in 0..MaxFaults
    BY <1>3, FaultType DEF Query, TypeOK
  <2>3. CASE stored # None /\ got' = [got EXCEPT ![r] = stored] /\ Goto(r, "answered")
    BY <1>0, <1>2, <2>1, <2>2, <2>3, ReaderGoes DEF TypeOK, Tasks
  <2>4. CASE Goto(r, "creating") /\ got' = got
    BY <1>0, <1>2, <2>1, <2>2, <2>4, ReaderGoes DEF TypeOK, Tasks
  <2> QED BY <1>3, <2>3, <2>4 DEF Query
<1>4. CASE Create(r)
  <2>1. UNCHANGED <<cache, old, made>>
    BY <1>4 DEF Create, tierVars
  <2>2. faults' \in 0..MaxFaults
    BY <1>4, FaultType DEF Create, TypeOK
  <2>3. row' \in BOOLEAN /\ stored' \in Configs \cup {None} /\ (stored' # None => row')
    BY <1>4, EnsureType DEF Create, TypeOK
  <2>4. CASE got' = [got EXCEPT ![r] = DefaultConfig] /\ Goto(r, "answered")
    <3>1. got' \in [Readers -> Configs \cup {None}] /\ got'[r] # None
      BY <1>0, <2>4, TiersAssumption DEF TypeOK
    <3> QED BY <1>0, <1>2, <2>1, <2>2, <2>3, <2>4, <3>1, ReaderGoes DEF TypeOK, Tasks
  <2>5. CASE Goto(r, "fallback") /\ got' = got
    BY <1>0, <1>2, <2>1, <2>2, <2>3, <2>5, ReaderGoes DEF TypeOK, Tasks
  <2> QED BY <1>4, <2>4, <2>5 DEF Create
<1>5. CASE Fallback(r)
  <2>1. UNCHANGED <<row, stored, cache, old, made>>
    BY <1>5 DEF Fallback, tierVars
  <2>2. faults' \in 0..MaxFaults
    BY <1>5, FaultType DEF Fallback, TypeOK
  <2>3. CASE got' = [got EXCEPT ![r] = Legacy] /\ Goto(r, "answered")
    <3>0. Legacy \in Configs /\ Legacy # None
      BY ConfigTypes DEF Legacy, TypeOK
    <3>1. got' \in [Readers -> Configs \cup {None}] /\ got'[r] # None
      BY <2>3, <3>0 DEF TypeOK
    <3> QED BY <1>0, <1>2, <2>1, <2>2, <2>3, <3>1, ReaderGoes DEF TypeOK, Tasks
  <2>4. CASE Goto(r, "idle") /\ got' = got
    BY <1>0, <1>2, <2>1, <2>2, <2>4, ReaderGoes DEF TypeOK, Tasks
  <2> QED BY <1>5, <2>3, <2>4 DEF Fallback
<1>6. CASE Fill(r)
  <2>1. /\ UNCHANGED <<row, stored, faults, made>> /\ Goto(r, "idle")
        /\ got' = [got EXCEPT ![r] = None]
    BY <1>6 DEF Fill, tableVars
  <2>2. got[r] \in Configs /\ got[r] # None
    BY <1>6 DEF Fill, TypeOK
  <2>3. PICK set \in Works :
          /\ cache' = [cache EXCEPT ![HomeOf[r]] = got[r],
                                    ![Redis] = IF set THEN got[r] ELSE @]
          /\ old' = old \ ({HomeOf[r]} \cup IF set THEN {Redis} ELSE {})
    BY <1>6 DEF Fill
  <2>4. /\ cache' \in [Tiers -> Configs \cup {None}]
        /\ \A t \in Tiers : cache'[t] = IF t = HomeOf[r] \/ (t = Redis /\ set)
                                        THEN got[r] ELSE cache[t]
    BY <1>0, <2>2, <2>3 DEF TypeOK, Tiers
  <2>5. /\ old' \subseteq {t \in Tiers : cache'[t] # None}
        /\ \A w \in Workers \ made : cache'[w] = None
    BY <1>0, <1>2, <2>2, <2>3, <2>4, TiersAssumption DEF TypeOK, Tiers
  <2>6. /\ step' \in [Tasks -> ReaderSteps \cup WriterSteps]
        /\ \A q \in Readers : step'[q] \in ReaderSteps
        /\ \A u \in Writers : step'[u] \in WriterSteps
        /\ step'[r] = "idle" /\ \A q \in Readers : q # r => step'[q] = step[q]
    BY <1>0, <1>2, <2>1, ReaderGoes
  <2>7. /\ got' \in [Readers -> Configs \cup {None}]
        /\ \A q \in Readers : q # r => got'[q] = got[q]
    BY <2>1 DEF TypeOK
  <2>8. old' \subseteq Tiers /\ made' \subseteq Workers  BY <2>1, <2>5 DEF TypeOK
  <2> QED BY <2>1, <2>4, <2>5, <2>6, <2>7, <2>8 DEF TypeOK, Tasks
<1> QED BY <1>3, <1>4, <1>5, <1>6 DEF Read

LEMMA PublishType ==
  ASSUME TypeOK, NEW u \in Writers, Publish(u)
  PROVE  TypeOK'
<1> DEFINE w == HomeOf[u]
<1>0. /\ w \in Workers /\ w # Redis /\ "done" \in WriterSteps
      /\ Sent(u) \in Configs /\ Sent(u) # None
  BY TiersAssumption, ConfigTypes DEF WriterSteps
<1>1. UNCHANGED <<row, stored, faults, made, got>> /\ Goto(u, "done")
  BY DEF Publish, tableVars
<1>2. PICK deleted \in Works, set \in Works \cup {FALSE} :
        /\ cache' = [cache EXCEPT
             ![w] = IF w \in made THEN Sent(u) ELSE @,
             ![Redis] = IF set THEN Sent(u) ELSE IF deleted THEN None ELSE @]
        /\ old' = old \ ({w} \cup IF set \/ deleted THEN {Redis} ELSE {})
  BY DEF Publish
<1>3. /\ cache' \in [Tiers -> Configs \cup {None}]
      /\ cache'[w] = IF w \in made THEN Sent(u) ELSE cache[w]
      /\ cache'[Redis] = IF set THEN Sent(u) ELSE IF deleted THEN None ELSE cache[Redis]
      /\ \A t \in Tiers : t \notin {w, Redis} => cache'[t] = cache[t]
  BY <1>0, <1>2 DEF TypeOK, Tiers
<1>4. /\ old' \subseteq {t \in Tiers : cache'[t] # None}
      /\ \A v \in Workers \ made : cache'[v] = None
  BY <1>0, <1>2, <1>3, TiersAssumption DEF TypeOK, Tiers
<1> QED BY <1>0, <1>1, <1>3, <1>4, WriterGoes DEF TypeOK, Tasks

LEMMA RestartType ==
  ASSUME TypeOK, NEW w \in Workers, Restart(w)
  PROVE  TypeOK'
<1>1. /\ UNCHANGED <<row, stored, faults>>
      /\ made' = made \ {w} /\ old' = old \ {w}
      /\ cache' = [cache EXCEPT ![w] = None]
      /\ got' = [r \in Readers |-> IF HomeOf[r] = w THEN None ELSE got[r]]
  BY DEF Restart, tableVars
<1>2. /\ step' \in [Tasks -> ReaderSteps \cup WriterSteps]
      /\ \A r \in Readers : step'[r] = IF HomeOf[r] = w THEN "idle" ELSE step[r]
      /\ \A u \in Writers : step'[u] \in {step[u], "failed"}
  BY TiersAssumption DEF Restart, TypeOK, Tasks, ReaderSteps, WriterSteps
<1>3. /\ cache' \in [Tiers -> Configs \cup {None}]
      /\ cache'[w] = None /\ \A t \in Tiers : t # w => cache'[t] = cache[t]
  BY <1>1 DEF TypeOK, Tiers
<1>4. "idle" \in ReaderSteps /\ "failed" \in WriterSteps /\ "answered" # "idle"
  BY DEF ReaderSteps, WriterSteps
<1> QED BY <1>1, <1>2, <1>3, <1>4 DEF TypeOK, Tasks

LEMMA TypeStep == TypeOK /\ [Next]_vars => TypeOK'
<1> SUFFICES ASSUME TypeOK, [Next]_vars PROVE TypeOK'  OBVIOUS
<1>1. ASSUME NEW r \in Readers, Find(r) PROVE TypeOK'
  <2> DEFINE w == HomeOf[r]
  <2>0. w \in Workers /\ w # Redis  BY TiersAssumption
  <2>1. /\ UNCHANGED <<row, stored, faults, step, got>>
        /\ cache[Redis] # None /\ cache' = [cache EXCEPT ![w] = cache[Redis]]
        /\ old' = old \ {w} /\ made' = made \cup {w}
    BY <1>1 DEF Find, tableVars
  <2>2. /\ cache' \in [Tiers -> Configs \cup {None}]
        /\ \A t \in Tiers : t # w => cache'[t] = cache[t]
    BY <2>0, <2>1 DEF TypeOK, Tiers
  <2> QED BY <2>0, <2>1, <2>2 DEF TypeOK, Tiers
<1>2. ASSUME NEW r \in Readers, Miss(r) PROVE TypeOK'
  <2>0. HomeOf[r] \in Workers /\ "querying" \in ReaderSteps
    BY TiersAssumption DEF ReaderSteps
  <2>1. /\ UNCHANGED <<row, stored, faults, cache, old, got>>
        /\ made' = made \cup {HomeOf[r]} /\ Goto(r, "querying")
    BY <1>2 DEF Miss, tableVars
  <2> QED BY <2>0, <2>1, ReaderGoes DEF TypeOK, Tasks
<1>3. CASE CreateConversation
  BY <1>3, EnsureType DEF CreateConversation, TypeOK, tierVars
<1>4. ASSUME NEW u \in Writers, Save(u) PROVE TypeOK'
  <2>1. UNCHANGED <<row, cache, old, made, got>>
    BY <1>4 DEF Save, tierVars
  <2>2. faults' \in 0..MaxFaults
    BY <1>4, FaultType DEF Save, TypeOK
  <2>3. stored' \in Configs \cup {None} /\ (stored' # None => row)
    BY <1>4, WrittenType DEF Save, TypeOK
  <2>4. (Goto(u, "saved") \/ Goto(u, "failed")) /\ {"saved", "failed"} \subseteq WriterSteps
    BY <1>4 DEF Save, WriterSteps
  <2> QED BY <2>1, <2>2, <2>3, <2>4, WriterGoes DEF TypeOK, Tasks
<1>5. ASSUME NEW t \in Tiers, Age(t) PROVE TypeOK'
  BY <1>5 DEF Age, tableVars, TypeOK
<1>6. ASSUME NEW t \in Tiers, Expire(t) \/ Evict(t) PROVE TypeOK'
  <2>1. /\ UNCHANGED <<row, stored, faults, made, step, got>>
        /\ cache' = [cache EXCEPT ![t] = None] /\ old' = old \ {t}
    BY <1>6 DEF Expire, Evict, tableVars
  <2>2. /\ cache' \in [Tiers -> Configs \cup {None}]
        /\ cache'[t] = None /\ \A x \in Tiers : x # t => cache'[x] = cache[x]
    BY <2>1 DEF TypeOK
  <2> QED BY <2>1, <2>2 DEF TypeOK, Tiers
<1>7. CASE UNCHANGED vars
  BY <1>7 DEF vars, tableVars, tierVars, TypeOK
<1>8. Workers \subseteq Tiers  BY DEF Tiers
<1> QED BY <1>1, <1>2, <1>3, <1>4, <1>5, <1>6, <1>7, <1>8, ReadType, PublishType, RestartType
        DEF Next

(* Every variable keeps its type: expired entries are entries, a memory tier   *)
(* that is not made has none (_memory_cache_get), and what a reader takes to   *)
(* the caches is a configuration.                                              *)
THEOREM TypeCorrect == Spec => []TypeOK
  BY InitType, TypeStep, PTL DEF Spec

(* A user's own configuration is replaced in the table by updates only, and by *)
(* a default only in one whose configuration cannot be dumped: the COALESCE of *)
(* ensure_user_exists keeps it, whatever failed or overtook.                   *)
THEOREM OwnConfigurationKept == Spec => NeverReset
<1>1. TypeOK /\ [Next]_vars => [Own => Own' \/ \E u \in Invalid : Save(u)]_vars
  <2> SUFFICES ASSUME TypeOK, Next, Own, \A u \in Invalid : ~Save(u) PROVE Own'
    OBVIOUS
  <2>1. Own' \/ stored' # stored
    BY DEF Own
  <2>2. Ensure => stored' = stored
    BY DEF Own, Ensure
  <2>3. ASSUME NEW r \in Readers, Find(r) \/ Miss(r) PROVE stored' = stored
    BY <2>3 DEF Find, Miss, tableVars
  <2>4. ASSUME NEW r \in Readers, Read(r) PROVE stored' = stored
    BY <2>2, <2>4 DEF Read, Query, Create, Fallback, Fill, tableVars
  <2>5. ASSUME NEW u \in Writers, Save(u) PROVE Own'
    <3>1. u \notin Invalid /\ row
      BY <2>5 DEF Own, TypeOK
    <3>2. Written(u) = Completed(Sent(u))
      BY <3>1 DEF Written
    <3>3. Written(u) # None /\ Written(u).of = u /\ u # Default
      BY <3>2, ConfigTypes, TiersAssumption
    <3>4. stored' \in {stored, Written(u)}
      BY <2>5 DEF Save
    <3> QED BY <3>3, <3>4 DEF Own
  <2>6. ASSUME NEW u \in Writers, Publish(u) PROVE stored' = stored
    BY <2>6 DEF Publish, tableVars
  <2>7. ASSUME NEW t, Age(t) \/ Expire(t) \/ Evict(t) \/ Restart(t) PROVE stored' = stored
    BY <2>7 DEF Age, Expire, Evict, Restart, tableVars
  <2> QED BY <2>1, <2>2, <2>3, <2>4, <2>5, <2>6, <2>7 DEF Next, CreateConversation
<1> QED BY <1>1, TypeCorrect, PTL DEF Spec, NeverReset
=============================================================================
