------------------------ MODULE CompletionTurn_proofs ------------------------
(***************************************************************************)
(* Proofs about CompletionTurn, for any requests, keys and budgets: types,  *)
(* the bound on the runs of a turn, the handles that are given back, and    *)
(* the servers that retries run on.                                         *)
(***************************************************************************)
EXTENDS CompletionTurn, FiniteSetTheorems, TLAPS

-----------------------------------------------------------------------------
(* Types and budgets.                                                        *)

(* The runs that one call of _build_and_run may make.                        *)
Call == StaleRetries + OverflowRetries + 1

(* The runs so far are paid for: by the calls that are over, by the retries   *)
(* of this one, and by its first run.                                         *)
Started(t) ==
  IF t.at \in {"new", "composing", "cooling"} \/ t.by = "router" THEN 0 ELSE 1

Paid(t) == t.runs <= (t.cold + t.pass) * Call + t.stale + t.summed + Started(t)

(* What holds of the turn of r when its locals are t: a retry that has been   *)
(* decided still has budget left.                                             *)
Fine(r, t) ==
  /\ t \in Turns
  /\ t.at \in {"storing", "locating", "running", "releasing"} => t.using # None
  /\ t.at = "releasing" => t.giving # None
  /\ t.pass <= MaxPasses[r]
  /\ t.at = "refreshing" => t.stale < StaleRetries
  /\ t.at = "summarizing" => t.summed < OverflowRetries
  /\ t.why = "overflow" => t.at = "releasing" /\ t.summed < OverflowRetries
  /\ Paid(t)

SharedTyped ==
  /\ live \subseteq Servers /\ made \in 0..MaxServers
  /\ held \in [Servers -> Int]
  /\ composer \in Requests \cup {None, Spent} /\ slot \in Servers \cup {None}
  /\ cache \in [Keys -> Servers \cup {None}]
  /\ blamed \in [Requests -> SUBSET Servers]

Typed ==
  /\ SharedTyped
  /\ turn = [r \in Requests |-> turn[r]]
  /\ \A r \in Requests : Fine(r, turn[r])

LEMMA Monotone ==
  ASSUME NEW a \in Nat, NEW b \in Nat, NEW c \in Nat, a <= b PROVE a * c <= b * c
<1>1. PICK d \in Nat : b = a + d
  BY b - a \in Nat /\ b = a + (b - a)
<1>2. (a + d) * c = a * c + d * c /\ d * c >= 0
  OBVIOUS
<1> QED BY <1>1, <1>2

LEMMA OneMoreCall == \A a \in Nat : (a + 1) * Call = a * Call + Call /\ a * Call \in Nat
  BY TurnAssumption DEF Call

LEMMA TypedFits == Typed => TypeOK /\ RunsBounded
<1> SUFFICES ASSUME Typed PROVE TypeOK /\ RunsBounded
  OBVIOUS
<1>1. TypeOK
  BY DEF Typed, SharedTyped, TypeOK, Fine
<1>2. ASSUME NEW r \in Requests
      PROVE  turn[r].runs <= (ColdRetries + MaxPasses[r] + 1) * Call
  <2> DEFINE t == turn[r]
             n == t.cold + t.pass
             m == ColdRetries + MaxPasses[r]
  <2>1. /\ n \in Nat /\ m \in Nat /\ n <= m /\ Call \in Nat
        /\ t.stale + t.summed + Started(t) <= Call /\ t.stale \in Nat /\ t.summed \in Nat
        /\ t.runs \in Nat /\ Started(t) \in 0..1
    BY TurnAssumption DEF Typed, Fine, Turns, Call, Started
  <2>2. t.runs <= n * Call + t.stale + t.summed + Started(t)
    BY DEF Typed, Fine, Paid
  <2>3. n * Call <= m * Call
    BY <2>1, Monotone
  <2>4. (m + 1) * Call = m * Call + Call /\ m * Call \in Nat /\ n * Call \in Nat
    BY <2>1, OneMoreCall
  <2> HIDE DEF t, n, m
  <2>5. t.runs <= (m + 1) * Call
    BY <2>1, <2>2, <2>3, <2>4
  <2> QED BY <2>5 DEF t, m
<1> QED BY <1>1, <1>2 DEF RunsBounded, Call

LEMMA OneTurn ==
  ASSUME Typed, NEW r \in Requests, NEW t, Fine(r, t), turn' = [turn EXCEPT ![r] = t],
         SharedTyped'
  PROVE  Typed'
  BY DEF Typed

(* Changing a local to a value of its type.                                  *)
LEMMA Change ==
  ASSUME NEW t \in Turns
  PROVE  /\ \A v \in Places : [t EXCEPT !.at = v] \in Turns
         /\ \A v \in {"router", "attempt"} : [t EXCEPT !.by = v] \in Turns
         /\ \A v \in Servers \cup {None} : [t EXCEPT !.using = v] \in Turns
         /\ \A v \in Servers \cup {None} : [t EXCEPT !.giving = v] \in Turns
         /\ \A v \in Reasons : [t EXCEPT !.why = v] \in Turns
         /\ \A v \in 0..StaleRetries : [t EXCEPT !.stale = v] \in Turns
         /\ \A v \in 0..OverflowRetries : [t EXCEPT !.summed = v] \in Turns
         /\ \A v \in 0..ColdRetries : [t EXCEPT !.cold = v] \in Turns
         /\ \A v \in Nat : [t EXCEPT !.pass = v] \in Turns
         /\ \A v \in Nat : [t EXCEPT !.runs = v] \in Turns
  BY DEF Turns

LEMMA FineAt == ASSUME NEW r \in Requests PROVE Fine(r, At("over")) /\ Fine(r, At("new"))
<1>1. At("over") \in Turns /\ At("new") \in Turns
  BY TurnAssumption DEF At, Turns, Places, Reasons
<1>2. Paid(At("over")) /\ Paid(At("new"))
  BY TurnAssumption DEF Paid, Started, At, Call
<1> QED BY <1>1, <1>2, TurnAssumption DEF Fine, At

LEMMA InitTyped == Init => Typed
  BY FineAt, TurnAssumption DEF Init, Typed, SharedTyped, Servers

LEMMA QuitTyped ==
  ASSUME Typed, NEW r \in Requests, Quit(r), SharedTyped'
  PROVE  Typed'
  BY FineAt, OneTurn DEF Quit

LEMMA QuitBlamed ==
  ASSUME SharedTyped, NEW r \in Requests, Quit(r)
  PROVE  blamed' \in [Requests -> SUBSET Servers]
  BY DEF Quit, SharedTyped

LEMMA DismissTyped ==
  ASSUME SharedTyped, NEW r \in Requests, Dismiss(r)
  PROVE  composer' \in Requests \cup {None, Spent} /\ slot' \in Servers \cup {None}
  BY DEF Dismiss, SharedTyped

LEMMA RestTyped ==
  ASSUME Typed, NEW r \in Requests, NEW place \in {"passed", "summarizing", "refreshing"},
         Rest(r, place), turn[r].at \in {"running", "releasing"}, SharedTyped',
         place = "summarizing" => turn[r].summed < OverflowRetries,
         place = "refreshing" => turn[r].stale < StaleRetries
  PROVE  Typed'
<1> DEFINE t == [turn[r] EXCEPT !.at = place, !.using = None, !.giving = None,
                                !.why = "answer"]
<1>1. turn' = [turn EXCEPT ![r] = t]
  BY DEF Rest, Typed
<1>2. turn[r] \in Turns /\ Fine(r, turn[r])
  BY DEF Typed, Fine
<1>3. t \in Turns
  BY <1>2, Change, TurnAssumption DEF Places, Reasons
<1>4. /\ t.at = place /\ t.by = turn[r].by /\ t.using = None /\ t.giving = None
      /\ t.why = "answer" /\ t.stale = turn[r].stale /\ t.summed = turn[r].summed
      /\ t.cold = turn[r].cold /\ t.pass = turn[r].pass /\ t.runs = turn[r].runs
  BY <1>2 DEF Turns
<1> HIDE DEF t
<1>5. Paid(t)
  BY <1>2, <1>4, TurnAssumption DEF Fine, Paid, Started, Turns, Call
<1>6. Fine(r, t)
  BY <1>2, <1>3, <1>4, <1>5, TurnAssumption DEF Fine, Turns
<1> QED BY <1>1, <1>6, OneTurn

LEMMA SettleTyped ==
  ASSUME Typed, NEW r \in Requests, NEW reason \in Reasons, Settle(r, reason),
         turn[r].at \in {"running", "releasing"},
         reason = "overflow" => turn[r].summed < OverflowRetries,
         held' \in [Servers -> Int], UNCHANGED serverVars
  PROVE  Typed'
<1>0. turn[r].using \in Servers
  BY DEF Typed, Fine, Turns
<1>1. SharedTyped'
  <2>1. cache' \in [Keys -> Servers \cup {None}]
    BY DEF Settle, Purge, Typed, SharedTyped
  <2>2. blamed' \in [Requests -> SUBSET Servers]
    BY <1>0, QuitBlamed DEF Settle, Typed, SharedTyped
  <2> QED BY <2>1, <2>2, DismissTyped DEF Settle, Typed, SharedTyped, serverVars
<1> QED BY <1>1, QuitTyped, RestTyped DEF Settle

LEMMA StepTyped == Typed /\ [Next]_vars => Typed'
<1> SUFFICES ASSUME Typed, [Next]_vars PROVE Typed'
  OBVIOUS
<1>0. SharedTyped /\ \A r \in Requests : Fine(r, turn[r]) /\ turn[r] \in Turns
  BY DEF Typed, Fine
<1>1. ASSUME NEW r \in Requests, Start(r) PROVE Typed'
  <2>0. SharedTyped'
    BY <1>0, <1>1 DEF Start, SharedTyped, serverVars, composerVars
  <2>1. Builder(r) \in {"router", "attempt"}
    BY DEF Builder
  <2> DEFINE t == [turn[r] EXCEPT !.at = "composing", !.by = Builder(r)]
  <2>2. turn' = [turn EXCEPT ![r] = t]
    BY <1>1 DEF Start, Typed
  <2>3. turn[r] \in Turns /\ Fine(r, turn[r])
    BY DEF Typed, Fine
  <2>4. t \in Turns
    BY <1>1, <2>1, <2>3, Change, TurnAssumption DEF Places, Reasons, Start, IsAt
  <2>5. /\ t.at = "composing" /\ t.by = Builder(r) /\ t.using = turn[r].using
        /\ t.giving = turn[r].giving /\ t.why = turn[r].why
        /\ t.stale = turn[r].stale /\ t.summed = turn[r].summed
        /\ t.cold = turn[r].cold /\ t.pass = turn[r].pass /\ t.runs = turn[r].runs
    BY <2>3 DEF Turns
  <2> HIDE DEF t
  <2>6. Paid(t)
    BY <1>1, <2>1, <2>3, <2>5, TurnAssumption DEF Fine, Paid, Started, Turns, Call,
       Start, IsAt
  <2>7. Fine(r, t)
    BY <1>1, <2>1, <2>3, <2>4, <2>5, <2>6, TurnAssumption DEF Fine, Turns, Start, IsAt
  <2> QED BY <2>2, <2>7, <2>0, OneTurn
<1>2. ASSUME NEW r \in Requests, Compose(r) PROVE Typed'
  <2>0. SharedTyped'
    BY <1>0, <1>2 DEF Compose, SharedTyped, serverVars, composerVars
  <2>1. /\ Attempts(turn[r]) \in Nat /\ Attempts(turn[r]) <= turn[r].runs + 1
        /\ turn[r].by = "router" => Attempts(turn[r]) = turn[r].runs
    BY <1>0 DEF Attempts, Turns
  <2>2. CASE Hit(r)
    <3> DEFINE t == [turn[r] EXCEPT !.at = "locating", !.using = cache[KeyOf[r]],
                                    !.runs = Attempts(turn[r])]
    <3>1. turn' = [turn EXCEPT ![r] = t]
      BY <1>2, <2>2 DEF Compose, Typed
    <3>2. turn[r] \in Turns /\ Fine(r, turn[r])
      BY DEF Typed, Fine
    <3>3. t \in Turns
      BY <1>0, <1>2, <2>1, <2>2, <3>2, Change, TurnAssumption DEF Places, Reasons,
         Compose, IsAt, Hit, SharedTyped
    <3>4. /\ t.at = "locating" /\ t.by = turn[r].by /\ t.using = cache[KeyOf[r]]
          /\ t.giving = turn[r].giving /\ t.why = turn[r].why
          /\ t.stale = turn[r].stale /\ t.summed = turn[r].summed
          /\ t.cold = turn[r].cold /\ t.pass = turn[r].pass
          /\ t.runs = Attempts(turn[r])
      BY <3>2 DEF Turns
    <3> HIDE DEF t
    <3>5. Paid(t)
      BY <1>0, <1>2, <2>1, <2>2, <3>2, <3>4, TurnAssumption DEF Fine, Paid, Started,
         Turns, Call, Compose, IsAt, Hit, SharedTyped
    <3>6. Fine(r, t)
      BY <1>0, <1>2, <2>1, <2>2, <3>2, <3>3, <3>4, <3>5, TurnAssumption DEF Fine, Turns,
         Compose, IsAt, Hit, SharedTyped
    <3> QED BY <3>1, <3>6, <2>0, OneTurn
  <2>3. CASE ~Hit(r)
    <3> DEFINE t == [turn[r] EXCEPT !.at = "building", !.runs = Attempts(turn[r])]
    <3>1. turn' = [turn EXCEPT ![r] = t]
      BY <1>2, <2>3 DEF Compose, Typed
    <3>2. turn[r] \in Turns /\ Fine(r, turn[r])
      BY DEF Typed, Fine
    <3>3. t \in Turns
      BY <1>2, <2>1, <3>2, Change, TurnAssumption DEF Places, Reasons, Compose, IsAt
    <3>4. /\ t.at = "building" /\ t.by = turn[r].by /\ t.using = turn[r].using
          /\ t.giving = turn[r].giving /\ t.why = turn[r].why
          /\ t.stale = turn[r].stale /\ t.summed = turn[r].summed
          /\ t.cold = turn[r].cold /\ t.pass = turn[r].pass
          /\ t.runs = Attempts(turn[r])
      BY <3>2 DEF Turns
    <3> HIDE DEF t
    <3>5. Paid(t)
      BY <1>2, <2>1, <3>2, <3>4, TurnAssumption DEF Fine, Paid, Started, Turns, Call,
         Compose, IsAt
    <3>6. Fine(r, t)
      BY <1>2, <2>1, <3>2, <3>3, <3>4, <3>5, TurnAssumption DEF Fine, Turns, Compose, IsAt
    <3> QED BY <3>1, <3>6, <2>0, OneTurn
  <2> QED BY <2>2, <2>3
<1>3. ASSUME NEW r \in Requests, Acquire(r) PROVE Typed'
  <2>1. PICK h \in Servers :
          /\ \/ h \in live /\ UNCHANGED serverVars
             \/ h = made + 1 /\ made' = h /\ live' = live \cup {h}
          /\ turn' = [turn EXCEPT ![r].at = "storing", ![r].using = h]
          /\ slot' = IF composer = Spent THEN None ELSE h
          /\ held' = [held EXCEPT ![h] = @ + 1]
    BY <1>3 DEF Acquire
  <2>2. SharedTyped'
    BY <1>0, <1>3, <2>1, TurnAssumption DEF Acquire, SharedTyped, serverVars, Servers
  <2>3. Typed'
    <3> DEFINE t == [turn[r] EXCEPT !.at = "storing", !.using = h]
    <3>1. turn' = [turn EXCEPT ![r] = t]
      BY <2>1 DEF Typed
    <3>2. turn[r] \in Turns /\ Fine(r, turn[r])
      BY DEF Typed, Fine
    <3>3. t \in Turns
      BY <1>3, <2>1, <3>2, Change, TurnAssumption DEF Places, Reasons, Acquire, IsAt
    <3>4. /\ t.at = "storing" /\ t.by = turn[r].by /\ t.using = h
          /\ t.giving = turn[r].giving /\ t.why = turn[r].why
          /\ t.stale = turn[r].stale /\ t.summed = turn[r].summed
          /\ t.cold = turn[r].cold /\ t.pass = turn[r].pass /\ t.runs = turn[r].runs
      BY <3>2 DEF Turns
    <3> HIDE DEF t
    <3>5. Paid(t)
      BY <1>3, <2>1, <3>2, <3>4, TurnAssumption DEF Fine, Paid, Started, Turns, Call,
         Acquire, IsAt
    <3>6. Fine(r, t)
      BY <1>3, <2>1, <3>2, <3>3, <3>4, <3>5, TurnAssumption DEF Fine, Turns, Acquire, IsAt
    <3> QED BY <3>1, <3>6, <2>2, OneTurn
  <2> QED BY <2>3
<1>4. ASSUME NEW r \in Requests, BuildFails(r) PROVE Typed'
  <2>0. SharedTyped'
    BY <1>0, <1>4, QuitBlamed, DismissTyped DEF BuildFails, SharedTyped, serverVars,
       composerVars
  <2>1. CASE Quit(r)
    BY <2>0, <2>1, QuitTyped
  <2>2. CASE ~Quit(r)
    <3> DEFINE t == [turn[r] EXCEPT !.at = "cooling", !.using = None,
                                    !.cold = turn[r].cold + 1, !.stale = 0, !.summed = 0]
    <3>1. turn' = [turn EXCEPT ![r] = t]
      BY <1>4, <2>2 DEF BuildFails, Typed, CountCold
    <3>2. turn[r] \in Turns /\ Fine(r, turn[r])
      BY DEF Typed, Fine
    <3>3. turn[r].cold + 1 \in 0..ColdRetries /\ 0 \in 0..StaleRetries /\ 0 \in 0..OverflowRetries
      BY <1>4, <2>2, <3>2, TurnAssumption DEF Fine, Turns, BuildFails, IsAt, CountCold
    <3>4. t \in Turns
      BY <1>4, <2>2, <3>2, <3>3, Change, TurnAssumption DEF Places, Reasons, BuildFails,
         IsAt, CountCold
    <3>5. /\ t.at = "cooling" /\ t.by = turn[r].by /\ t.using = None
          /\ t.giving = turn[r].giving /\ t.why = turn[r].why /\ t.stale = 0
          /\ t.summed = 0 /\ t.cold = turn[r].cold + 1 /\ t.pass = turn[r].pass
          /\ t.runs = turn[r].runs
      BY <3>2 DEF Turns
    <3> HIDE DEF t
    <3>6. (t.cold + t.pass) * Call = (turn[r].cold + turn[r].pass) * Call + Call
      <4>1. t.cold + t.pass = (turn[r].cold + turn[r].pass) + 1 /\ turn[r].cold + turn[r].pass \in Nat
        BY <3>2, <3>5, TurnAssumption DEF Turns
      <4> QED BY <4>1, OneMoreCall
    <3>7. (turn[r].cold + turn[r].pass) * Call \in Nat /\ Call = StaleRetries + OverflowRetries + 1
      BY <3>2, OneMoreCall, TurnAssumption DEF Turns, Call
    <3>8. Paid(t)
      BY <3>2, <3>5, <3>6, <3>7, TurnAssumption DEF Fine, Paid, Started, Turns
    <3>9. Fine(r, t)
      BY <1>4, <2>2, <3>2, <3>4, <3>5, <3>8, TurnAssumption DEF Fine, Turns, BuildFails,
         IsAt, CountCold
    <3> QED BY <3>1, <3>9, <2>0, OneTurn
  <2> QED BY <2>1, <2>2
<1>5. ASSUME NEW r \in Requests, Proceed(r), turn[r].at \in {"storing", "locating"}, SharedTyped'
      PROVE  Typed'
  <2>1. CASE turn[r].by = "router"
    <3> DEFINE t == [turn[r] EXCEPT !.at = "composing", !.using = None, !.by = "attempt"]
    <3>1. turn' = [turn EXCEPT ![r] = t]
      BY <1>5, <2>1 DEF Proceed, Typed
    <3>2. turn[r] \in Turns /\ Fine(r, turn[r])
      BY DEF Typed, Fine
    <3>3. t \in Turns
      BY <1>5, <2>1, <3>2, Change, TurnAssumption DEF Places, Reasons, IsAt
    <3>4. /\ t.at = "composing" /\ t.by = "attempt" /\ t.using = None
          /\ t.giving = turn[r].giving /\ t.why = turn[r].why
          /\ t.stale = turn[r].stale /\ t.summed = turn[r].summed
          /\ t.cold = turn[r].cold /\ t.pass = turn[r].pass /\ t.runs = turn[r].runs
      BY <3>2 DEF Turns
    <3> HIDE DEF t
    <3>5. Paid(t)
      BY <1>5, <2>1, <3>2, <3>4, TurnAssumption DEF Fine, Paid, Started, Turns, Call, IsAt
    <3>6. Fine(r, t)
      BY <1>5, <2>1, <3>2, <3>3, <3>4, <3>5, TurnAssumption DEF Fine, Turns, IsAt
    <3> QED BY <3>1, <3>6, <1>5, OneTurn
  <2>2. CASE turn[r].by = "attempt"
    <3> DEFINE t == [turn[r] EXCEPT !.at = "running"]
    <3>1. turn' = [turn EXCEPT ![r] = t]
      BY <1>5, <2>2 DEF Proceed, Typed
    <3>2. turn[r] \in Turns /\ Fine(r, turn[r])
      BY DEF Typed, Fine
    <3>3. t \in Turns
      BY <1>5, <2>2, <3>2, Change, TurnAssumption DEF Places, Reasons, IsAt
    <3>4. /\ t.at = "running" /\ t.by = turn[r].by /\ t.using = turn[r].using
          /\ t.giving = turn[r].giving /\ t.why = turn[r].why
          /\ t.stale = turn[r].stale /\ t.summed = turn[r].summed
          /\ t.cold = turn[r].cold /\ t.pass = turn[r].pass /\ t.runs = turn[r].runs
      BY <3>2 DEF Turns
    <3> HIDE DEF t
    <3>5. Paid(t)
      BY <1>5, <2>2, <3>2, <3>4, TurnAssumption DEF Fine, Paid, Started, Turns, Call, IsAt
    <3>6. Fine(r, t)
      BY <1>5, <2>2, <3>2, <3>3, <3>4, <3>5, TurnAssumption DEF Fine, Turns, IsAt
    <3> QED BY <3>1, <3>6, <1>5, OneTurn
  <2> QED BY <1>5, <2>1, <2>2 DEF Proceed
<1>6. ASSUME NEW r \in Requests, Store(r) PROVE Typed'
  <2>1. cache' \in [Keys -> Servers \cup {None}]
    BY <1>0, <1>6 DEF Store, SharedTyped, Turns
  <2>2. blamed' \in [Requests -> SUBSET Servers]
    BY <1>0, <1>6 DEF Store, SharedTyped
  <2>3. SharedTyped'
    BY <1>0, <1>6, <2>1, <2>2 DEF Store, SharedTyped, serverVars
  <2> QED BY <1>6, <1>5, <2>3 DEF Store, IsAt
<1>7. ASSUME NEW r \in Requests, Locate(r) PROVE Typed'
  <2>1. SharedTyped'
    BY <1>0, <1>7 DEF Locate, SharedTyped, serverVars, composerVars
  <2> QED BY <1>7, <1>5, <2>1 DEF Locate, IsAt
<1>8. ASSUME NEW r \in Requests, EndRun(r) PROVE Typed'
  <2>1. PICK reason \in Reasons :
          /\ Ends(r, reason)
          /\ \/ /\ composer = r /\ slot # None
                /\ turn' = [turn EXCEPT ![r].at = "releasing", ![r].giving = slot,
                                        ![r].why = reason]
                /\ slot' = Detach
                /\ UNCHANGED <<composer, cache, blamed>>
             \/ Settle(r, reason)
    BY <1>8 DEF EndRun
  <2>2. /\ reason = "overflow" => turn[r].summed < OverflowRetries
        /\ turn[r].at = "running" /\ held' \in [Servers -> Int]
    BY <1>0, <1>8, <2>1 DEF Ends, EndRun, IsAt, SharedTyped
  <2>3. CASE Settle(r, reason)
    BY <1>8, <2>2, <2>3, SettleTyped DEF EndRun
  <2>4. CASE ~Settle(r, reason)
    <3>0. SharedTyped'
      BY <1>0, <1>8, <2>1, <2>4 DEF EndRun, SharedTyped, Detach, serverVars
    <3> DEFINE t == [turn[r] EXCEPT !.at = "releasing", !.giving = slot, !.why = reason]
    <3>1. turn' = [turn EXCEPT ![r] = t]
      BY <2>1, <2>4 DEF Typed
    <3>2. turn[r] \in Turns /\ Fine(r, turn[r])
      BY DEF Typed, Fine
    <3>3. t \in Turns
      BY <1>0, <2>1, <2>2, <2>4, <3>2, Change, TurnAssumption DEF Places, Reasons,
         SharedTyped
    <3>4. /\ t.at = "releasing" /\ t.by = turn[r].by /\ t.using = turn[r].using
          /\ t.giving = slot /\ t.why = reason /\ t.stale = turn[r].stale
          /\ t.summed = turn[r].summed /\ t.cold = turn[r].cold
          /\ t.pass = turn[r].pass /\ t.runs = turn[r].runs
      BY <3>2 DEF Turns
    <3> HIDE DEF t
    <3>5. Paid(t)
      BY <1>0, <2>1, <2>2, <2>4, <3>2, <3>4, TurnAssumption DEF Fine, Paid, Started,
         Turns, Call, SharedTyped
    <3>6. Fine(r, t)
      BY <1>0, <2>1, <2>2, <2>4, <3>2, <3>3, <3>4, <3>5, TurnAssumption DEF Fine, Turns,
         SharedTyped
    <3> QED BY <3>1, <3>6, <3>0, OneTurn
  <2> QED BY <2>3, <2>4
<1>9. ASSUME NEW r \in Requests, Released(r) PROVE Typed'
  <2>1. /\ turn[r].why \in Reasons /\ turn[r].giving \in Servers
        /\ turn[r].why = "overflow" => turn[r].summed < OverflowRetries
    BY <1>0, <1>9 DEF Released, IsAt, Fine, Turns
  <2>2. held' \in [Servers -> Int]
    BY <1>0, <1>9, <2>1 DEF Released, SharedTyped
  <2> QED BY <1>9, <2>1, <2>2, SettleTyped DEF Released, IsAt
<1>10. ASSUME NEW r \in Requests, RetryStale(r) PROVE Typed'
  <2>0. SharedTyped'
    BY <1>0, <1>10 DEF RetryStale, SharedTyped, serverVars, composerVars
  <2> DEFINE t == [turn[r] EXCEPT !.at = "composing", !.stale = turn[r].stale + 1]
  <2>1. turn' = [turn EXCEPT ![r] = t]
    BY <1>10 DEF RetryStale, Typed
  <2>2. turn[r] \in Turns /\ Fine(r, turn[r])
    BY DEF Typed, Fine
  <2>3. turn[r].stale + 1 \in 0..StaleRetries
    BY <1>10, <2>2, TurnAssumption DEF Fine, Turns, RetryStale, IsAt
  <2>4. t \in Turns
    BY <1>10, <2>2, <2>3, Change, TurnAssumption DEF Places, Reasons, RetryStale, IsAt
  <2>5. /\ t.at = "composing" /\ t.by = turn[r].by /\ t.using = turn[r].using
        /\ t.giving = turn[r].giving /\ t.why = turn[r].why
        /\ t.stale = turn[r].stale + 1 /\ t.summed = turn[r].summed
        /\ t.cold = turn[r].cold /\ t.pass = turn[r].pass /\ t.runs = turn[r].runs
    BY <2>2 DEF Turns
  <2> HIDE DEF t
  <2>6. Paid(t)
    BY <1>10, <2>2, <2>5, TurnAssumption DEF Fine, Paid, Started, Turns, Call,
       RetryStale, IsAt
  <2>7. Fine(r, t)
    BY <1>10, <2>2, <2>4, <2>5, <2>6, TurnAssumption DEF Fine, Turns, RetryStale, IsAt
  <2> QED BY <2>1, <2>7, <2>0, OneTurn
<1>11. ASSUME NEW r \in Requests, RetryShorter(r) PROVE Typed'
  <2>0. SharedTyped'
    BY <1>0, <1>11, QuitBlamed DEF RetryShorter, SharedTyped, serverVars, composerVars
  <2>1. CASE Quit(r)
    BY <2>0, <2>1, QuitTyped
  <2>2. CASE ~Quit(r)
    <3> DEFINE t == [turn[r] EXCEPT !.at = "composing", !.summed = turn[r].summed + 1,
                                    !.stale = turn[r].stale]
    <3>1. turn' = [turn EXCEPT ![r] = t]
      BY <1>11, <2>2 DEF RetryShorter, Typed, KeepStale
    <3>2. turn[r] \in Turns /\ Fine(r, turn[r])
      BY DEF Typed, Fine
    <3>3. turn[r].summed + 1 \in 0..OverflowRetries
      BY <1>11, <2>2, <3>2, TurnAssumption DEF Fine, Turns, RetryShorter, IsAt, KeepStale
    <3>4. t \in Turns
      BY <1>11, <2>2, <3>2, <3>3, Change, TurnAssumption DEF Places, Reasons,
         RetryShorter, IsAt, KeepStale
    <3>5. /\ t.at = "composing" /\ t.by = turn[r].by /\ t.using = turn[r].using
          /\ t.giving = turn[r].giving /\ t.why = turn[r].why
          /\ t.stale = turn[r].stale /\ t.summed = turn[r].summed + 1
          /\ t.cold = turn[r].cold /\ t.pass = turn[r].pass /\ t.runs = turn[r].runs
      BY <3>2 DEF Turns
    <3> HIDE DEF t
    <3>6. Paid(t)
      BY <1>11, <2>2, <3>2, <3>5, TurnAssumption DEF Fine, Paid, Started, Turns, Call,
         RetryShorter, IsAt, KeepStale
    <3>7. Fine(r, t)
      BY <1>11, <2>2, <3>2, <3>4, <3>5, <3>6, TurnAssumption DEF Fine, Turns,
         RetryShorter, IsAt, KeepStale
    <3> QED BY <3>1, <3>7, <2>0, OneTurn
  <2> QED BY <2>1, <2>2
<1>12. ASSUME NEW r \in Requests, RetryCold(r) PROVE Typed'
  <2>0. SharedTyped'
    BY <1>0, <1>12 DEF RetryCold, SharedTyped, serverVars, composerVars
  <2> DEFINE t == [turn[r] EXCEPT !.at = "composing"]
  <2>1. turn' = [turn EXCEPT ![r] = t]
    BY <1>12 DEF RetryCold, Typed
  <2>2. turn[r] \in Turns /\ Fine(r, turn[r])
    BY DEF Typed, Fine
  <2>3. t \in Turns
    BY <1>12, <2>2, Change, TurnAssumption DEF Places, Reasons, RetryCold, IsAt
  <2>4. /\ t.at = "composing" /\ t.by = turn[r].by /\ t.using = turn[r].using
        /\ t.giving = turn[r].giving /\ t.why = turn[r].why
        /\ t.stale = turn[r].stale /\ t.summed = turn[r].summed
        /\ t.cold = turn[r].cold /\ t.pass = turn[r].pass /\ t.runs = turn[r].runs
    BY <2>2 DEF Turns
  <2> HIDE DEF t
  <2>5. Paid(t)
    BY <1>12, <2>2, <2>4, TurnAssumption DEF Fine, Paid, Started, Turns, Call, RetryCold,
       IsAt
  <2>6. Fine(r, t)
    BY <1>12, <2>2, <2>3, <2>4, <2>5, TurnAssumption DEF Fine, Turns, RetryCold, IsAt
  <2> QED BY <2>1, <2>6, <2>0, OneTurn
<1>13. ASSUME NEW r \in Requests, Follow(r) PROVE Typed'
  <2>0. SharedTyped'
    BY <1>0, <1>13, QuitBlamed DEF Follow, SharedTyped, serverVars, composerVars
  <2>1. CASE Quit(r)
    BY <2>0, <2>1, QuitTyped
  <2>2. CASE ~Quit(r)
    <3> DEFINE t == [turn[r] EXCEPT !.at = "composing", !.pass = turn[r].pass + 1,
                                    !.stale = 0, !.summed = 0]
    <3>1. turn' = [turn EXCEPT ![r] = t]
      BY <1>13, <2>2 DEF Follow, Typed
    <3>2. turn[r] \in Turns /\ Fine(r, turn[r])
      BY DEF Typed, Fine
    <3>3. turn[r].pass + 1 \in Nat /\ 0 \in 0..StaleRetries /\ 0 \in 0..OverflowRetries
      BY <1>13, <2>2, <3>2, TurnAssumption DEF Fine, Turns, Follow, IsAt
    <3>4. t \in Turns
      BY <1>13, <2>2, <3>2, <3>3, Change, TurnAssumption DEF Places, Reasons, Follow, IsAt
    <3>5. /\ t.at = "composing" /\ t.by = turn[r].by /\ t.using = turn[r].using
          /\ t.giving = turn[r].giving /\ t.why = turn[r].why /\ t.stale = 0
          /\ t.summed = 0 /\ t.cold = turn[r].cold /\ t.pass = turn[r].pass + 1
          /\ t.runs = turn[r].runs
      BY <3>2 DEF Turns
    <3> HIDE DEF t
    <3>6. (t.cold + t.pass) * Call = (turn[r].cold + turn[r].pass) * Call + Call
      <4>1. t.cold + t.pass = (turn[r].cold + turn[r].pass) + 1 /\ turn[r].cold + turn[r].pass \in Nat
        BY <3>2, <3>5, TurnAssumption DEF Turns
      <4> QED BY <4>1, OneMoreCall
    <3>7. (turn[r].cold + turn[r].pass) * Call \in Nat /\ Call = StaleRetries + OverflowRetries + 1
      BY <3>2, OneMoreCall, TurnAssumption DEF Turns, Call
    <3>8. Paid(t)
      BY <3>2, <3>5, <3>6, <3>7, TurnAssumption DEF Fine, Paid, Started, Turns
    <3>9. Fine(r, t)
      BY <1>13, <2>2, <3>2, <3>4, <3>5, <3>8, TurnAssumption DEF Fine, Turns, Follow, IsAt
    <3> QED BY <3>1, <3>9, <2>0, OneTurn
  <2> QED BY <2>1, <2>2
<1>14. ASSUME NEW r \in Requests, Leave(r) PROVE Typed'
  <2>1. SharedTyped'
    BY <1>0, <1>14, QuitBlamed, DismissTyped DEF Leave, SharedTyped, serverVars, IsAt,
       Fine, Turns
  <2> QED BY <1>14, <2>1, QuitTyped DEF Leave
<1>15. ASSUME NEW h \in Servers, Die(h) PROVE Typed'
  BY <1>15 DEF Die, Typed, SharedTyped, composerVars
<1>16. ASSUME NEW k \in Keys, Expire(k) PROVE Typed'
  BY <1>16 DEF Expire, Typed, SharedTyped, serverVars
<1>17. CASE UNCHANGED vars
  BY <1>17 DEF vars, Typed, SharedTyped, serverVars, composerVars
<1> QED
  BY <1>1, <1>2, <1>3, <1>4, <1>5, <1>6, <1>7, <1>8, <1>9, <1>10, <1>11, <1>12, <1>13,
     <1>14, <1>15, <1>16, <1>17 DEF Next

LEMMA AlwaysTyped == Spec => []Typed
  BY InitTyped, StepTyped, PTL DEF Spec

(* Types, and: whoever has a workflow has a server to run it on.              *)
THEOREM TypeCorrect == Spec => []TypeOK
  BY AlwaysTyped, TypedFits, PTL

(* However stale servers, overflows, cold starts and secondary passes follow  *)
(* each other, a turn makes no more runs than the budgets add up to.          *)
THEOREM RunsCorrect == Spec => []RunsBounded
  BY AlwaysTyped, TypedFits, PTL

-----------------------------------------------------------------------------
(* Handles.  Only the attempt whose builder the composer keeps gives a handle *)
(* back, and nobody else reads the slot while it does.                        *)

Handed(h) ==
  (IF \E r \in Requests : turn[r].giving = h THEN 1 ELSE 0) + (IF slot = h THEN 1 ELSE 0)

Holding ==
  /\ \A r \in Requests :
       /\ turn[r].giving # None => turn[r].at = "releasing"
       /\ turn[r].at = "releasing" => composer = r
  /\ composer = Spent => slot = None
  /\ composer = None =>
       slot = None /\ \A r \in Requests : turn[r].at \in {"new", "composing", "over"}
  /\ \A h \in Servers : Handed(h) <= held[h]

LEMMA HoldingFits == Typed /\ Holding => ReleasedOnce
<1> SUFFICES ASSUME Typed, Holding, NEW h \in Servers PROVE Unreleased(h) <= held[h]
  BY DEF ReleasedOnce
<1> DEFINE givers == {r \in Requests : turn[r].giving = h}
<1>1. h # None /\ held[h] \in Int
  BY TurnAssumption DEF Typed, SharedTyped
<1>2. Cardinality(givers) = IF \E r \in Requests : turn[r].giving = h THEN 1 ELSE 0
  <2>1. CASE \E r \in Requests : turn[r].giving = h
    <3>1. givers = {composer}
      BY <1>1, <2>1 DEF Holding
    <3> QED BY <2>1, <3>1, FS_Singleton
  <2>2. CASE ~ \E r \in Requests : turn[r].giving = h
    <3>1. givers = {}
      BY <2>2
    <3> QED BY <2>2, <3>1, FS_EmptySet
  <2> QED BY <2>1, <2>2
<1> HIDE DEF givers
<1>3. Unreleased(h) = Handed(h)
  BY <1>2 DEF Unreleased, Handed, givers
<1> QED BY <1>3 DEF Holding

LEMMA InitHolding == Init => Holding
  BY TurnAssumption DEF Init, Holding, Handed, At

(* A step of r that gives no handle back: r is not, or no longer, a giver.    *)
LEMMA TurnHolding ==
  ASSUME Typed, Holding, NEW r \in Requests, held' = held,
         \/ UNCHANGED <<composer, slot>>
         \/ composer = r /\ composer' = Spent /\ slot' = None,
         \A q \in Requests \ {r} : turn'[q] = turn[q],
         turn'[r].giving = None, turn'[r].at # "releasing",
         composer = None => turn'[r].at \in {"new", "composing", "over"}
  PROVE  Holding'
<1>0. Spent # None /\ r # None /\ None \notin Servers
  BY TurnAssumption
<1>1. CASE UNCHANGED <<composer, slot>>
  <2>1. \A h \in Servers : Handed(h)' <= Handed(h) /\ Handed(h) \in Int /\ Handed(h)' \in Int
    BY <1>0, <1>1 DEF Handed
  <2>2. \A h \in Servers : Handed(h)' <= held'[h]
    BY <2>1 DEF Holding, Typed, SharedTyped
  <2> QED BY <1>0, <1>1, <2>2 DEF Holding
<1>2. CASE composer = r /\ composer' = Spent /\ slot' = None
  <2>1. \A q \in Requests : turn'[q].giving = None
    BY <1>0, <1>2 DEF Holding
  <2>2. \A h \in Servers : Handed(h)' = 0 /\ Handed(h) \in Nat
    BY <1>0, <1>2, <2>1 DEF Handed
  <2>3. \A h \in Servers : Handed(h)' <= held'[h]
    BY <2>2 DEF Holding, Typed, SharedTyped
  <2> QED BY <1>0, <1>2, <2>1, <2>3 DEF Holding
<1> QED BY <1>1, <1>2

(* The last giver is done, or is cut off after its release was heard.          *)
LEMMA GivenBack ==
  ASSUME Typed, Holding, NEW r \in Requests, turn[r].at = "releasing", Dismiss(r),
         held' = [held EXCEPT ![turn[r].giving] = @ - 1],
         \A q \in Requests \ {r} : turn'[q] = turn[q],
         turn'[r].giving = None, turn'[r].at # "releasing"
  PROVE  Holding'
<1>0. /\ Spent # None /\ r # None /\ None \notin Servers
      /\ composer = r /\ turn[r].giving \in Servers
  BY TurnAssumption DEF Holding, Typed, Fine, Turns
<1>1. composer' = Spent /\ slot' = None
  BY <1>0 DEF Dismiss
<1>2. \A q \in Requests : turn'[q].giving = None
  BY <1>0 DEF Holding
<1>3. \A h \in Servers : Handed(h)' = 0 /\ Handed(h) \in Nat
  BY <1>0, <1>1, <1>2 DEF Handed
<1>4. Handed(turn[r].giving) >= 1
  BY <1>0 DEF Handed
<1>5. \A h \in Servers : Handed(h)' <= held'[h]
  BY <1>0, <1>3, <1>4 DEF Holding, Typed, SharedTyped
<1> QED BY <1>0, <1>1, <1>2, <1>5 DEF Holding

LEMMA NotGiving ==
  ASSUME Typed, Holding, NEW r \in Requests, turn[r].at # "releasing"
  PROVE  turn[r].giving = None /\ turn[r] \in Turns
  BY DEF Typed, Holding, Fine

LEMMA StepHolding == Typed /\ Holding /\ [Next]_vars => Holding'
<1> SUFFICES ASSUME Typed, Holding, [Next]_vars PROVE Holding'
  OBVIOUS
<1>0. /\ \A r \in Requests : turn[r] \in Turns
      /\ Spent # None /\ None \notin Servers /\ None \notin Requests
  BY TurnAssumption DEF Typed, Fine
<1>1. ASSUME NEW r \in Requests, turn[r].at # "releasing",
             \/ Start(r) \/ Store(r) \/ Locate(r) \/ RetryStale(r) \/ RetryShorter(r)
             \/ RetryCold(r) \/ Follow(r)
      PROVE  Holding'
  <2>1. turn[r].giving = None
    BY <1>1, NotGiving
  <2>2. /\ held' = held /\ UNCHANGED <<composer, slot>>
        /\ \A q \in Requests \ {r} : turn'[q] = turn[q]
    BY <1>1 DEF Start, Store, Locate, Proceed, RetryStale, RetryShorter, RetryCold, Follow,
                Quit, composerVars, Typed
  <2>3. turn'[r].giving = None
    BY <1>0, <1>1, <2>1 DEF Start, Store, Locate, Proceed, RetryStale, RetryShorter,
       RetryCold,
                            Follow, Quit, At, Turns, Typed
  <2>4. turn'[r].at \in {"composing", "running", "over"}
    BY <1>0, <1>1 DEF Start, Store, Locate, Proceed, RetryStale, RetryShorter, RetryCold,
                      Follow, Quit, At, Turns, Typed
  <2>5. composer = None => turn[r].at \in {"new", "composing", "over"}
    BY DEF Holding
  <2>6. turn'[r].at = "running" => turn[r].at \in {"storing", "locating"}
    BY <1>0, <1>1 DEF Start, Store, Locate, Proceed, RetryStale, RetryShorter, RetryCold,
                      Follow, Quit, At, Turns, Typed, IsAt
  <2> QED BY <2>2, <2>3, <2>4, <2>5, <2>6, TurnHolding
<1>2. ASSUME NEW r \in Requests, Compose(r) PROVE Holding'
  <2>1. /\ turn[r].at = "composing" /\ turn[r].giving = None
        /\ slot' = slot /\ held' = held
        /\ \A q \in Requests \ {r} : turn'[q] = turn[q]
    BY <1>0, <1>2, NotGiving DEF Compose, IsAt, Typed
  <2>2. turn'[r].giving = None /\ turn'[r].at # "releasing"
    BY <1>0, <1>2, <2>1 DEF Compose, Turns, Typed
  <2>3. CASE composer # None
    BY <1>2, <2>1, <2>2, <2>3, TurnHolding DEF Compose
  <2>4. CASE composer = None
    <3>1. composer' \in {Spent, r} /\ composer' # None
      BY <1>0, <1>2, <2>4 DEF Compose
    <3>2. slot' = None /\ \A q \in Requests : turn'[q].at # "releasing"
      BY <2>1, <2>2, <2>4 DEF Holding
    <3>3. \A q \in Requests : turn'[q].giving = turn[q].giving
      BY <2>1, <2>2
    <3>4. \A h \in Servers : Handed(h)' = Handed(h)
      BY <2>1, <3>3 DEF Handed
    <3> QED BY <2>1, <3>1, <3>2, <3>3, <3>4 DEF Holding
  <2> QED BY <2>3, <2>4
<1>3. ASSUME NEW r \in Requests, Acquire(r) PROVE Holding'
  <2>1. PICK h \in Servers :
          /\ turn' = [turn EXCEPT ![r].at = "storing", ![r].using = h]
          /\ slot' = IF composer = Spent THEN None ELSE h
          /\ held' = [held EXCEPT ![h] = @ + 1]
    BY <1>3 DEF Acquire
  <2>2. /\ turn[r].at = "building" /\ turn[r].giving = None /\ composer' = composer
        /\ composer # None
    BY <1>3, NotGiving DEF Acquire, IsAt, Holding
  <2>3. \A q \in Requests : /\ turn'[q].giving = turn[q].giving
                            /\ turn'[q].at = "releasing" <=> turn[q].at = "releasing"
    BY <1>0, <2>1, <2>2 DEF Turns, Typed
  <2>4. \A g \in Servers : /\ Handed(g) \in Int /\ Handed(g)' \in Int
                           /\ g # h => Handed(g)' <= Handed(g)
                           /\ Handed(g)' <= Handed(g) + 1
    <3> SUFFICES ASSUME NEW g \in Servers
                 PROVE  /\ Handed(g) \in Int /\ Handed(g)' \in Int
                        /\ g # h => Handed(g)' <= Handed(g)
                        /\ Handed(g)' <= Handed(g) + 1
      OBVIOUS
    <3>1. g # None /\ (g # h => slot' # g)
      BY <1>0, <2>1
    <3>2. (\E q \in Requests : turn'[q].giving = g) <=> (\E q \in Requests : turn[q].giving = g)
      BY <2>3
    <3> QED BY <3>1, <3>2 DEF Handed
  <2>5. \A g \in Servers : Handed(g)' <= held'[g]
    BY <2>1, <2>4 DEF Holding, Typed, SharedTyped
  <2> QED BY <1>0, <2>1, <2>2, <2>3, <2>5 DEF Holding
<1>4. ASSUME NEW r \in Requests, BuildFails(r) PROVE Holding'
  <2>1. /\ turn[r].at \in {"building", "storing"} /\ turn[r].giving = None /\ held' = held
        /\ \A q \in Requests \ {r} : turn'[q] = turn[q]
    BY <1>0, <1>4, NotGiving DEF BuildFails, IsAt, Quit, Typed
  <2>2. turn'[r].giving = None /\ turn'[r].at # "releasing"
    BY <1>0, <1>4, <2>1 DEF BuildFails, Quit, At, Turns, Typed
  <2>3. composer # None
    BY <2>1 DEF Holding
  <2> QED BY <1>4, <2>1, <2>2, <2>3, TurnHolding DEF BuildFails, Dismiss
<1>5. ASSUME NEW r \in Requests, NEW reason \in Reasons, Settle(r, reason),
             turn[r].at \in {"running", "releasing"}
      PROVE  /\ Dismiss(r) /\ turn'[r].giving = None /\ turn'[r].at # "releasing"
             /\ \A q \in Requests \ {r} : turn'[q] = turn[q]
  <2>1. Dismiss(r) /\ ((\E place \in {"passed", "summarizing", "refreshing"} : Rest(r, place))
                       \/ Quit(r))
    BY <1>5 DEF Settle
  <2>2. CASE Quit(r)
    BY <2>1, <2>2 DEF Quit, At, Typed
  <2>3. ASSUME NEW place \in {"passed", "summarizing", "refreshing"}, Rest(r, place)
        PROVE  /\ turn'[r].giving = None /\ turn'[r].at # "releasing"
               /\ \A q \in Requests \ {r} : turn'[q] = turn[q]
    <3>1. \A q \in Requests \ {r} : turn'[q] = turn[q]
      BY <2>3 DEF Rest, Typed
    <3>2. turn'[r] = [turn[r] EXCEPT !.at = place, !.using = None,
                                     !.giving = None, !.why = "answer"]
      BY <2>3 DEF Rest, Typed
    <3>3. turn'[r].giving = None /\ turn'[r].at = place
      BY <1>0, <3>2 DEF Turns
    <3> QED BY <3>1, <3>3
  <2> QED BY <2>1, <2>2, <2>3
<1>6. ASSUME NEW r \in Requests, EndRun(r) PROVE Holding'
  <2>1. PICK reason \in Reasons :
          \/ /\ composer = r /\ slot # None
             /\ turn' = [turn EXCEPT ![r].at = "releasing", ![r].giving = slot,
                                     ![r].why = reason]
             /\ slot' = None
             /\ UNCHANGED composer
          \/ Settle(r, reason)
    BY <1>6 DEF EndRun, Detach
  <2>2. /\ turn[r].at = "running" /\ turn[r].giving = None /\ held' = held
        /\ composer # None
    BY <1>6, NotGiving DEF EndRun, IsAt, Holding
  <2>3. CASE Settle(r, reason)
    BY <1>5, <2>2, <2>3, TurnHolding DEF Dismiss
  <2>4. CASE ~Settle(r, reason)
    <3>1. /\ turn'[r].giving = slot /\ turn'[r].at = "releasing"
          /\ \A q \in Requests \ {r} : turn'[q] = turn[q]
          /\ composer' = r /\ slot' = None /\ slot # None
      <4>1. /\ turn' = [turn EXCEPT ![r].at = "releasing", ![r].giving = slot,
                                    ![r].why = reason]
            /\ composer' = r /\ slot' = None /\ slot # None
        BY <2>1, <2>4
      <4>2. turn'[r] = [turn[r] EXCEPT !.at = "releasing", !.giving = slot, !.why = reason]
        BY <4>1 DEF Typed
      <4>3. turn'[r].giving = slot /\ turn'[r].at = "releasing"
        BY <1>0, <4>2 DEF Turns
      <4> QED BY <4>1, <4>3 DEF Typed
    <3>2. \A q \in Requests : turn[q].giving = None
      BY <2>1, <2>2, <2>4 DEF Holding
    <3>3. \A h \in Servers : Handed(h)' = Handed(h)
      BY <1>0, <2>2, <3>1, <3>2 DEF Handed
    <3>4. \A q \in Requests : turn'[q].at = "releasing" => q = r
      BY <2>1, <2>4, <3>1 DEF Holding
    <3> QED BY <1>0, <2>2, <3>1, <3>2, <3>3, <3>4 DEF Holding
  <2> QED BY <2>3, <2>4
<1>7. ASSUME NEW r \in Requests, Released(r) PROVE Holding'
  <2>1. turn[r].why \in Reasons /\ turn[r].at = "releasing"
    BY <1>0, <1>7 DEF Released, IsAt, Turns
  <2> QED BY <1>5, <1>7, <2>1, GivenBack DEF Released
<1>8. ASSUME NEW r \in Requests, Leave(r) PROVE Holding'
  <2>1. /\ turn'[r].giving = None /\ turn'[r].at = "over" /\ Dismiss(r)
        /\ \A q \in Requests \ {r} : turn'[q] = turn[q]
    BY <1>8 DEF Leave, Quit, At, Typed
  <2>2. CASE held' = held
    BY <2>1, <2>2, TurnHolding DEF Dismiss
  <2>3. CASE held' # held
    BY <1>8, <2>1, <2>3, GivenBack DEF Leave, IsAt
  <2> QED BY <2>2, <2>3
<1>9. CASE UNCHANGED <<turn, composer, slot, held>>
  BY <1>9 DEF Holding, Handed
<1>10. ASSUME NEW r \in Requests,
             \/ Start(r) \/ Store(r) \/ Locate(r) \/ RetryStale(r) \/ RetryShorter(r)
             \/ RetryCold(r) \/ Follow(r)
      PROVE  turn[r].at # "releasing"
  BY <1>10 DEF Start, Store, Locate, RetryStale, RetryShorter, RetryCold, Follow, IsAt
<1>11. \/ \E h \in Servers : Die(h)
       \/ \E k \in Keys : Expire(k)
       \/ UNCHANGED vars
       => UNCHANGED <<turn, composer, slot, held>>
  BY DEF Die, Expire, vars, composerVars
<1> QED
  BY <1>1, <1>2, <1>3, <1>4, <1>6, <1>7, <1>8, <1>9, <1>10, <1>11 DEF Next

(* Whatever builds overwrite the slot while another request gives a handle    *)
(* back, no acquisition is ever given back twice.                            *)
THEOREM ReleasedOnceCorrect == Spec => []ReleasedOnce
<1>1. Spec => []Holding
  BY AlwaysTyped, InitHolding, StepHolding, PTL DEF Spec
<1> QED BY <1>1, AlwaysTyped, HoldingFits, PTL

-----------------------------------------------------------------------------
(* Servers a turn found dead.  A server that is dead stays dead, and whatever  *)
(* the turn builds or finds in the cache is something else.                    *)

HasRun == 1..made

(* What holds of the locals t of a turn that found the servers b dead.         *)
Clear(t, b) ==
  /\ t.using # None => t.using \in HasRun
  /\ t.at \in {"storing", "locating", "running"} => t.using \notin b
  /\ t.at = "releasing" /\ t.why = "stale" => t.using \notin live

Elsewhere ==
  /\ live \subseteq HasRun
  /\ \A k \in Keys : cache[k] # None => cache[k] \in HasRun
  /\ \A r \in Requests :
       /\ blamed[r] \subseteq HasRun \ live
       /\ cache[KeyOf[r]] \notin blamed[r]
       /\ Clear(turn[r], blamed[r])

LEMMA ElsewhereFits == Elsewhere => RetriesElsewhere
  BY DEF Elsewhere, Clear, RetriesElsewhere

LEMMA InitElsewhere == Init => Elsewhere
  BY DEF Init, Elsewhere, Clear, At

(* A step of r that starts no server and puts nothing into the cache.          *)
LEMMA TurnElsewhere ==
  ASSUME Typed, Elsewhere, NEW r \in Requests, UNCHANGED serverVars,
         \/ UNCHANGED cache
         \/ Purge(r),
         \A q \in Requests \ {r} : turn'[q] = turn[q] /\ blamed'[q] = blamed[q],
         \/ blamed'[r] = blamed[r]
         \/ blamed'[r] = {}
         \/ /\ blamed'[r] = blamed[r] \cup {turn[r].using} /\ cache'[KeyOf[r]] = None
            /\ turn[r].using \in HasRun \ live,
         Clear(turn'[r], blamed'[r])
  PROVE  Elsewhere'
<1>1. HasRun' = HasRun /\ live' = live
  BY DEF HasRun, serverVars
<1>2. \A k \in Keys : cache'[k] = cache[k] \/ cache'[k] = None
  BY DEF Purge, Typed, SharedTyped
<1>3. \A q \in Requests : None \notin blamed[q] /\ KeyOf[q] \in Keys
  BY TurnAssumption DEF Typed, SharedTyped
<1>4. \A q \in Requests : blamed'[q] \subseteq HasRun \ live
  BY DEF Elsewhere
<1>5. ASSUME NEW q \in Requests PROVE cache'[KeyOf[q]] \notin blamed'[q]
  <2>1. cache'[KeyOf[q]] = cache[KeyOf[q]] \/ cache'[KeyOf[q]] = None
    BY <1>2, <1>3
  <2>2. None \notin HasRun
    BY TurnAssumption DEF HasRun, Typed, SharedTyped, Servers
  <2>3. cache[KeyOf[q]] \notin blamed[q] /\ None \notin blamed[q]
    BY <1>3 DEF Elsewhere
  <2> QED BY <2>1, <2>2, <2>3
<1>6. \A q \in Requests : Clear(turn[q], blamed[q])
  BY DEF Elsewhere
<1>7. \A q \in Requests : Clear(turn[q], blamed[q])' <=> Clear(turn'[q], blamed'[q])
  BY <1>1 DEF Clear
<1>8. \A q \in Requests : Clear(turn[q], blamed[q])'
  BY <1>6, <1>7
<1> QED BY <1>1, <1>2, <1>4, <1>5, <1>8 DEF Elsewhere

LEMMA StepElsewhere == Typed /\ Elsewhere /\ [Next]_vars => Elsewhere'
<1> SUFFICES ASSUME Typed, Elsewhere, [Next]_vars PROVE Elsewhere'
  OBVIOUS
<1>0. /\ turn = [r \in Requests |-> turn[r]] /\ blamed = [r \in Requests |-> blamed[r]]
      /\ \A r \in Requests :
           /\ turn[r] \in Turns /\ KeyOf[r] \in Keys /\ Clear(turn[r], blamed[r])
           /\ blamed[r] \subseteq HasRun \ live /\ cache[KeyOf[r]] \notin blamed[r]
           /\ cache[KeyOf[r]] # None => cache[KeyOf[r]] \in HasRun
  BY TurnAssumption DEF Typed, SharedTyped, Fine, Elsewhere
<1>1. ASSUME NEW r \in Requests, Quit(r)
      PROVE  /\ \A q \in Requests \ {r} : turn'[q] = turn[q] /\ blamed'[q] = blamed[q]
             /\ blamed'[r] = {} /\ Clear(turn'[r], blamed'[r])
  BY <1>0, <1>1 DEF Quit, At, Clear
<1>2. ASSUME NEW r \in Requests, NEW place \in {"passed", "summarizing", "refreshing"},
             Rest(r, place)
      PROVE  /\ \A q \in Requests \ {r} : turn'[q] = turn[q]
             /\ \A b : Clear(turn'[r], b)
  <2>1. \A q \in Requests \ {r} : turn'[q] = turn[q]
    BY <1>0, <1>2 DEF Rest
  <2>2. turn'[r] = [turn[r] EXCEPT !.at = place, !.using = None,
                                   !.giving = None, !.why = "answer"]
    BY <1>0, <1>2 DEF Rest
  <2>3. turn'[r].at = place /\ turn'[r].using = None
    BY <1>0, <2>2 DEF Turns
  <2> QED BY <2>1, <2>3 DEF Clear
<1>3. ASSUME NEW r \in Requests, NEW reason \in Reasons, Settle(r, reason), UNCHANGED serverVars,
             reason = "stale" => turn[r].using \in HasRun \ live
      PROVE  Elsewhere'
  <2>1. CASE Quit(r)
    <3>1. UNCHANGED cache \/ Purge(r)
      BY <1>3 DEF Settle
    <3> QED BY <1>1, <1>3, <2>1, <3>1, TurnElsewhere
  <2>2. CASE ~Quit(r) /\ reason # "stale"
    <3>1. /\ UNCHANGED <<cache, blamed>>
          /\ \E place \in {"passed", "summarizing", "refreshing"} : Rest(r, place)
      BY <1>3, <2>2 DEF Settle
    <3> QED BY <1>2, <1>3, <3>1, TurnElsewhere
  <2>3. CASE ~Quit(r) /\ reason = "stale"
    <3>1. /\ Purge(r) /\ blamed' = [blamed EXCEPT ![r] = @ \cup {turn[r].using}]
          /\ Rest(r, "refreshing")
      BY <1>3, <2>3 DEF Settle
    <3>2. cache'[KeyOf[r]] = None
      BY <1>0, <3>1 DEF Purge, Typed, SharedTyped
    <3>3. \A q \in Requests \ {r} : blamed'[q] = blamed[q]
      BY <1>0, <3>1
    <3>4. blamed'[r] = blamed[r] \cup {turn[r].using}
      BY <1>0, <3>1
    <3> QED BY <1>2, <1>3, <2>3, <3>1, <3>2, <3>3, <3>4, TurnElsewhere
  <2> QED BY <2>1, <2>2, <2>3
<1>4. ASSUME NEW r \in Requests,
             Start(r) \/ Locate(r) \/ RetryStale(r) \/ RetryShorter(r) \/ RetryCold(r) \/ Follow(r)
      PROVE  Elsewhere'
  <2>1. UNCHANGED serverVars /\ UNCHANGED cache
    BY <1>4 DEF Start, Locate, RetryStale, RetryShorter, RetryCold, Follow, composerVars
  <2>2. CASE Quit(r)
    BY <1>1, <2>1, <2>2, TurnElsewhere
  <2>3. CASE ~Quit(r)
    <3>1. /\ blamed' = blamed
          /\ \A q \in Requests \ {r} : turn'[q] = turn[q]
      BY <1>0, <1>4, <2>3 DEF Start, Locate, Proceed, RetryStale, RetryShorter,
         RetryCold, Follow
    <3>2. turn'[r].using \in {turn[r].using, None}
      BY <1>0, <1>4, <2>3 DEF Start, Locate, Proceed, RetryStale, RetryShorter,
         RetryCold, Follow,
                              Turns
    <3>3. \/ turn'[r].at = "composing"
          \/ turn'[r].at = "running" /\ turn[r].at = "locating"
      BY <1>0, <1>4, <2>3 DEF Start, Locate, Proceed, RetryStale, RetryShorter,
         RetryCold, Follow,
                              Turns, IsAt
    <3>4. None \notin blamed[r]
      BY TurnAssumption DEF Typed, SharedTyped
    <3>5. Clear(turn'[r], blamed'[r])
      BY <1>0, <3>1, <3>2, <3>3, <3>4 DEF Clear
    <3> QED BY <2>1, <3>1, <3>5, TurnElsewhere
  <2> QED BY <2>2, <2>3
<1>5. ASSUME NEW r \in Requests, Compose(r) PROVE Elsewhere'
  <2>1. /\ UNCHANGED serverVars /\ UNCHANGED cache /\ blamed' = blamed
        /\ \A q \in Requests \ {r} : turn'[q] = turn[q] /\ blamed'[q] = blamed[q]
        /\ turn[r].at = "composing"
    BY <1>0, <1>5 DEF Compose, IsAt
  <2>2. \/ turn'[r].at = "locating" /\ turn'[r].using = cache[KeyOf[r]]
        \/ turn'[r].at = "building" /\ turn'[r].using = turn[r].using
    <3>1. \/ turn'[r] = [turn[r] EXCEPT !.at = "locating", !.using = cache[KeyOf[r]],
                                       !.runs = Attempts(turn[r])]
          \/ turn'[r] = [turn[r] EXCEPT !.at = "building", !.runs = Attempts(turn[r])]
      BY <1>0, <1>5 DEF Compose
    <3> QED BY <1>0, <3>1 DEF Turns
  <2>3. Clear(turn'[r], blamed'[r])
    BY <1>0, <2>1, <2>2 DEF Clear
  <2> QED BY <2>1, <2>3, TurnElsewhere
<1>6. ASSUME NEW r \in Requests, BuildFails(r) PROVE Elsewhere'
  <2>1. UNCHANGED serverVars /\ UNCHANGED cache
    BY <1>6 DEF BuildFails
  <2>2. CASE Quit(r)
    BY <1>1, <2>1, <2>2, TurnElsewhere
  <2>3. CASE ~Quit(r)
    <3>1. /\ blamed' = blamed
          /\ \A q \in Requests \ {r} : turn'[q] = turn[q]
      BY <1>0, <1>6, <2>3 DEF BuildFails
    <3>2. turn'[r].at = "cooling" /\ turn'[r].using = None
      <4>1. turn'[r] = [turn[r] EXCEPT !.at = "cooling", !.using = None, !.cold = CountCold(@),
                                       !.stale = 0, !.summed = 0]
        BY <1>0, <1>6, <2>3 DEF BuildFails
      <4> QED BY <1>0, <4>1 DEF Turns
    <3> QED BY <2>1, <3>1, <3>2, TurnElsewhere DEF Clear
  <2> QED BY <2>2, <2>3
<1>7. ASSUME NEW r \in Requests, EndRun(r) PROVE Elsewhere'
  <2>1. PICK reason \in Reasons :
          /\ Ends(r, reason)
          /\ \/ /\ turn' = [turn EXCEPT ![r].at = "releasing", ![r].giving = slot,
                                        ![r].why = reason]
                /\ UNCHANGED <<composer, cache, blamed>>
             \/ Settle(r, reason)
    BY <1>7 DEF EndRun
  <2>2. turn[r].at = "running" /\ UNCHANGED serverVars
    BY <1>7 DEF EndRun, IsAt
  <2>3. turn[r].using \in HasRun /\ turn[r].using \notin blamed[r]
    BY <1>0, <2>2 DEF Clear, Typed, Fine
  <2>4. reason = "stale" => turn[r].using \notin live
    BY <2>1 DEF Ends
  <2>5. CASE Settle(r, reason)
    BY <1>3, <2>2, <2>3, <2>4, <2>5
  <2>6. CASE ~Settle(r, reason)
    <3>1. turn'[r] = [turn[r] EXCEPT !.at = "releasing", !.giving = slot, !.why = reason]
      BY <1>0, <2>1, <2>6
    <3>2. turn'[r].at = "releasing" /\ turn'[r].why = reason /\ turn'[r].using = turn[r].using
      BY <1>0, <3>1 DEF Turns
    <3>3. \A q \in Requests \ {r} : turn'[q] = turn[q] /\ blamed'[q] = blamed[q]
      BY <1>0, <2>1, <2>6
    <3>4. Clear(turn'[r], blamed'[r])
      BY <2>3, <2>4, <3>2 DEF Clear
    <3> QED BY <2>1, <2>2, <2>6, <3>3, <3>4, TurnElsewhere
  <2> QED BY <2>5, <2>6
<1>8. ASSUME NEW r \in Requests, Released(r) PROVE Elsewhere'
  <2>1. /\ turn[r].why \in Reasons /\ turn[r].at = "releasing" /\ turn[r].using \in HasRun
        /\ turn[r].why = "stale" => turn[r].using \notin live
    BY <1>0, <1>8 DEF Released, IsAt, Turns, Clear, Typed, Fine
  <2> QED BY <1>3, <1>8, <2>1 DEF Released
<1>9. ASSUME NEW r \in Requests, Leave(r) PROVE Elsewhere'
  BY <1>1, <1>9, TurnElsewhere DEF Leave
<1>10. ASSUME NEW r \in Requests, Acquire(r) PROVE Elsewhere'
  <2>1. PICK h \in Servers :
          /\ \/ h \in live /\ UNCHANGED serverVars
             \/ h = made + 1 /\ made' = h /\ live' = live \cup {h}
          /\ turn' = [turn EXCEPT ![r].at = "storing", ![r].using = h]
    BY <1>10 DEF Acquire
  <2>2. cache' = cache /\ blamed' = blamed /\ made \in Nat
    BY <1>10, TurnAssumption DEF Acquire, Typed, SharedTyped
  <2>3. /\ HasRun \subseteq HasRun' /\ h \in HasRun' /\ live' \subseteq HasRun'
        /\ \A g \in HasRun : g \notin live => g \notin live'
        /\ h \in live \/ h \notin HasRun
    BY <2>1, <2>2 DEF HasRun, serverVars, Elsewhere
  <2>4. turn'[r].at = "storing" /\ turn'[r].using = h
    BY <1>0, <2>1 DEF Turns
  <2>5. \A q \in Requests \ {r} : turn'[q] = turn[q]
    BY <1>0, <2>1
  <2>6. Clear(turn[r], blamed[r])'
    BY <1>0, <2>2, <2>3, <2>4 DEF Clear
  <2>7. \A q \in Requests : turn[q].at = "releasing" => turn[q].using \in HasRun
    BY <1>0 DEF Clear, Typed, Fine
  <2>8. \A q \in Requests \ {r} : Clear(turn[q], blamed[q])'
    BY <1>0, <2>2, <2>3, <2>5, <2>7 DEF Clear
  <2>9. \A q \in Requests : blamed'[q] \subseteq HasRun' \ live'
    BY <1>0, <2>2, <2>3
  <2> QED BY <1>0, <2>2, <2>3, <2>6, <2>8, <2>9 DEF Elsewhere
<1>11. ASSUME NEW r \in Requests, Store(r) PROVE Elsewhere'
  <2>1. /\ UNCHANGED serverVars /\ turn[r].at = "storing"
        /\ cache' = [cache EXCEPT ![KeyOf[r]] = turn[r].using]
        /\ \A q \in Requests : q # r /\ KeyOf[q] = KeyOf[r] => blamed'[q] = {}
        /\ \A q \in Requests : q = r \/ KeyOf[q] # KeyOf[r] => blamed'[q] = blamed[q]
    BY <1>11 DEF Store, IsAt
  <2>2. turn[r].using \in HasRun /\ turn[r].using \notin blamed[r]
    BY <1>0, <2>1 DEF Clear, Typed, Fine
  <2>3. \/ turn'[r].at = "composing" /\ turn'[r].using = None
        \/ turn'[r].at = "running" /\ turn'[r].using = turn[r].using
    <3>1. \/ turn'[r] = [turn[r] EXCEPT !.at = "composing", !.using = None, !.by = "attempt"]
          \/ turn'[r] = [turn[r] EXCEPT !.at = "running"]
      BY <1>0, <1>11 DEF Store, Proceed
    <3> QED BY <1>0, <3>1 DEF Turns
  <2>4. \A q \in Requests \ {r} : turn'[q] = turn[q]
    BY <1>0, <1>11 DEF Store, Proceed
  <2>5. HasRun' = HasRun /\ live' = live
    BY <2>1 DEF HasRun, serverVars
  <2>6. Clear(turn[r], blamed[r])'
    BY <2>1, <2>2, <2>3, <2>5 DEF Clear
  <2>7. \A q \in Requests \ {r} : Clear(turn[q], blamed[q])'
    BY <1>0, <2>1, <2>4, <2>5 DEF Clear
  <2>8. \A q \in Requests : blamed'[q] \subseteq HasRun' \ live'
    BY <1>0, <2>1, <2>5
  <2>9. \A q \in Requests : cache'[KeyOf[q]] \notin blamed'[q]
    BY <1>0, <2>1, <2>2 DEF Typed, SharedTyped
  <2>10. \A k \in Keys : cache'[k] # None => cache'[k] \in HasRun'
    BY <2>1, <2>2, <2>5 DEF Elsewhere, Typed, SharedTyped
  <2>11. live' \subseteq HasRun'
    BY <2>5 DEF Elsewhere
  <2> QED BY <2>6, <2>7, <2>8, <2>9, <2>10, <2>11 DEF Elsewhere
<1>12. ASSUME NEW h \in Servers, Die(h) PROVE Elsewhere'
  <2>1. live' \subseteq live /\ HasRun' = HasRun /\ UNCHANGED <<cache, turn, blamed>>
    BY <1>12 DEF Die, HasRun, composerVars
  <2> QED BY <1>0, <2>1 DEF Elsewhere, Clear
<1>13. ASSUME NEW k \in Keys, Expire(k) PROVE Elsewhere'
  <2>1. /\ live' = live /\ HasRun' = HasRun /\ UNCHANGED <<turn, blamed>>
        /\ cache' = [cache EXCEPT ![k] = None]
    BY <1>13 DEF Expire, HasRun, serverVars
  <2>2. \A q \in Requests : None \notin blamed[q]
    BY TurnAssumption DEF Typed, SharedTyped
  <2>3. \A q \in Requests : cache'[KeyOf[q]] \notin blamed'[q]
    BY <1>0, <2>1, <2>2 DEF Typed, SharedTyped
  <2> QED BY <1>0, <2>1, <2>3 DEF Elsewhere, Clear, Typed, SharedTyped
<1>14. CASE UNCHANGED vars
  <2>1. UNCHANGED <<live, cache, turn, blamed>> /\ HasRun' = HasRun
    BY <1>14 DEF vars, serverVars, composerVars, HasRun
  <2> QED BY <1>0, <2>1 DEF Elsewhere, Clear
<1> QED
  BY <1>4, <1>5, <1>6, <1>7, <1>8, <1>9, <1>10, <1>11, <1>12, <1>13, <1>14 DEF Next

(* A retry never runs on a server its turn has found dead, unless another      *)
(* request with the same key stored a workflow in between.                     *)
THEOREM RetriesCorrect == Spec => []RetriesElsewhere
<1>1. Spec => []Elsewhere
  BY AlwaysTyped, InitElsewhere, StepElsewhere, PTL DEF Spec
<1> QED BY <1>1, ElsewhereFits, PTL
=============================================================================
