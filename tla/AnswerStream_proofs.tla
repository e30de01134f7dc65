------------------------ MODULE AnswerStream_proofs -------------------------
(***************************************************************************)
(* Proofs about AnswerStream, for any tools, calls, budgets and numbers of *)
(* events: the client is kept to the block protocol whatever the passes    *)
(* yield, no answer ends in silence, and an answer makes four secondary    *)
(* passes at most.                                                         *)
(***************************************************************************)
EXTENDS AnswerStream, FiniteSetTheorems, TLAPS

-----------------------------------------------------------------------------
(* The invariant, in parts.                                                  *)

InTail == router.todo \in {"fallback", "closing", "over", "done"}

(* Where the passes, the router and the client are.                           *)
Placed ==
  /\ InTail => at \in {"tail", "left"}
  /\ at \in Checks => router.todo = "idle"
  /\ phase = "over" => at = "tail"
  /\ phase = "cut" <=> at \in {"broken", "left"}
  /\ phase = "ended" => router.todo = "over"
  /\ phase = "open" => router.todo \notin {"over", "done"}

OpenBlocks == {router.thinking, router.text, router.block}

(* What the router keeps of its blocks is what the client has.                *)
Wired ==
  /\ router.next = Len(blocks) + 1
  /\ \A i \in 1..Len(blocks) : blocks[i].open <=> i \in OpenBlocks
  /\ router.thinking # 0 => blocks[router.thinking].kind = "thinking"
  /\ router.text # 0 => blocks[router.text].kind = "text"
  /\ router.block # 0 => blocks[router.block].kind = BlockKind

(* A block of its own has nothing else open, the calls come last, and thinking  *)
(* is the block that was opened last.                                        *)
Alone ==
  /\ router.block # 0 => /\ router.thinking = 0 /\ router.text = 0
                         /\ router.todo \in {"tool", "closing"}
  /\ router.wrote => router.block # 0
  /\ router.block # 0 /\ router.todo = "closing" => router.sent < Len(acc.calls)
  /\ router.sent # 0 => router.todo \in {"closing", "over", "done"}
  /\ (\E i \in 1..Len(blocks) : blocks[i].kind = "tool_use") =>
       /\ router.todo \in {"closing", "over", "done"}
       /\ router.thinking = 0 /\ router.text = 0
  /\ router.thinking # 0 /\ router.text # 0 /\ router.todo # "fallback"
       /\ router.todo # "closing" => router.text < router.thinking

Sound == TypeOK /\ Placed /\ Wired /\ Alone

(* The client has something to render.                                       *)
Rendered == \E i \in 1..Len(blocks) : blocks[i].kind # "thinking"

(* What was said was rendered or is about to be, and an answer with nothing to  *)
(* say knows why.                                                            *)
Spoken ==
  /\ acc.content => Rendered \/ router.todo = "text"
  /\ acc.error => acc.final
  /\ at = "tail" \/ InTail => (Nothing => acc.overflow \/ acc.incomplete \/ cancelled)
  /\ router.todo \in {"closing", "over", "done"} /\ acc.calls = << >>
       /\ (acc.content \/ acc.final) => Rendered
  /\ router.sent # 0 => Rendered
  /\ last.type = "end" => /\ router.todo \in {"over", "done"}
                          /\ last.kind = StopReason
  /\ router.todo \in {"over", "done"} => router.sent = Len(acc.calls)

(* The passes for an answer with text, and those for an empty one.            *)
OfText == {"truncation", "nudge", "summary"}
OfEmpty == {"retry", "second"}

Chained ==
  /\ passes \subseteq Passes \ {"primary"}
  /\ passes \cap OfText # {} => acc.final /\ passes \cap OfEmpty = {}
  /\ passes \cap OfEmpty # {} =>
       at \in {"retry", "stillempty", "second", "exhausted", "tail", "broken", "left"}

-----------------------------------------------------------------------------
LEMMA InitSound == Init => Sound
<1> SUFFICES ASSUME Init PROVE Sound
  OBVIOUS
<1>1. PassesOK
  <2>1. run \in Runs
    BY StreamAssumption DEF Init, NewRun, Runs
  <2>2. acc \in Accumulators
    BY StreamAssumption DEF Init, NewAccumulator, Accumulators
  <2>3. events \in 0..MaxEvents
    BY StreamAssumption DEF Init
  <2> QED BY <2>1, <2>2, <2>3 DEF Init, PassesOK, Passes
<1>2. RouterOK
  <2>1. router \in Routers
    BY DEF Init, NewRouter, Routers, Todos
  <2> QED BY <2>1 DEF Init, NewRouter, NewAccumulator, RouterOK, Protocol!Init
<1>3. Placed /\ Wired /\ Alone
  BY DEF Init, NewRouter, Protocol!Init, Placed, Passes, Checks, InTail, Wired, OpenBlocks, Alone
<1> QED BY <1>1, <1>2, <1>3 DEF Sound, TypeOK

LEMMA InitSpoken == Init => Spoken /\ Chained
BY DEF Init, NewRouter, NewAccumulator, Protocol!Init, Protocol!Begun, Spoken, Chained,
   InTail, OfText, OfEmpty

-----------------------------------------------------------------------------
(* The steps in which the router sends nothing.                              *)

Producing == Think \/ Say \/ ServerTool \/ Done \/ Stale \/ Overflow \/ Unbuilt
Quiet == Producing \/ Check \/ Cancel \/ Leave

LEMMA RunningAlone ==
  ASSUME Sound, Running
  PROVE  /\ phase = "open" /\ router.todo = "idle" /\ at \in Passes
         /\ router.sent = 0 /\ router.block = 0 /\ ~router.wrote
BY DEF Sound, TypeOK, RouterOK, Routers, Placed, Alone, Running, Passes, InTail

LEMMA CheckingAlone ==
  ASSUME Sound, at \in Checks
  PROVE  /\ phase = "open" /\ router.todo = "idle"
         /\ router.sent = 0 /\ router.block = 0 /\ ~router.wrote
BY DEF Sound, TypeOK, RouterOK, Routers, Placed, Alone, Checks, InTail

(* The router has at most got an event, and the client at most been cut off.  *)
Handed ==
  /\ Running /\ at' = at /\ phase' = phase /\ acc'.calls = acc.calls
  /\ router' \in Routers
  /\ router' = [router EXCEPT !.todo = router'.todo]
  /\ router'.todo \in {"idle", "thinking", "text", "tool"}

LEMMA YieldHanded ==
  ASSUME Sound, Running, acc'.calls = acc.calls, NEW said,
         NEW todo \in {"idle", "thinking", "text", "tool"}, Yield(todo, said)
  PROVE  Handed /\ blocks' = blocks /\ last' = last
BY DEF Sound, TypeOK, RouterOK, Handed, Yield, Routers, Todos, client

LEMMA QuietRouter ==
  ASSUME Sound, Quiet
  PROVE  /\ blocks' = blocks /\ last' = last
         /\ phase' = phase \/ phase' = "cut"
         /\ Handed \/ router' = router
<1>1. acc \in Accumulators
  BY DEF Sound, TypeOK, PassesOK
<1>2. CASE Think
  BY <1>2, YieldHanded DEF Think, Handed
<1>3. CASE Say
  <2>1. acc'.calls = acc.calls
    BY <1>1, <1>3 DEF Say, Accumulators
  <2> QED BY <2>1, <1>3, YieldHanded DEF Say, Handed
<1>4. CASE ServerTool
  BY <1>4, YieldHanded DEF ServerTool, Handed
<1>5. CASE Done \/ Cancel \/ Leave
  BY <1>5 DEF Done, Cancel, Leave, client, history
<1>6. CASE Stale \/ Overflow \/ Unbuilt
  BY <1>6 DEF Stale, Overflow, Unbuilt, Broken, client, history
<1>7. CASE Check
  BY <1>7 DEF Check, CheckTruncated, CheckInvented, CheckUnfinished, CheckUnsummed, CheckEmpty,
     CheckStillEmpty, CheckExhausted, Checking, Broken, client, history
<1> QED BY <1>2, <1>3, <1>4, <1>5, <1>6, <1>7 DEF Quiet, Producing

LEMMA ProducingTyped == ASSUME Sound, Producing PROVE PassesOK'
<1> USE StreamAssumption
<1>1. PassesOK /\ run \in Runs /\ acc \in Accumulators /\ NewRun \in Runs
  BY DEF Sound, TypeOK, PassesOK, NewRun, Runs
<1>2. ASSUME NEW todo, NEW said \in BOOLEAN, Yield(todo, said)
      PROVE  run' \in Runs /\ events' \in 0..MaxEvents
             /\ UNCHANGED <<at, passes, cancelled>>
  <2>1. run' \in Runs
    BY <1>1, <1>2 DEF Yield, Runs
  <2>2. events' \in 0..MaxEvents
    BY <1>1, <1>2 DEF PassesOK, Yield
  <2> QED BY <2>1, <2>2, <1>2 DEF Yield
<1>3. CASE Think \/ ServerTool
  BY <1>1, <1>2, <1>3 DEF Think, ServerTool, PassesOK
<1>4. CASE Say
  <2>1. acc' \in Accumulators
    BY <1>1, <1>4 DEF Say, Accumulators
  <2> QED BY <2>1, <1>1, <1>2, <1>4 DEF Say, PassesOK
<1>5. CASE Done
  <2>1. PICK finish \in Finishes, calls \in CallLists :
          acc' = [acc EXCEPT !.finish = finish, !.calls = calls,
                             !.error = @ \/ finish = "error",
                             !.final = @ \/ run.said \/ finish = "error"]
    BY <1>5 DEF Done
  <2>2. acc' \in Accumulators
    BY <2>1, <1>1 DEF Accumulators, Runs
  <2>3. at' \in Checks
    BY <1>5 DEF Done, Running, Passes, After, Checks
  <2> QED BY <2>2, <2>3, <1>1, <1>5 DEF Done, PassesOK, history
<1>6. CASE Stale
  <2>1. run' \in Runs
    <3>1. run.stale < StaleRetries => run.stale + 1 \in 0..StaleRetries
      BY <1>1 DEF Runs
    <3> QED BY <3>1, <1>1, <1>6 DEF Stale, Runs
  <2> QED BY <2>1, <1>1, <1>6 DEF Stale, Broken, PassesOK, history
<1>7. CASE Overflow
  <2>1. run' \in Runs
    <3>1. run.summed < OverflowRetries => run.summed + 1 \in 0..OverflowRetries
      BY <1>1 DEF Runs
    <3> QED BY <3>1, <1>1, <1>7 DEF Overflow, Runs
  <2> QED BY <2>1, <1>1, <1>7 DEF Overflow, Broken, PassesOK, history
<1>8. CASE Unbuilt
  <2>1. run' \in Runs
    <3>1. run.built < BuildRetries => run.built + 1 \in 0..BuildRetries
      BY <1>1 DEF Runs
    <3> QED BY <3>1, <1>1, <1>8 DEF Unbuilt, Runs, NewRun
  <2> QED BY <2>1, <1>1, <1>8 DEF Unbuilt, Broken, PassesOK, history
<1> QED BY <1>3, <1>4, <1>5, <1>6, <1>7, <1>8 DEF Producing

(* What a check does to the accumulator: it may drop calls.                   *)
LEMMA CheckTyped == ASSUME Sound, Check PROVE PassesOK' /\ at \in Checks
<1> USE StreamAssumption
<1>1. PassesOK /\ run \in Runs /\ acc \in Accumulators /\ NewRun \in Runs
  BY DEF Sound, TypeOK, PassesOK, NewRun, Runs
<1>2. at \in Checks /\ UNCHANGED <<events, cancelled>>
  BY DEF Check, CheckTruncated, CheckInvented, CheckUnfinished, CheckUnsummed, CheckEmpty,
     CheckStillEmpty, CheckExhausted, Checking, Broken, Checks, history
<1>3. run' \in Runs /\ passes' \subseteq Passes
  BY <1>1 DEF Check, CheckTruncated, CheckInvented, CheckUnfinished, CheckUnsummed, CheckEmpty,
     CheckStillEmpty, CheckExhausted, Pass, Skip, Broken, PassesOK, Passes, history
<1>4. at' \in Passes \cup Checks \cup {"tail", "broken"}
  BY DEF Check, CheckTruncated, CheckInvented, CheckUnfinished, CheckUnsummed, CheckEmpty,
     CheckStillEmpty, CheckExhausted, Pass, Skip, Broken, Passes, Checks
<1>5. acc' \in Accumulators
  <2>1. CASE CheckInvented
    <3>1. SelectSeq(acc.calls, Known) \in CallLists
      BY <1>1 DEF Accumulators
    <3> QED BY <3>1, <1>1, <2>1 DEF CheckInvented, Accumulators
  <2>2. CASE CheckEmpty \/ CheckExhausted
    BY <2>2, <1>1 DEF CheckEmpty, CheckExhausted, Checking, Broken, Nothing, Accumulators
  <2>3. CASE CheckTruncated \/ CheckUnfinished \/ CheckUnsummed \/ CheckStillEmpty
    BY <2>3, <1>1 DEF CheckTruncated, CheckUnfinished, CheckUnsummed, CheckStillEmpty
  <2> QED BY <2>1, <2>2, <2>3 DEF Check
<1> QED BY <1>1, <1>2, <1>3, <1>4, <1>5 DEF PassesOK

LEMMA QuietKeeps == ASSUME Sound, Quiet PROVE Sound'
<1>1. /\ RouterOK /\ Placed /\ Wired /\ Alone
      /\ router \in Routers /\ router.next \in Nat /\ phase \in {"open", "ended", "over", "cut"}
  BY DEF Sound, TypeOK, RouterOK, Routers
<1>2. PassesOK'
  <2>1. CASE Cancel \/ Leave
    BY <2>1 DEF Sound, TypeOK, PassesOK, Cancel, Leave, history
  <2> QED BY <2>1, ProducingTyped, CheckTyped DEF Quiet
<1>3. blocks' = blocks /\ (phase' = phase \/ phase' = "cut") /\ (Handed \/ router' = router)
  BY QuietRouter
<1>4. acc'.calls = acc.calls \/ (router.sent = 0 /\ router.block = 0)
  <2>1. CASE Running
    BY <2>1, RunningAlone
  <2>2. CASE Check
    BY <2>2, CheckTyped, CheckingAlone DEF Sound, Alone
  <2>3. CASE Cancel \/ Leave
    BY <2>3 DEF Cancel, Leave
  <2> QED BY <2>1, <2>2, <2>3
          DEF Quiet, Producing, Think, Say, ServerTool, Done, Stale, Overflow, Unbuilt
<1>5. RouterOK'
  <2>1. CASE Handed
    BY <2>1, <1>1, <1>3 DEF Handed, RouterOK, Routers
  <2>2. CASE router' = router
    BY <2>2, <1>1, <1>2, <1>3, <1>4 DEF RouterOK, Routers, PassesOK, Accumulators
  <2> QED BY <2>1, <2>2, <1>3
<1>6. Placed'
  <2>1. CASE Handed
    BY <2>1, RunningAlone DEF Handed, Placed, InTail, Passes, Checks
  <2>2. CASE Leave
    BY <2>2, <1>1, <1>3 DEF Leave, Placed, InTail, Checks
  <2>3. CASE ~Handed /\ ~Leave
    <3>1. router' = router /\ router.todo = "idle" /\ phase = "open"
      BY <2>3, <1>3, RunningAlone, CheckingAlone, CheckTyped
         DEF Quiet, Producing, Think, Say, ServerTool, Done, Stale, Overflow, Unbuilt,
             Cancel, Checks
    <3>2. (phase' = "open" /\ at' \in Passes \cup Checks \cup {"tail"})
          \/ (phase' = "cut" /\ at' = "broken")
      <4>1. CASE Check
        BY <4>1, <3>1 DEF Check, CheckTruncated, CheckInvented, CheckUnfinished,
           CheckUnsummed, CheckEmpty, CheckStillEmpty, CheckExhausted, Checking, Pass, Skip,
           Broken, Passes, Checks, client
      <4>2. CASE Done
        BY <4>2, <3>1 DEF Done, Running, Passes, After, Checks, client
      <4>3. CASE Stale \/ Overflow \/ Unbuilt
        BY <4>3, <3>1 DEF Stale, Overflow, Unbuilt, Broken, Running, client
      <4>4. CASE Think \/ Say \/ ServerTool
        BY <4>4, <3>1 DEF Think, Say, ServerTool, Yield, Running, client
      <4>5. CASE Cancel
        BY <4>5, <3>1 DEF Cancel, client
      <4> QED BY <4>1, <4>2, <4>3, <4>4, <4>5, <2>3 DEF Quiet, Producing
    <3> QED BY <3>1, <3>2 DEF Placed, InTail, Passes, Checks
  <2> QED BY <2>1, <2>2, <2>3
<1>7. Wired'
  <2>1. CASE Handed
    BY <2>1, <1>1, <1>3, RunningAlone DEF Handed, Wired, OpenBlocks, Routers
  <2>2. CASE router' = router
    BY <2>2, <1>1, <1>3 DEF Wired, OpenBlocks, BlockKind
  <2> QED BY <2>1, <2>2, <1>3
<1>8. Alone'
  <2>1. CASE Handed
    BY <2>1, <1>1, <1>3, RunningAlone DEF Handed, Alone, Routers
  <2>2. CASE router' = router
    BY <2>2, <1>1, <1>3, <1>4 DEF Alone
  <2> QED BY <2>1, <2>2, <1>3
<1> QED BY <1>2, <1>5, <1>6, <1>7, <1>8 DEF Sound, TypeOK

-----------------------------------------------------------------------------
(* The steps in which the router sends an event: each is one of the protocol.  *)

LEMMA RouteFacts ==
  ASSUME Sound, Routing
  PROVE  /\ PassesOK' /\ Len(acc.calls) \in Nat
         /\ router.todo # "over" => phase = "open"
         /\ blocks \in Seq([kind : Protocol!Kinds, open : BOOLEAN])
         /\ router \in Routers /\ router.sent <= Len(acc.calls)
         /\ OpenBlocks \subseteq 0..Len(blocks)
         /\ UNCHANGED <<at, acc>>
BY StreamAssumption DEF Sound, TypeOK, PassesOK, RouterOK, Placed, Routing, history, OpenBlocks,
   Accumulators

(* A block is started and gets the next number.                              *)
LEMMA StartedFacts ==
  ASSUME Sound, NEW k \in Protocol!Kinds, Started(k)
  PROVE  /\ blocks' \in Seq([kind : Protocol!Kinds, open : BOOLEAN])
         /\ Len(blocks') = Len(blocks) + 1
         /\ \A i \in 1..Len(blocks) : blocks'[i] = blocks[i]
         /\ blocks'[Len(blocks) + 1] = [kind |-> k, open |-> TRUE]
         /\ last' = Protocol!StartOf(Len(blocks) + 1, k) /\ phase' = phase
BY DEF Sound, TypeOK, RouterOK, Wired, Started, Send

LEMMA Element == ASSUME NEW S, NEW s \in Seq(S), NEW i \in 1..Len(s) PROVE s[i] \in S
OBVIOUS

LEMMA StoppedFacts ==
  ASSUME Sound, NEW i \in 1..Len(blocks), NEW k, Stopped(i, k)
  PROVE  /\ blocks' \in Seq([kind : Protocol!Kinds, open : BOOLEAN])
         /\ Len(blocks') = Len(blocks)
         /\ \A j \in 1..Len(blocks) : blocks'[j].kind = blocks[j].kind
         /\ \A j \in 1..Len(blocks) : blocks'[j].open <=> (blocks[j].open /\ j # i)
         /\ last' = Protocol!StopOf(i, k) /\ phase' = phase
<1>1. blocks \in Seq([kind : Protocol!Kinds, open : BOOLEAN])
  BY DEF Sound, TypeOK, RouterOK
<1>2. blocks' = [blocks EXCEPT ![i].open = FALSE]
  BY DEF Stopped
<1>3. blocks[i] \in [kind : Protocol!Kinds, open : BOOLEAN]
  BY <1>1, Element
<1>4. [blocks[i] EXCEPT !.open = FALSE] \in [kind : Protocol!Kinds, open : BOOLEAN]
  BY <1>3
<1>5. blocks' \in Seq([kind : Protocol!Kinds, open : BOOLEAN]) /\ Len(blocks') = Len(blocks)
  BY <1>1, <1>2, <1>4
<1>6. ASSUME NEW j \in 1..Len(blocks)
      PROVE  /\ blocks'[j].kind = blocks[j].kind
             /\ blocks'[j].open <=> (blocks[j].open /\ j # i)
  <2>1. blocks'[j] = IF j = i THEN [blocks[i] EXCEPT !.open = FALSE] ELSE blocks[j]
    BY <1>1, <1>2
  <2>2. blocks[j] \in [kind : Protocol!Kinds, open : BOOLEAN]
    BY <1>1, Element
  <2> QED BY <1>3, <2>1, <2>2
<1> QED BY <1>5, <1>6 DEF Stopped, Send

LEMMA OpenThinkingKeeps == ASSUME Sound, OpenThinking PROVE Sound' /\ Protocol!Start("thinking")
<1>1. router' = [router EXCEPT !.thinking = router.next, !.next = @ + 1]
      /\ router.todo = "thinking" /\ router.thinking = 0
      /\ Started("thinking") /\ Routing
  BY DEF OpenThinking
<1>2. Placed /\ Wired /\ Alone /\ "thinking" \in Protocol!Kinds
  BY DEF Sound, Protocol!Kinds
<1>3. /\ PassesOK' /\ acc' = acc /\ at' = at
      /\ phase = "open" /\ router \in Routers
      /\ blocks \in Seq([kind : Protocol!Kinds, open : BOOLEAN])
      /\ router.sent <= Len(acc.calls) /\ OpenBlocks \subseteq 0..Len(blocks)
  BY <1>1, RouteFacts
<1>4. /\ blocks' \in Seq([kind : Protocol!Kinds, open : BOOLEAN])
      /\ Len(blocks') = Len(blocks) + 1
      /\ \A i \in 1..Len(blocks) : blocks'[i] = blocks[i]
      /\ blocks'[Len(blocks) + 1] = [kind |-> "thinking", open |-> TRUE]
      /\ last' = Protocol!StartOf(Len(blocks) + 1, "thinking") /\ phase' = phase
  BY <1>1, <1>2, StartedFacts
<1>5. /\ router.next = Len(blocks) + 1 /\ Len(blocks) \in Nat /\ router.block = 0
      /\ router.next \in Nat /\ router.next + 1 \in Nat
  BY <1>1, <1>2, <1>3 DEF Wired, Alone
<1>6. router' \in Routers
  BY <1>1, <1>3, <1>5 DEF Routers
<1>7. /\ router'.todo = router.todo /\ router'.sent = router.sent
      /\ router'.wrote = router.wrote /\ router'.next = Len(blocks) + 2
      /\ router'.thinking = Len(blocks) + 1
      /\ router'.text = router.text /\ router'.block = 0
  BY <1>1, <1>3, <1>5 DEF Routers
<1>8. router.thinking \in 0..Len(blocks) /\ router.text \in 0..Len(blocks)
  BY <1>3 DEF OpenBlocks
<1>9. RouterOK'
  BY <1>3, <1>4, <1>5, <1>6, <1>7, <1>8 DEF RouterOK
<1>10. Placed'
  BY <1>2, <1>3, <1>4, <1>7 DEF Placed, InTail
<1>11. Wired'
  <2>1. ASSUME NEW i \in 1..Len(blocks') PROVE blocks'[i].open <=> i \in OpenBlocks'
    BY <2>1, <1>1, <1>2, <1>4, <1>5, <1>7, <1>8 DEF Wired, OpenBlocks
  <2> QED
    BY <2>1, <1>1, <1>2, <1>4, <1>5, <1>7, <1>8 DEF Wired, BlockKind
<1>12. Alone'
  <2>1. (\E i \in 1..Len(blocks') : blocks'[i].kind = "tool_use") =>
          (\E i \in 1..Len(blocks) : blocks[i].kind = "tool_use") \/ "thinking" = "tool_use"
    BY <1>4, <1>5
  <2> QED BY <2>1, <1>1, <1>2, <1>3, <1>5, <1>7, <1>8 DEF Alone
<1>13. Protocol!Start("thinking")
  BY <1>1, <1>2, <1>3, <1>4 DEF Protocol!Start, Alone, Started
<1> QED BY <1>3, <1>9, <1>10, <1>11, <1>12, <1>13 DEF Sound, TypeOK

LEMMA OpenTextKeeps == ASSUME Sound, OpenText PROVE Sound' /\ Protocol!Start("text")
<1>1. router' = [router EXCEPT !.text = router.next, !.next = @ + 1]
      /\ router.text = 0 /\ router.todo \in {"text", "fallback"}
      /\ (router.todo = "text" => router.thinking = 0)
      /\ Started("text") /\ Routing
  BY DEF OpenText, WritesText
<1>2. Placed /\ Wired /\ Alone /\ "text" \in Protocol!Kinds
  BY DEF Sound, Protocol!Kinds
<1>3. /\ PassesOK' /\ acc' = acc /\ at' = at
      /\ phase = "open" /\ router \in Routers
      /\ blocks \in Seq([kind : Protocol!Kinds, open : BOOLEAN])
      /\ router.sent <= Len(acc.calls) /\ OpenBlocks \subseteq 0..Len(blocks)
  BY <1>1, RouteFacts
<1>4. /\ blocks' \in Seq([kind : Protocol!Kinds, open : BOOLEAN])
      /\ Len(blocks') = Len(blocks) + 1
      /\ \A i \in 1..Len(blocks) : blocks'[i] = blocks[i]
      /\ blocks'[Len(blocks) + 1] = [kind |-> "text", open |-> TRUE]
      /\ last' = Protocol!StartOf(Len(blocks) + 1, "text") /\ phase' = phase
  BY <1>1, <1>2, StartedFacts
<1>5. /\ router.next = Len(blocks) + 1 /\ Len(blocks) \in Nat /\ router.block = 0
      /\ router.next \in Nat /\ router.next + 1 \in Nat
  BY <1>1, <1>2, <1>3 DEF Wired, Alone
<1>6. router' \in Routers
  BY <1>1, <1>3, <1>5 DEF Routers
<1>7. /\ router'.todo = router.todo /\ router'.sent = router.sent
      /\ router'.wrote = router.wrote /\ router'.next = Len(blocks) + 2
      /\ router'.text = Len(blocks) + 1
      /\ router'.thinking = router.thinking /\ router'.block = 0
  BY <1>1, <1>3, <1>5 DEF Routers
<1>8. router.thinking \in 0..Len(blocks) /\ router.text \in 0..Len(blocks)
  BY <1>3 DEF OpenBlocks
<1>9. RouterOK'
  BY <1>3, <1>4, <1>5, <1>6, <1>7, <1>8 DEF RouterOK
<1>10. Placed'
  BY <1>2, <1>3, <1>4, <1>7 DEF Placed, InTail
<1>11. Wired'
  <2>1. ASSUME NEW i \in 1..Len(blocks') PROVE blocks'[i].open <=> i \in OpenBlocks'
    BY <2>1, <1>1, <1>2, <1>4, <1>5, <1>7, <1>8 DEF Wired, OpenBlocks
  <2> QED
    BY <2>1, <1>1, <1>2, <1>4, <1>5, <1>7, <1>8 DEF Wired, BlockKind
<1>12. Alone'
  <2>1. (\E i \in 1..Len(blocks') : blocks'[i].kind = "tool_use") =>
          (\E i \in 1..Len(blocks) : blocks[i].kind = "tool_use") \/ "text" = "tool_use"
    BY <1>4, <1>5
  <2> QED BY <2>1, <1>1, <1>2, <1>3, <1>5, <1>7, <1>8 DEF Alone
<1>13. Protocol!Start("text")
  BY <1>1, <1>2, <1>3, <1>4 DEF Protocol!Start, Alone, Started
<1> QED BY <1>3, <1>9, <1>10, <1>11, <1>12, <1>13 DEF Sound, TypeOK

LEMMA OpenBlockKeeps ==
  ASSUME Sound, OpenBlock, NEW k, k = BlockKind
  PROVE  Sound' /\ Protocol!Start(k)
<1>1. router' = [router EXCEPT !.block = router.next, !.next = router.next + 1]
      /\ router.thinking = 0 /\ router.text = 0 /\ router.block = 0
      /\ router.todo \in {"tool", "closing"}
      /\ (router.todo = "closing" => router.sent < Len(acc.calls))
      /\ k = (IF router.todo = "tool" THEN "text" ELSE "tool_use")
      /\ Started(k) /\ Routing
  BY DEF OpenBlock, Numbered, AllClosed, BlockKind
<1>2. Placed /\ Wired /\ Alone /\ k \in Protocol!Kinds
  BY DEF Sound, Protocol!Kinds, BlockKind
<1>3. /\ PassesOK' /\ acc' = acc /\ at' = at
      /\ phase = "open" /\ router \in Routers
      /\ blocks \in Seq([kind : Protocol!Kinds, open : BOOLEAN])
      /\ router.sent <= Len(acc.calls) /\ OpenBlocks \subseteq 0..Len(blocks)
  BY <1>1, RouteFacts
<1>4. /\ blocks' \in Seq([kind : Protocol!Kinds, open : BOOLEAN])
      /\ Len(blocks') = Len(blocks) + 1
      /\ \A i \in 1..Len(blocks) : blocks'[i] = blocks[i]
      /\ blocks'[Len(blocks) + 1] = [kind |-> k, open |-> TRUE]
      /\ last' = Protocol!StartOf(Len(blocks) + 1, k) /\ phase' = phase
  BY <1>1, <1>2, StartedFacts
<1>5. /\ router.next = Len(blocks) + 1 /\ Len(blocks) \in Nat /\ router.block = 0
      /\ router.next \in Nat /\ router.next + 1 \in Nat
  BY <1>1, <1>2, <1>3 DEF Wired, Alone
<1>6. router' \in Routers
  BY <1>1, <1>3, <1>5 DEF Routers
<1>7. /\ router'.todo = router.todo /\ router'.sent = router.sent
      /\ router'.wrote = router.wrote /\ router'.next = Len(blocks) + 2
      /\ router'.thinking = 0 /\ router'.text = 0 /\ router'.block = Len(blocks) + 1
  BY <1>1, <1>3, <1>5 DEF Routers
<1>8. router.thinking \in 0..Len(blocks) /\ router.text \in 0..Len(blocks)
  BY <1>3 DEF OpenBlocks
<1>9. RouterOK'
  BY <1>3, <1>4, <1>5, <1>6, <1>7, <1>8 DEF RouterOK
<1>10. Placed'
  BY <1>2, <1>3, <1>4, <1>7 DEF Placed, InTail
<1>11. Wired'
  <2>1. ASSUME NEW i \in 1..Len(blocks') PROVE blocks'[i].open <=> i \in OpenBlocks'
    BY <2>1, <1>1, <1>2, <1>4, <1>5, <1>7, <1>8 DEF Wired, OpenBlocks
  <2> QED
    BY <2>1, <1>1, <1>2, <1>4, <1>5, <1>7, <1>8 DEF Wired, BlockKind
<1>12. Alone'
  <2>1. (\E i \in 1..Len(blocks') : blocks'[i].kind = "tool_use") =>
          (\E i \in 1..Len(blocks) : blocks[i].kind = "tool_use") \/ k = "tool_use"
    BY <1>4, <1>5
  <2> QED BY <2>1, <1>1, <1>2, <1>3, <1>5, <1>7, <1>8 DEF Alone
<1>13. Protocol!Start(k)
  BY <1>1, <1>2, <1>3, <1>4 DEF Protocol!Start, Alone, Started
<1> QED BY <1>3, <1>9, <1>10, <1>11, <1>12, <1>13 DEF Sound, TypeOK

(* What is written goes to an open block of its kind.                        *)
LEMMA WriteThinkingKeeps ==
  ASSUME Sound, WriteThinking
  PROVE  Sound' /\ \E i \in 1..Len(blocks) : Protocol!Delta(i)
<1>1. /\ router' = [router EXCEPT !.todo = "idle"]
      /\ router.thinking # 0 /\ router.todo = "thinking"
      /\ last' = Protocol!DeltaTo(router.thinking, "thinking") /\ blocks' = blocks /\ phase' = phase
      /\ Routing
  BY DEF WriteThinking, Wrote, Send
<1>2. Placed /\ Wired /\ Alone
  BY DEF Sound
<1>3. /\ PassesOK' /\ acc' = acc /\ at' = at
      /\ phase = "open" /\ router \in Routers
      /\ blocks \in Seq([kind : Protocol!Kinds, open : BOOLEAN])
      /\ router.sent <= Len(acc.calls) /\ OpenBlocks \subseteq 0..Len(blocks)
  BY <1>1, <1>2, RouteFacts DEF Alone
<1>4. router' \in Routers
  BY <1>1, <1>3 DEF Routers, Todos
<1>5. /\ router'.todo = "idle"
      /\ router'.thinking = router.thinking
      /\ router'.text = router.text
      /\ router'.next = router.next
      /\ router'.block = router.block
      /\ router'.wrote = router.wrote
      /\ router'.sent = router.sent
  BY <1>1, <1>3 DEF Routers
<1>6. RouterOK'
  BY <1>1, <1>3, <1>4, <1>5 DEF RouterOK, OpenBlocks
<1>7. Placed'
  BY <1>1, <1>2, <1>3, <1>5 DEF Placed, InTail
<1>8. Wired'
  BY <1>1, <1>2, <1>3, <1>5 DEF Wired, OpenBlocks, BlockKind
<1>9. Alone'
  BY <1>1, <1>2, <1>3, <1>5 DEF Alone
<1>10. router.thinking \in 1..Len(blocks) /\ Protocol!Delta(router.thinking)
  BY <1>1, <1>2, <1>3 DEF Protocol!Delta, Wired, OpenBlocks, BlockKind
<1> QED BY <1>3, <1>6, <1>7, <1>8, <1>9, <1>10 DEF Sound, TypeOK

LEMMA WriteTextKeeps ==
  ASSUME Sound, WriteText
  PROVE  Sound' /\ \E i \in 1..Len(blocks) : Protocol!Delta(i)
<1>1. /\ router' = [router EXCEPT !.todo = IF @ = "text" THEN "idle" ELSE "closing"]
      /\ router.text # 0 /\ router.todo \in {"text", "fallback"}
      /\ (router.todo = "text" => router.thinking = 0)
      /\ last' = Protocol!DeltaTo(router.text, "text") /\ blocks' = blocks /\ phase' = phase
      /\ Routing
  BY DEF WriteText, WritesText, Wrote, Send
<1>2. Placed /\ Wired /\ Alone
  BY DEF Sound
<1>3. /\ PassesOK' /\ acc' = acc /\ at' = at
      /\ phase = "open" /\ router \in Routers
      /\ blocks \in Seq([kind : Protocol!Kinds, open : BOOLEAN])
      /\ router.sent <= Len(acc.calls) /\ OpenBlocks \subseteq 0..Len(blocks)
  BY <1>1, <1>2, RouteFacts DEF Alone
<1>4. router' \in Routers
  BY <1>1, <1>3 DEF Routers, Todos
<1>5. /\ router'.todo = (IF router.todo = "text" THEN "idle" ELSE "closing")
      /\ router'.thinking = router.thinking
      /\ router'.text = router.text
      /\ router'.next = router.next
      /\ router'.block = router.block
      /\ router'.wrote = router.wrote
      /\ router'.sent = router.sent
  BY <1>1, <1>3 DEF Routers
<1>6. RouterOK'
  BY <1>1, <1>3, <1>4, <1>5 DEF RouterOK, OpenBlocks
<1>7. Placed'
  BY <1>1, <1>2, <1>3, <1>5 DEF Placed, InTail
<1>8. Wired'
  BY <1>1, <1>2, <1>3, <1>5 DEF Wired, OpenBlocks, BlockKind
<1>9. Alone'
  BY <1>1, <1>2, <1>3, <1>5 DEF Alone
<1>10. router.text \in 1..Len(blocks) /\ Protocol!Delta(router.text)
  BY <1>1, <1>2, <1>3 DEF Protocol!Delta, Wired, OpenBlocks, BlockKind
<1> QED BY <1>3, <1>6, <1>7, <1>8, <1>9, <1>10 DEF Sound, TypeOK

LEMMA WriteBlockKeeps ==
  ASSUME Sound, WriteBlock
  PROVE  Sound' /\ \E i \in 1..Len(blocks) : Protocol!Delta(i)
<1>1. /\ router' = [router EXCEPT !.wrote = TRUE]
      /\ router.block # 0 /\ ~router.wrote
      /\ last' = Protocol!DeltaTo(router.block, BlockKind) /\ blocks' = blocks /\ phase' = phase
      /\ Routing
  BY DEF WriteBlock, Wrote, Send
<1>2. Placed /\ Wired /\ Alone
  BY DEF Sound
<1>3. /\ PassesOK' /\ acc' = acc /\ at' = at
      /\ phase = "open" /\ router \in Routers
      /\ blocks \in Seq([kind : Protocol!Kinds, open : BOOLEAN])
      /\ router.sent <= Len(acc.calls) /\ OpenBlocks \subseteq 0..Len(blocks)
  BY <1>1, <1>2, RouteFacts DEF Alone
<1>4. router' \in Routers
  BY <1>1, <1>3 DEF Routers, Todos
<1>5. /\ router'.todo = router.todo
      /\ router'.thinking = router.thinking
      /\ router'.text = router.text
      /\ router'.next = router.next
      /\ router'.block = router.block
      /\ router'.wrote = TRUE
      /\ router'.sent = router.sent
  BY <1>1, <1>3 DEF Routers
<1>6. RouterOK'
  BY <1>1, <1>3, <1>4, <1>5 DEF RouterOK, OpenBlocks
<1>7. Placed'
  BY <1>1, <1>2, <1>3, <1>5 DEF Placed, InTail
<1>8. Wired'
  BY <1>1, <1>2, <1>3, <1>5 DEF Wired, OpenBlocks, BlockKind
<1>9. Alone'
  BY <1>1, <1>2, <1>3, <1>5 DEF Alone
<1>10. router.block \in 1..Len(blocks) /\ Protocol!Delta(router.block)
  BY <1>1, <1>2, <1>3 DEF Protocol!Delta, Wired, OpenBlocks, BlockKind
<1> QED BY <1>3, <1>6, <1>7, <1>8, <1>9, <1>10 DEF Sound, TypeOK

(* A block that is closed is no longer open to the client, either.           *)
LEMMA CloseThinkingKeeps ==
  ASSUME Sound, CloseThinking
  PROVE  Sound' /\ \E i \in 1..Len(blocks) : Protocol!Stop(i)
<1>1. /\ router' = [router EXCEPT !.thinking = 0]
      /\ router.thinking # 0 /\ router.todo \in {"text", "tool", "closing"}
      /\ Stopped(router.thinking, "thinking") /\ Routing
  BY DEF CloseThinking, ClosesThinking
<1>2. Placed /\ Wired /\ Alone
  BY DEF Sound
<1>3. /\ PassesOK' /\ acc' = acc /\ at' = at
      /\ phase = "open" /\ router \in Routers
      /\ blocks \in Seq([kind : Protocol!Kinds, open : BOOLEAN])
      /\ router.sent <= Len(acc.calls) /\ OpenBlocks \subseteq 0..Len(blocks)
  BY <1>1, <1>2, RouteFacts DEF Alone
<1>4. router.thinking \in 1..Len(blocks)
  BY <1>1, <1>3 DEF OpenBlocks
<1>5. /\ blocks' \in Seq([kind : Protocol!Kinds, open : BOOLEAN])
      /\ Len(blocks') = Len(blocks)
      /\ \A j \in 1..Len(blocks) : blocks'[j].kind = blocks[j].kind
      /\ \A j \in 1..Len(blocks) : blocks'[j].open <=> (blocks[j].open /\ j # router.thinking)
      /\ last' = Protocol!StopOf(router.thinking, "thinking") /\ phase' = phase
  BY <1>1, <1>4, StoppedFacts
<1>6. router' \in Routers
  <2>1. router.sent + 1 \in Nat
    BY <1>3 DEF Routers
  <2> QED BY <2>1, <1>1, <1>3 DEF Routers, Todos
<1>7. /\ router'.todo = router.todo
      /\ router'.thinking = 0
      /\ router'.text = router.text
      /\ router'.next = router.next
      /\ router'.block = router.block
      /\ router'.wrote = router.wrote
      /\ router'.sent = router.sent
  BY <1>1, <1>3 DEF Routers
<1>8. /\ router.thinking \in 0..Len(blocks) /\ router.text \in 0..Len(blocks)
      /\ router.block \in 0..Len(blocks) /\ Len(blocks) \in Nat
      /\ router.block = 0 /\ (router.text # 0 => router.text # router.thinking)
  BY <1>1, <1>2, <1>3 DEF OpenBlocks, Alone, Wired
<1>9. RouterOK'
  BY <1>1, <1>2, <1>3, <1>5, <1>6, <1>7, <1>8 DEF RouterOK, Alone, Routers
<1>10. Placed'
  BY <1>1, <1>2, <1>3, <1>5, <1>7 DEF Placed, InTail
<1>11. Wired'
  <2>1. ASSUME NEW j \in 1..Len(blocks') PROVE blocks'[j].open <=> j \in OpenBlocks'
    BY <2>1, <1>2, <1>5, <1>7, <1>8 DEF Wired, OpenBlocks
  <2> QED BY <2>1, <1>1, <1>2, <1>5, <1>7, <1>8 DEF Wired, BlockKind
<1>12. Alone'
  <2>1. (\E j \in 1..Len(blocks') : blocks'[j].kind = "tool_use") =>
          (\E j \in 1..Len(blocks) : blocks[j].kind = "tool_use")
    BY <1>5, <1>8
  <2> QED BY <2>1, <1>1, <1>2, <1>3, <1>7, <1>8 DEF Alone, Routers
<1>13. blocks[router.thinking].open /\ blocks[router.thinking].kind = "thinking"
  BY <1>1, <1>2, <1>4 DEF Wired, OpenBlocks
<1>14. Protocol!Stop(router.thinking)
  BY <1>13, <1>1, <1>3, <1>5 DEF Protocol!Stop, Stopped
<1> QED BY <1>3, <1>4, <1>9, <1>10, <1>11, <1>12, <1>14 DEF Sound, TypeOK

LEMMA CloseTextKeeps ==
  ASSUME Sound, CloseText
  PROVE  Sound' /\ \E i \in 1..Len(blocks) : Protocol!Stop(i)
<1>1. /\ router' = [router EXCEPT !.text = 0]
      /\ router.text # 0 /\ router.todo \in {"tool", "closing"} /\ router.thinking = 0
      /\ Stopped(router.text, "text") /\ Routing
  BY DEF CloseText
<1>2. Placed /\ Wired /\ Alone
  BY DEF Sound
<1>3. /\ PassesOK' /\ acc' = acc /\ at' = at
      /\ phase = "open" /\ router \in Routers
      /\ blocks \in Seq([kind : Protocol!Kinds, open : BOOLEAN])
      /\ router.sent <= Len(acc.calls) /\ OpenBlocks \subseteq 0..Len(blocks)
  BY <1>1, <1>2, RouteFacts DEF Alone
<1>4. router.text \in 1..Len(blocks)
  BY <1>1, <1>3 DEF OpenBlocks
<1>5. /\ blocks' \in Seq([kind : Protocol!Kinds, open : BOOLEAN])
      /\ Len(blocks') = Len(blocks)
      /\ \A j \in 1..Len(blocks) : blocks'[j].kind = blocks[j].kind
      /\ \A j \in 1..Len(blocks) : blocks'[j].open <=> (blocks[j].open /\ j # router.text)
      /\ last' = Protocol!StopOf(router.text, "text") /\ phase' = phase
  BY <1>1, <1>4, StoppedFacts
<1>6. router' \in Routers
  <2>1. router.sent + 1 \in Nat
    BY <1>3 DEF Routers
  <2> QED BY <2>1, <1>1, <1>3 DEF Routers, Todos
<1>7. /\ router'.todo = router.todo
      /\ router'.thinking = router.thinking
      /\ router'.text = 0
      /\ router'.next = router.next
      /\ router'.block = router.block
      /\ router'.wrote = router.wrote
      /\ router'.sent = router.sent
  BY <1>1, <1>3 DEF Routers
<1>8. /\ router.thinking \in 0..Len(blocks) /\ router.text \in 0..Len(blocks)
      /\ router.block \in 0..Len(blocks) /\ Len(blocks) \in Nat
      /\ router.block = 0
  BY <1>1, <1>2, <1>3 DEF OpenBlocks, Alone, Wired
<1>9. RouterOK'
  BY <1>1, <1>2, <1>3, <1>5, <1>6, <1>7, <1>8 DEF RouterOK, Alone, Routers
<1>10. Placed'
  BY <1>1, <1>2, <1>3, <1>5, <1>7 DEF Placed, InTail
<1>11. Wired'
  <2>1. ASSUME NEW j \in 1..Len(blocks') PROVE blocks'[j].open <=> j \in OpenBlocks'
    BY <2>1, <1>2, <1>5, <1>7, <1>8 DEF Wired, OpenBlocks
  <2> QED BY <2>1, <1>1, <1>2, <1>5, <1>7, <1>8 DEF Wired, BlockKind
<1>12. Alone'
  <2>1. (\E j \in 1..Len(blocks') : blocks'[j].kind = "tool_use") =>
          (\E j \in 1..Len(blocks) : blocks[j].kind = "tool_use")
    BY <1>5, <1>8
  <2> QED BY <2>1, <1>1, <1>2, <1>3, <1>7, <1>8 DEF Alone, Routers
<1>13. blocks[router.text].open /\ blocks[router.text].kind = "text"
  BY <1>1, <1>2, <1>4 DEF Wired, OpenBlocks
<1>14. Protocol!Stop(router.text)
  BY <1>13, <1>1, <1>3, <1>5 DEF Protocol!Stop, Stopped
<1> QED BY <1>3, <1>4, <1>9, <1>10, <1>11, <1>12, <1>14 DEF Sound, TypeOK

LEMMA CloseBlockKeeps ==
  ASSUME Sound, CloseBlock
  PROVE  Sound' /\ \E i \in 1..Len(blocks) : Protocol!Stop(i)
<1>1. /\ router' = [router EXCEPT !.block = 0, !.wrote = FALSE,
                      !.todo = IF @ = "tool" THEN "idle" ELSE @,
                      !.sent = IF router.todo = "tool" THEN @ ELSE @ + 1]
      /\ router.block # 0 /\ router.wrote
      /\ Stopped(router.block, BlockKind) /\ Routing
  BY DEF CloseBlock
<1>2. Placed /\ Wired /\ Alone
  BY DEF Sound
<1>3. /\ PassesOK' /\ acc' = acc /\ at' = at
      /\ phase = "open" /\ router \in Routers
      /\ blocks \in Seq([kind : Protocol!Kinds, open : BOOLEAN])
      /\ router.sent <= Len(acc.calls) /\ OpenBlocks \subseteq 0..Len(blocks)
  BY <1>1, <1>2, RouteFacts DEF Alone
<1>4. router.block \in 1..Len(blocks)
  BY <1>1, <1>3 DEF OpenBlocks
<1>5. /\ blocks' \in Seq([kind : Protocol!Kinds, open : BOOLEAN])
      /\ Len(blocks') = Len(blocks)
      /\ \A j \in 1..Len(blocks) : blocks'[j].kind = blocks[j].kind
      /\ \A j \in 1..Len(blocks) : blocks'[j].open <=> (blocks[j].open /\ j # router.block)
      /\ last' = Protocol!StopOf(router.block, BlockKind) /\ phase' = phase
  BY <1>1, <1>4, StoppedFacts
<1>6. router' \in Routers
  <2>1. router.sent + 1 \in Nat
    BY <1>3 DEF Routers
  <2> QED BY <2>1, <1>1, <1>3 DEF Routers, Todos
<1>7. /\ router'.todo = (IF router.todo = "tool" THEN "idle" ELSE router.todo)
      /\ router'.thinking = router.thinking
      /\ router'.text = router.text
      /\ router'.next = router.next
      /\ router'.block = 0
      /\ router'.wrote = FALSE
      /\ router'.sent = (IF router.todo = "tool" THEN router.sent ELSE router.sent + 1)
  BY <1>1, <1>3 DEF Routers
<1>8. /\ router.thinking \in 0..Len(blocks) /\ router.text \in 0..Len(blocks)
      /\ router.block \in 0..Len(blocks) /\ Len(blocks) \in Nat
      /\ router.thinking = 0 /\ router.text = 0 /\ router.todo \in {"tool", "closing"}
  BY <1>1, <1>2, <1>3 DEF OpenBlocks, Alone, Wired
<1>9. RouterOK'
  BY <1>1, <1>2, <1>3, <1>5, <1>6, <1>7, <1>8 DEF RouterOK, Alone, Routers
<1>10. Placed'
  BY <1>1, <1>2, <1>3, <1>5, <1>7 DEF Placed, InTail
<1>11. Wired'
  <2>1. ASSUME NEW j \in 1..Len(blocks') PROVE blocks'[j].open <=> j \in OpenBlocks'
    BY <2>1, <1>2, <1>5, <1>7, <1>8 DEF Wired, OpenBlocks
  <2> QED BY <2>1, <1>1, <1>2, <1>5, <1>7, <1>8 DEF Wired, BlockKind
<1>12. Alone'
  <2>1. (\E j \in 1..Len(blocks') : blocks'[j].kind = "tool_use") =>
          (\E j \in 1..Len(blocks) : blocks[j].kind = "tool_use")
    BY <1>5, <1>8
  <2> QED BY <2>1, <1>1, <1>2, <1>3, <1>7, <1>8 DEF Alone, Routers
<1>13. blocks[router.block].open /\ blocks[router.block].kind = BlockKind
  BY <1>1, <1>2, <1>4 DEF Wired, OpenBlocks
<1>14. Protocol!Stop(router.block)
  BY <1>13, <1>1, <1>3, <1>5 DEF Protocol!Stop, Stopped
<1> QED BY <1>3, <1>4, <1>9, <1>10, <1>11, <1>12, <1>14 DEF Sound, TypeOK

(* The end of the message.                                                   *)
LEMMA BeginTailKeeps == ASSUME Sound, BeginTail PROVE Sound' /\ UNCHANGED client
<1>1. /\ router.todo = "idle" /\ at = "tail" /\ phase = "open"
      /\ UNCHANGED <<at, run, acc, client, history>>
      /\ router' = [router EXCEPT !.todo = router'.todo]
      /\ router'.todo \in {"fallback", "closing"}
  BY DEF BeginTail, Sound, TypeOK, RouterOK, Routers
<1>2. PassesOK /\ RouterOK /\ Placed /\ Wired /\ Alone /\ router \in Routers
  BY DEF Sound, TypeOK, RouterOK
<1>3. /\ router' \in Routers
      /\ router'.thinking = router.thinking /\ router'.text = router.text
      /\ router'.next = router.next /\ router'.block = router.block
      /\ router'.wrote = router.wrote /\ router'.sent = router.sent
  BY <1>1, <1>2 DEF Routers, Todos
<1>4. router.block = 0 /\ ~router.wrote
  BY <1>1, <1>2 DEF Alone
<1>5. PassesOK' /\ RouterOK'
  BY <1>1, <1>2, <1>3 DEF PassesOK, RouterOK, client, history
<1>6. Placed'
  BY <1>1, <1>2 DEF Placed, InTail, Checks, client
<1>7. Wired' /\ Alone'
  BY <1>1, <1>2, <1>3, <1>4 DEF Wired, OpenBlocks, Alone, client
<1> QED BY <1>1, <1>5, <1>6, <1>7 DEF Sound, TypeOK

LEMMA SendEndKeeps ==
  ASSUME Sound, SendEnd
  PROVE  Sound' /\ Protocol!End /\ last' = Protocol!EndFor(StopReason)
<1>1. /\ router.todo = "closing" /\ router.sent = Len(acc.calls)
      /\ router.thinking = 0 /\ router.text = 0 /\ router.block = 0
      /\ last' = Protocol!EndFor(StopReason) /\ phase' = "ended" /\ blocks' = blocks
      /\ router' = [router EXCEPT !.todo = "over"] /\ Routing
  BY DEF SendEnd, Send, AllClosed
<1>2. RouterOK /\ Placed /\ Wired /\ Alone /\ router \in Routers
  BY DEF Sound, TypeOK, RouterOK
<1>3. PassesOK' /\ acc' = acc /\ at' = at /\ phase = "open"
  BY <1>1, RouteFacts
<1>4. /\ router' \in Routers /\ router'.todo = "over"
      /\ router'.thinking = 0 /\ router'.text = 0 /\ router'.block = 0
      /\ router'.next = router.next
      /\ router'.wrote = router.wrote /\ router'.sent = router.sent
  BY <1>1, <1>2 DEF Routers, Todos
<1>5. RouterOK'
  BY <1>1, <1>2, <1>3, <1>4 DEF RouterOK
<1>6. Placed'
  BY <1>1, <1>2, <1>3, <1>4 DEF Placed, InTail, Checks
<1>7. Wired' /\ Alone'
  BY <1>1, <1>2, <1>3, <1>4 DEF Wired, OpenBlocks, Alone
<1>8. \A i \in 1..Len(blocks) : ~blocks[i].open
  BY <1>1, <1>2 DEF Wired, OpenBlocks
<1>9. StopReason \in {"end_turn", "tool_use", "max_tokens", "incomplete_turn"}
  BY DEF StopReason
<1>10. Protocol!End
  BY <1>1, <1>3, <1>8, <1>9 DEF Protocol!End
<1> QED BY <1>1, <1>3, <1>5, <1>6, <1>7, <1>10 DEF Sound, TypeOK

LEMMA SendOverKeeps == ASSUME Sound, SendOver PROVE Sound' /\ Protocol!Finish
<1>1. /\ router.todo = "over" /\ phase \in {"open", "ended"}
      /\ last' = Protocol!Over /\ phase' = "over" /\ blocks' = blocks
      /\ router' = [router EXCEPT !.todo = "done"] /\ Routing
  BY DEF SendOver, Send, Routing
<1>2. RouterOK /\ Placed /\ Wired /\ Alone /\ router \in Routers
  BY DEF Sound, TypeOK, RouterOK
<1>3. PassesOK' /\ acc' = acc /\ at' = at /\ phase = "ended"
  BY <1>1, <1>2, RouteFacts DEF Placed
<1>4. /\ router' \in Routers /\ router'.todo = "done"
      /\ router'.thinking = router.thinking /\ router'.text = router.text
      /\ router'.block = router.block /\ router'.next = router.next
      /\ router'.wrote = router.wrote /\ router'.sent = router.sent
  BY <1>1, <1>2 DEF Routers, Todos
<1>5. RouterOK'
  BY <1>1, <1>2, <1>3, <1>4 DEF RouterOK
<1>6. Placed'
  BY <1>1, <1>2, <1>3, <1>4 DEF Placed, InTail, Checks
<1>7. Wired' /\ Alone'
  BY <1>1, <1>2, <1>3, <1>4 DEF Wired, OpenBlocks, Alone
<1>8. Protocol!Finish
  BY <1>1, <1>3 DEF Protocol!Finish
<1> QED BY <1>3, <1>5, <1>6, <1>7, <1>8 DEF Sound, TypeOK

-----------------------------------------------------------------------------
(* Every step keeps the invariant and is one of the protocol or none.         *)

LEMMA QuietMaps == ASSUME Sound, Quiet PROVE Protocol!Cut \/ UNCHANGED client
<1>1. blocks' = blocks /\ last' = last /\ (phase' = phase \/ phase' = "cut")
  BY QuietRouter
<1>2. CASE Leave
  BY <1>1, <1>2 DEF Leave, Protocol!Cut
<1>3. CASE Running \/ at \in Checks
  BY <1>1, <1>3, RunningAlone, CheckingAlone DEF Protocol!Cut, client
<1>4. Leave \/ Running \/ at \in Checks
  BY CheckTyped
     DEF Quiet, Producing, Think, Say, ServerTool, Done, Stale, Overflow, Unbuilt, Cancel, Checks
<1> QED BY <1>2, <1>3, <1>4

LEMMA NextKeeps ==
  ASSUME Sound, [Next]_vars
  PROVE  Sound' /\ [Protocol!Next]_(Protocol!vars)
<1>1. CASE Quiet
  BY <1>1, QuietKeeps, QuietMaps DEF Protocol!Next, Protocol!vars, client
<1>2. CASE OpenThinking \/ OpenText
  BY <1>2, OpenThinkingKeeps, OpenTextKeeps DEF Protocol!Next, Protocol!Kinds
<1>3. CASE OpenBlock
  BY <1>3, OpenBlockKeeps DEF Protocol!Next, Protocol!Kinds, BlockKind
<1>4. CASE WriteThinking \/ WriteText \/ WriteBlock
  BY <1>4, WriteThinkingKeeps, WriteTextKeeps, WriteBlockKeeps DEF Protocol!Next
<1>5. CASE CloseThinking \/ CloseText \/ CloseBlock
  BY <1>5, CloseThinkingKeeps, CloseTextKeeps, CloseBlockKeeps DEF Protocol!Next
<1>6. CASE BeginTail
  BY <1>6, BeginTailKeeps DEF Protocol!vars, client
<1>7. CASE SendEnd \/ SendOver
  BY <1>7, SendEndKeeps, SendOverKeeps DEF Protocol!Next
<1>8. CASE UNCHANGED vars
  <2>1. /\ UNCHANGED <<at, run, acc, router, blocks, phase, last, events, passes, cancelled>>
    BY <1>8 DEF vars, client, history
  <2>2. TypeOK' /\ Placed' /\ Wired' /\ Alone'
    BY <2>1 DEF Sound, TypeOK, PassesOK, RouterOK, Placed, InTail, Wired, OpenBlocks,
       BlockKind, Alone
  <2> QED BY <2>1, <2>2 DEF Sound, Protocol!vars
<1> QED BY <1>1, <1>2, <1>3, <1>4, <1>5, <1>6, <1>7, <1>8
        DEF Next, Advance, Route, Rest, Quiet, Producing

LEMMA SoundAlways == Spec => []Sound
<1>1. Sound /\ [Next]_vars => Sound'
  BY NextKeeps
<1> QED BY <1>1, InitSound, PTL DEF Spec

(* The records keep their fields, and the router counts no call and knows no    *)
(* block that is not there.                                                  *)
THEOREM Typed == Spec => []TypeOK
<1>1. Sound => TypeOK
  BY DEF Sound
<1> QED BY <1>1, SoundAlways, PTL

(* The client is kept to the protocol of content blocks: AnswerStream           *)
(* implements BlockProtocol.                                                 *)
THEOREM KeepsPromise == Spec => Promise
<1>1. Init => Protocol!Init
  BY DEF Init
<1>2. Sound /\ [Next]_vars => [Protocol!Next]_(Protocol!vars)
  BY NextKeeps
<1> QED BY <1>1, <1>2, SoundAlways, PTL DEF Spec, Promise, Protocol!Spec

-----------------------------------------------------------------------------
(* No answer ends in silence.                                                *)

(* A block that was started stays, whatever becomes of it.                    *)
LEMMA RenderedStays ==
  ASSUME Sound, [Protocol!Next]_(Protocol!vars), Rendered
  PROVE  Rendered'
<1>1. blocks \in Seq([kind : Protocol!Kinds, open : BOOLEAN])
  BY DEF Sound, TypeOK, RouterOK
<1>2. PICK i \in 1..Len(blocks) : blocks[i].kind # "thinking"
  BY DEF Rendered
<1>3. ASSUME NEW k, Protocol!Start(k)
      PROVE  Rendered'
  <2>1. i \in 1..Len(blocks') /\ blocks'[i] = blocks[i]
    BY <1>1, <1>3 DEF Protocol!Start
  <2> QED BY <2>1, <1>2 DEF Rendered
<1>4. ASSUME NEW j \in 1..Len(blocks), Protocol!Stop(j)
      PROVE  Rendered'
  <2>1. blocks[i] \in [kind : Protocol!Kinds, open : BOOLEAN]
    BY <1>1, Element
  <2>2. i \in 1..Len(blocks') /\ blocks'[i].kind = blocks[i].kind
    BY <1>1, <1>4, <2>1 DEF Protocol!Stop
  <2> QED BY <2>2, <1>2 DEF Rendered
<1>5. CASE blocks' = blocks
  BY <1>5 DEF Rendered
<1> QED BY <1>3, <1>4, <1>5
        DEF Protocol!Next, Protocol!vars, Protocol!Delta, Protocol!End, Protocol!Finish, Protocol!Cut

LEMMA ProducingSpoken == ASSUME Sound, Spoken, Producing PROVE Spoken'
<1>1. Running /\ acc \in Accumulators /\ run \in Runs
  BY DEF Producing, Think, Say, ServerTool, Done, Stale, Overflow, Unbuilt, Sound, TypeOK, PassesOK
<1>2. router.todo = "idle" /\ at \in Passes /\ router.sent = 0
  BY <1>1, RunningAlone
<1>3. /\ blocks' = blocks /\ last' = last /\ (Rendered <=> Rendered')
      /\ router'.sent = 0 /\ router'.todo \in {"idle", "thinking", "text", "tool"}
  BY <1>2, QuietRouter DEF Quiet, Rendered, Handed, Sound, TypeOK, RouterOK, Routers
<1>4. at' # "tail"
  <2>1. CASE Done
    BY <2>1, <1>2 DEF Done, Passes, After
  <2>2. CASE ~Done
    <3>1. at' \in {at, "broken"}
      BY <2>2 DEF Producing, Think, Say, ServerTool, Stale, Overflow, Unbuilt, Yield, Broken
    <3> QED BY <3>1, <1>2 DEF Passes
  <2> QED BY <2>1, <2>2
<1>5. acc'.content => Rendered \/ router'.todo = "text"
  <2>1. CASE Say
    BY <2>1, <1>1, <1>2 DEF Say, Yield, Sound, TypeOK, RouterOK, Routers
  <2>2. CASE ~Say
    <3>1. acc'.content = acc.content
      BY <2>2, <1>1 DEF Producing, Think, ServerTool, Done, Stale, Overflow, Unbuilt, Broken,
         Accumulators
    <3> QED BY <3>1, <1>2 DEF Spoken
  <2> QED BY <2>1, <2>2
<1>6. acc'.error => acc'.final
  BY <1>1 DEF Producing, Think, Say, ServerTool, Done, Stale, Overflow, Unbuilt, Broken,
     Accumulators, Spoken
<1> QED BY <1>2, <1>3, <1>4, <1>5, <1>6 DEF Spoken, InTail

LEMMA CheckSpoken == ASSUME Sound, Spoken, Check PROVE Spoken'
<1>1. at \in Checks /\ acc \in Accumulators /\ router.todo = "idle" /\ router.sent = 0
  BY CheckTyped, CheckingAlone DEF Sound, TypeOK, PassesOK
<1>2. /\ last' = last /\ (Rendered <=> Rendered') /\ router' = router
  BY DEF Check, CheckTruncated, CheckInvented, CheckUnfinished, CheckUnsummed, CheckEmpty,
     CheckStillEmpty, CheckExhausted, Checking, Broken, client, Rendered, history
<1>3. acc'.content = acc.content /\ acc'.error = acc.error /\ acc'.final = acc.final
  BY <1>1 DEF Check, CheckTruncated, CheckInvented, CheckUnfinished, CheckUnsummed, CheckEmpty,
     CheckStillEmpty, CheckExhausted, Checking, Broken, client, Rendered, history, Accumulators
<1>4. at' = "tail" => (Nothing' => acc'.overflow \/ acc'.incomplete)
  <2>1. CASE CheckEmpty
    BY <2>1, <1>1 DEF CheckEmpty, Checking, Skip, Pass, Broken, Empty, Nothing, Accumulators, Spoken
  <2>2. CASE CheckExhausted
    BY <2>2, <1>1 DEF CheckExhausted, Nothing, Accumulators
  <2>3. CASE ~CheckEmpty /\ ~CheckExhausted
    BY <2>3 DEF Check, CheckTruncated, CheckInvented, CheckUnfinished, CheckUnsummed,
       CheckStillEmpty, Skip, Pass
  <2> QED BY <2>1, <2>2, <2>3
<1> QED BY <1>1, <1>2, <1>3, <1>4 DEF Spoken, InTail

LEMMA OtherSpoken == ASSUME Sound, Spoken, Cancel \/ Leave PROVE Spoken'
<1>1. acc' = acc /\ router' = router /\ last' = last /\ (Rendered <=> Rendered')
  BY DEF Cancel, Leave, client, Rendered
<1>2. Cancel => cancelled'
  BY DEF Cancel
<1>3. Leave => cancelled' = cancelled /\ at' = "left"
  BY DEF Leave, history
<1>4. (Nothing <=> Nothing') /\ (InTail <=> InTail') /\ StopReason' = StopReason
  BY <1>1 DEF Nothing, InTail, StopReason
<1> QED BY <1>1, <1>2, <1>3, <1>4 DEF Spoken

(* What the router does about the rest of Spoken.                             *)
LEMMA RouteSpoken == ASSUME Sound, Spoken, Route PROVE Spoken'
<1>1. /\ acc' = acc /\ at' = at /\ cancelled' = cancelled /\ router \in Routers
      /\ (Nothing <=> Nothing') /\ StopReason' = StopReason
  BY DEF Route, OpenThinking, WriteThinking, CloseThinking, OpenText, WriteText, CloseText,
     OpenBlock, WriteBlock, CloseBlock, BeginTail, SendEnd, SendOver, Routing, history, Nothing,
     StopReason, Sound, TypeOK, RouterOK
<1>2. Rendered => Rendered'
  BY NextKeeps, RenderedStays DEF Next, Advance
<1>3. last.type = "end" => router.todo \in {"over", "done"}
  BY DEF Spoken
<1>4. CASE OpenThinking \/ CloseThinking \/ OpenText \/ CloseText \/ OpenBlock \/ WriteBlock
  <2>1. router'.todo = router.todo /\ router'.sent = router.sent
    BY <1>4, <1>1 DEF OpenThinking, CloseThinking, OpenText, CloseText, OpenBlock, WriteBlock, Routers
  <2>2. last'.type # "end"
    BY <1>4 DEF OpenThinking, CloseThinking, OpenText, CloseText, OpenBlock, WriteBlock,
       Started, Stopped, Wrote, Send, Protocol!StartOf, Protocol!StopOf, Protocol!DeltaTo
  <2> QED BY <2>1, <2>2, <1>1, <1>2 DEF Spoken, InTail
<1>5. CASE WriteThinking
  <2>1. router'.todo = "idle" /\ router'.sent = router.sent /\ router.todo = "thinking"
    BY <1>5, <1>1 DEF WriteThinking, Routers
  <2>2. last'.type # "end"
    BY <1>5 DEF WriteThinking, Wrote, Send, Protocol!DeltaTo
  <2> QED BY <2>1, <2>2, <1>1, <1>2 DEF Spoken, InTail
<1>6. CASE WriteText
  <2>1. router'.sent = router.sent
        /\ \/ router.todo = "text" /\ router'.todo = "idle"
           \/ router.todo = "fallback" /\ router'.todo = "closing"
    <3>1. router.todo = "text" \/ router.todo = "fallback"
      BY <1>6 DEF WriteText, WritesText
    <3>2. /\ router'.todo = (IF router.todo = "text" THEN "idle" ELSE "closing")
          /\ router'.sent = router.sent
      BY <1>6, <1>1 DEF WriteText, Routers
    <3> QED BY <3>1, <3>2
  <2>2. last'.type # "end"
    BY <1>6 DEF WriteText, Wrote, Send, Protocol!DeltaTo
  <2>3. Rendered
    BY <1>6, RouteFacts DEF WriteText, Sound, Wired, Rendered, OpenBlocks
  <2> QED BY <2>1, <2>2, <2>3, <1>1, <1>2 DEF Spoken, InTail
<1>7. CASE CloseBlock
  <2>1. /\ router'.todo = (IF router.todo = "tool" THEN "idle" ELSE router.todo)
        /\ router.block # 0
    BY <1>7, <1>1 DEF CloseBlock, Routers
  <2>2. last'.type # "end"
    BY <1>7 DEF CloseBlock, Stopped, Send, Protocol!StopOf
  <2>3. Rendered /\ router.todo \in {"tool", "closing"}
    BY <1>7, <2>1, RouteFacts
       DEF CloseBlock, Sound, Wired, Alone, Rendered, OpenBlocks, BlockKind
  <2> QED BY <2>1, <2>2, <2>3, <1>1, <1>2 DEF Spoken, InTail
<1>8. CASE BeginTail
  <2>1. /\ router.todo = "idle" /\ at = "tail" /\ router'.sent = router.sent /\ last' = last
        /\ router'.todo = (IF ~acc.content /\ acc.calls = << >> /\ acc.final
                           THEN "fallback" ELSE "closing")
    BY <1>8, <1>1 DEF BeginTail, Routers, client
  <2> QED BY <2>1, <1>1, <1>2 DEF Spoken, InTail
<1>9. CASE SendEnd
  <2>1. /\ router.todo = "closing" /\ router.sent = Len(acc.calls)
        /\ router'.todo = "over" /\ router'.sent = router.sent
    BY <1>9, <1>1 DEF SendEnd, Routers
  <2>2. last' = Protocol!EndFor(StopReason)
    BY <1>9 DEF SendEnd, Send
  <2> QED BY <2>1, <2>2, <1>1, <1>2 DEF Spoken, InTail, Protocol!EndFor
<1>10. CASE SendOver
  <2>1. router.todo = "over" /\ router'.todo = "done" /\ router'.sent = router.sent
    BY <1>10, <1>1 DEF SendOver, Routers
  <2>2. last'.type # "end"
    BY <1>10 DEF SendOver, Send, Protocol!Over
  <2> QED BY <2>1, <2>2, <1>1, <1>2 DEF Spoken, InTail
<1> QED BY <1>4, <1>5, <1>6, <1>7, <1>8, <1>9, <1>10 DEF Route

LEMMA SpokenAlways == Spec => []Spoken
<1>1. Sound /\ Spoken /\ [Next]_vars => Spoken'
  <2> SUFFICES ASSUME Sound, Spoken, [Next]_vars PROVE Spoken'
    OBVIOUS
  <2>1. CASE UNCHANGED vars
    BY <2>1 DEF vars, client, history, Spoken, Rendered, Nothing, InTail, StopReason
  <2> QED BY <2>1, ProducingSpoken, CheckSpoken, OtherSpoken, RouteSpoken
          DEF Next, Advance, Rest, Producing
<1> QED BY <1>1, InitSpoken, SoundAlways, PTL DEF Spec

(* An answer that ends as if the model were done has text or a call to render,  *)
(* unless the context is full or the task was cancelled.                      *)
THEOREM NeverSilent == Spec => []NoSilentEnd
<1>1. Sound /\ Spoken => NoSilentEnd
  <2> SUFFICES ASSUME Sound, Spoken, last = Protocol!EndFor("end_turn"),
                      ~acc.overflow, ~cancelled
               PROVE  Rendered
    BY DEF NoSilentEnd, Rendered
  <2>1. router.todo \in {"over", "done"} /\ StopReason = "end_turn"
    BY DEF Spoken, Protocol!EndFor
  <2>2. acc.calls = << >> /\ ~acc.incomplete
    BY <2>1 DEF StopReason
  <2>3. ~Nothing
    BY <2>1, <2>2 DEF Spoken, InTail
  <2>4. acc.content \/ acc.final
    BY <2>2, <2>3 DEF Nothing
  <2> QED BY <2>1, <2>2, <2>4 DEF Spoken
<1> QED BY <1>1, SoundAlways, SpokenAlways, PTL

-----------------------------------------------------------------------------
(* The passes of an answer.                                                  *)

LEMMA CheckChained == ASSUME Sound, Spoken, Chained, Check PROVE Chained'
<1>1. acc \in Accumulators /\ passes \subseteq Passes
  BY DEF Sound, TypeOK, PassesOK
<1>2. acc'.final = acc.final
  BY <1>1 DEF Check, CheckTruncated, CheckInvented, CheckUnfinished, CheckUnsummed, CheckEmpty,
     CheckStillEmpty, CheckExhausted, Checking, Broken, Accumulators
<1>3. at \in {"stillempty", "exhausted"} \/ passes \cap OfEmpty = {}
  BY CheckTyped DEF Chained, Checks
<1>4. CASE CheckTruncated \/ CheckUnfinished \/ CheckUnsummed
  <2>1. at \in {"truncated", "unfinished", "unsummed"}
    BY <1>4 DEF CheckTruncated, CheckUnfinished, CheckUnsummed, Checking
  <2>2. PICK made \in SUBSET OfText : passes' = passes \cup made /\ (made # {} => acc.final)
    <3>1. CASE passes' = passes
      <4>1. passes' = passes \cup {} /\ {} \in SUBSET OfText
        BY <3>1
      <4> QED BY <4>1
    <3>2. CASE passes' # passes
      <4>1. acc.final /\ \E name \in OfText : passes' = passes \cup {name}
        <5>1. CASE CheckTruncated
          BY <5>1, <3>2 DEF CheckTruncated, Pass, Skip, OfText
        <5>2. CASE CheckUnfinished
          BY <5>2, <3>2 DEF CheckUnfinished, Pass, Skip, OfText
        <5>3. CASE CheckUnsummed
          BY <5>3, <3>2 DEF CheckUnsummed, Pass, Skip, OfText
        <5> QED BY <1>4, <5>1, <5>2, <5>3
      <4>2. PICK name \in OfText : passes' = passes \cup {name}
        BY <4>1
      <4>3. {name} \in SUBSET OfText
        OBVIOUS
      <4> QED BY <4>1, <4>2, <4>3
    <3> QED BY <3>1, <3>2
  <2>3. passes' \cap OfEmpty = {} /\ passes' \subseteq Passes \ {"primary"}
    BY <1>3, <2>1, <2>2 DEF Chained, OfText, OfEmpty, Passes
  <2>4. passes' \cap OfText # {} => acc.final
    BY <2>2 DEF Chained
  <2> QED BY <1>2, <2>3, <2>4 DEF Chained
<1>5. CASE CheckInvented
  <2>1. at = "invented" /\ (passes' = passes \/ passes' = passes \cup {"correction"})
    BY <1>5 DEF CheckInvented, Checking, Pass, Skip
  <2> QED BY <1>2, <1>3, <2>1 DEF Chained, OfText, OfEmpty, Passes
<1>6. CASE CheckEmpty
  <2>1. at = "empty" /\ (passes' = passes
          \/ (~acc.final /\ passes' = passes \cup {"retry"} /\ at' = "retry"))
    BY <1>6 DEF CheckEmpty, Checking, Pass, Skip, Broken, Empty, history
  <2> QED BY <1>2, <1>3, <2>1 DEF Chained, OfText, OfEmpty, Passes
<1>7. CASE CheckStillEmpty
  <2>1. at = "stillempty" /\ ((passes' = passes /\ at' = "exhausted")
          \/ (~acc.final /\ passes' = passes \cup {"second"} /\ at' = "second"))
    BY <1>7 DEF CheckStillEmpty, Checking, Pass, Skip, Nothing
  <2> QED BY <1>2, <1>3, <2>1 DEF Chained, OfText, OfEmpty, Passes
<1>8. CASE CheckExhausted
  BY <1>8, <1>2 DEF CheckExhausted, Skip, Chained
<1> QED BY <1>4, <1>5, <1>6, <1>7, <1>8 DEF Check

LEMMA OtherChained ==
  ASSUME Sound, Chained, Producing \/ Cancel \/ Leave \/ Route
  PROVE  Chained'
<1>1. acc \in Accumulators /\ run \in Runs
  BY DEF Sound, TypeOK, PassesOK
<1>2. passes' = passes
  BY DEF Producing, Think, Say, ServerTool, Done, Stale, Overflow, Unbuilt, Yield, Broken,
     Cancel, Leave, Route, OpenThinking, WriteThinking, CloseThinking, OpenText, WriteText,
     CloseText, OpenBlock, WriteBlock, CloseBlock, BeginTail, SendEnd, SendOver, Routing, history
<1>3. acc.final => acc'.final
  BY <1>1 DEF Producing, Think, Say, ServerTool, Done, Stale, Overflow, Unbuilt, Broken,
     Cancel, Leave, Route, OpenThinking, WriteThinking, CloseThinking, OpenText, WriteText,
     CloseText, OpenBlock, WriteBlock, CloseBlock, BeginTail, SendEnd, SendOver, Routing,
     Accumulators
<1>4. CASE Done
  <2>1. at \in Passes /\ at' = After[at]
    BY <1>4 DEF Done, Running
  <2> QED BY <1>2, <1>3, <2>1 DEF Chained, Passes, After
<1>5. CASE ~Done
  <2>1. at' \in {at, "broken", "tail", "left"}
    BY <1>5 DEF Producing, Think, Say, ServerTool, Stale, Overflow, Unbuilt, Yield, Broken,
       Cancel, Leave, Route, OpenThinking, WriteThinking, CloseThinking, OpenText, WriteText,
       CloseText, OpenBlock, WriteBlock, CloseBlock, BeginTail, SendEnd, SendOver, Routing
  <2> QED BY <1>2, <1>3, <2>1 DEF Chained
<1> QED BY <1>4, <1>5

(* An answer makes four secondary passes at most.                             *)
THEOREM FewPasses == Spec => []PassesBounded
<1>1. Sound /\ Spoken /\ Chained /\ [Next]_vars => Chained'
  <2> SUFFICES ASSUME Sound, Spoken, Chained, [Next]_vars PROVE Chained'
    OBVIOUS
  <2>1. CASE UNCHANGED vars
    BY <2>1 DEF vars, history, Chained
  <2> QED BY <2>1, CheckChained, OtherChained DEF Next, Advance, Rest, Producing
<1>2. Chained => PassesBounded
  <2> SUFFICES ASSUME Chained PROVE Cardinality(passes) <= 4
    BY DEF PassesBounded
  <2>1. PICK a, b, c, d : passes \subseteq {a, b, c, d}
    <3>1. CASE passes \cap OfText # {}
      <4>1. passes \subseteq {"truncation", "correction", "nudge", "summary"}
        BY <3>1 DEF Chained, OfText, OfEmpty, Passes
      <4> QED BY <4>1
    <3>2. CASE passes \cap OfText = {}
      <4>1. passes \subseteq {"correction", "retry", "second", "second"}
        BY <3>2 DEF Chained, OfText, Passes
      <4> QED BY <4>1
    <3> QED BY <3>1, <3>2
  <2>3. IsFiniteSet({d}) /\ Cardinality({d}) = 1
    BY FS_Singleton
  <2>4. IsFiniteSet({d} \cup {c}) /\ Cardinality({d} \cup {c}) \in 0..2
    BY <2>3, FS_AddElement
  <2>5. IsFiniteSet({d} \cup {c} \cup {b}) /\ Cardinality({d} \cup {c} \cup {b}) \in 0..3
    BY <2>4, FS_AddElement
  <2>6. IsFiniteSet({d} \cup {c} \cup {b} \cup {a})
        /\ Cardinality({d} \cup {c} \cup {b} \cup {a}) \in 0..4
    BY <2>5, FS_AddElement
  <2>7. passes \subseteq {d} \cup {c} \cup {b} \cup {a}
    BY <2>1
  <2>8. /\ Cardinality(passes) \in Nat
        /\ Cardinality(passes) <= Cardinality({d} \cup {c} \cup {b} \cup {a})
    BY <2>6, <2>7, FS_Subset, FS_CardinalityType
  <2> QED BY <2>6, <2>8
<1> QED BY <1>1, <1>2, InitSpoken, SoundAlways, SpokenAlways, PTL DEF Spec
=============================================================================
