---------------------------- MODULE AnswerStream ----------------------------
(***************************************************************************)
(* One streamed answer of the Anthropic API: the passes that               *)
(* CompletionService.stream_completion makes (the primary one and those    *)
(* that continue, correct or retry it), the StreamAccumulator they share,  *)
(* and the content blocks that stream_message makes of their events.       *)
(*                                                                         *)
(* The generators run one at a time: while the router sends, the passes    *)
(* wait.  What the heuristics read in a text is a choice.  Indices are     *)
(* counted from 1 and 0 is no block.                                       *)
(***************************************************************************)
EXTENDS Integers, Sequences, FiniteSets

CONSTANTS
  Names,           \* names of tools a model may call
  Bound,           \* names of the tools the client has bound
  CallLists,       \* the tool calls a run may end with
  Continues,       \* ENABLE_TOOL_CONTINUATION
  Sums,            \* ENABLE_SUMMARY_NUDGE
  StaleRetries,    \* STALE_SERVER_RETRIES
  OverflowRetries, \* OVERFLOW_SUMMARY_RETRIES
  BuildRetries,    \* RUNNER_RETRIES and COLD_START_RETRIES together
  MaxEvents        \* bound on the events of an answer

(* is_valid_tool_name, as far as the passes use it.                           *)
Known(c) == Bound = {} \/ c \in Bound

(* A list of calls is one without its unknown calls, too.                     *)
ASSUME StreamAssumption ==
  /\ Bound \subseteq Names /\ CallLists \subseteq Seq(Names) /\ << >> \in CallLists
  /\ \A calls \in CallLists : SelectSeq(calls, Known) \in CallLists
  /\ Continues \in BOOLEAN /\ Sums \in BOOLEAN
  /\ StaleRetries \in Nat /\ OverflowRetries \in Nat /\ BuildRetries \in Nat
  /\ MaxEvents \in Nat

VARIABLES
  at,      \* the pass that runs, the check that comes next, or the end
  run,     \* the run of the workflow: retries so far, and what it has yielded
  acc,     \* the StreamAccumulator
  router,  \* the locals of stream_message
  blocks, phase, last,  \* the client: see BlockProtocol
  events,  \* the events so far
  passes,  \* history: which secondary passes were made
  cancelled \* history: the task was cancelled while a pass ran

client == <<blocks, phase, last>>
history == <<events, passes, cancelled>>
vars == <<at, run, acc, router, client, history>>

Protocol == INSTANCE BlockProtocol

Passes == {"primary", "truncation", "correction", "nudge", "summary", "retry", "second"}
Checks == {"truncated", "invented", "unfinished", "unsummed", "empty", "stillempty", "exhausted"}
Todos == {"idle", "thinking", "text", "tool", "fallback", "closing", "over", "done"}
Finishes == {"stop", "length", "other", "error"}

(* Mutant: the second retry is repeated while the answer is empty.            *)
AfterAgain ==
  [primary |-> "truncated", truncation |-> "invented", correction |-> "unfinished",
   nudge |-> "unsummed", summary |-> "empty", retry |-> "stillempty",
   second |-> "stillempty"]

(* What is checked when a pass is over.                                       *)
After == [primary |-> "truncated", truncation |-> "invented", correction |-> "unfinished",
          nudge |-> "unsummed", summary |-> "empty", retry |-> "stillempty",
          second |-> "exhausted"]

(* _retry_count, _overflow_retry and the attempts of the connection retry;     *)
(* yielded_any, and whether text was among it.                                *)
NewRun == [stale |-> 0, summed |-> 0, built |-> 0, yielded |-> FALSE, said |-> FALSE]

NewAccumulator ==
  [content |-> FALSE, final |-> FALSE, calls |-> << >>, finish |-> "none",
   error |-> FALSE, overflow |-> FALSE, incomplete |-> FALSE]

(* todo is what the router is about to send; thinking and text are its open     *)
(* blocks, next is next_block_index; block is the one of a tool's result or of  *)
(* a call, wrote that it has its delta, and sent counts the calls.             *)
NewRouter ==
  [todo |-> "idle", thinking |-> 0, text |-> 0, next |-> 1,
   block |-> 0, wrote |-> FALSE, sent |-> 0]

Init ==
  /\ at = "primary" /\ run = NewRun
  /\ acc = NewAccumulator /\ router = NewRouter
  /\ Protocol!Init
  /\ events = 0 /\ passes = {} /\ cancelled = FALSE

-----------------------------------------------------------------------------
(* The events of a pass: update_stream_delta and update_stream_final.         *)

Running == at \in Passes /\ router.todo = "idle"

(* An event is yielded; what the router does of it comes first.                *)
Yield(todo, said) ==
  /\ events < MaxEvents /\ events' = events + 1
  /\ run' = [run EXCEPT !.yielded = TRUE, !.said = @ \/ said]
  /\ router' = [router EXCEPT !.todo = todo]
  /\ UNCHANGED <<at, client, passes, cancelled>>

Think == Running /\ Yield("thinking", FALSE) /\ UNCHANGED acc

Say ==
  /\ Running /\ Yield("text", TRUE)
  /\ acc' = [acc EXCEPT !.content = TRUE]

(* A secondary pass keeps its server tool events to itself.                   *)
ServerTool ==
  /\ Running /\ Yield(IF at = "primary" THEN "tool" ELSE "idle", FALSE)
  /\ UNCHANGED acc

(* A run ends with its text, if it said any, its calls and a reason, or with    *)
(* an apology.                                                               *)
Done ==
  /\ Running
  /\ \E finish \in Finishes, calls \in CallLists :
       /\ finish = "error" => calls = << >>
       /\ acc' = [acc EXCEPT !.finish = finish, !.calls = calls,
                             !.error = @ \/ finish = "error",
                             !.final = @ \/ run.said \/ finish = "error"]
  /\ at' = After[at] /\ run' = NewRun
  /\ UNCHANGED <<router, client, history>>

Broken ==
  /\ at' = "broken" /\ phase' = "cut"
  /\ UNCHANGED <<acc, router, blocks, last, history>>

(* The server is gone: another run, whatever this one has yielded.            *)
Stale ==
  /\ Running
  /\ \/ /\ run.stale < StaleRetries
        /\ run' = [run EXCEPT !.stale = @ + 1, !.yielded = FALSE, !.said = FALSE]
        /\ UNCHANGED <<at, acc, router, client, history>>
     \/ run.stale = StaleRetries /\ UNCHANGED run /\ Broken

(* The prompt does not fit: another run if nothing was yielded and the history  *)
(* could be summarized.                                                      *)
Overflow ==
  /\ Running
  /\ \/ /\ run.summed < OverflowRetries /\ ~run.yielded
        /\ run' = [run EXCEPT !.summed = @ + 1]
        /\ UNCHANGED <<at, acc, router, client, history>>
     \/ UNCHANGED run /\ Broken

(* A workflow that cannot be built: the primary pass starts over.             *)
Unbuilt ==
  /\ Running /\ ~run.yielded
  /\ \/ /\ at = "primary" /\ run.built < BuildRetries
        /\ run' = [NewRun EXCEPT !.built = run.built + 1]
        /\ UNCHANGED <<at, acc, router, client, history>>
     \/ UNCHANGED run /\ Broken

(* stream_completion returns when its task is cancelled, and the router goes on *)
(* as if the answer were complete.                                           *)
Cancel ==
  /\ Running \/ at = "empty"
  /\ at' = "tail" /\ cancelled' = TRUE
  /\ UNCHANGED <<run, acc, router, client, events, passes>>

-----------------------------------------------------------------------------
(* The checks between the passes.                                            *)

Pass(name) == at' = name /\ run' = NewRun /\ passes' = passes \cup {name}
Skip(next) == at' = next /\ UNCHANGED <<run, passes>>

Checking(check) ==
  /\ at = check
  /\ UNCHANGED <<router, client, events, cancelled>>

(* is_truncated: a long text that ends in the middle of a sentence is, too.   *)
CheckTruncated ==
  /\ Checking("truncated") /\ UNCHANGED acc
  /\ \/ /\ acc.final /\ acc.calls = << >> /\ acc.finish \in {"length", "stop"}
        /\ Pass("truncation")
     \/ /\ ~(acc.final /\ acc.calls = << >> /\ acc.finish = "length")
        /\ Skip("invented")

CheckInvented ==
  /\ Checking("invented")
  /\ LET valid == SelectSeq(acc.calls, Known) IN
     IF valid = acc.calls THEN Skip("unfinished") /\ UNCHANGED acc
     ELSE Pass("correction") /\ acc' = [acc EXCEPT !.calls = valid]

(* A run that did not stop by itself is asked for its tool call, and so is one  *)
(* whose text announces it.                                                  *)
CheckUnfinished ==
  LET asked == /\ Continues /\ Bound # {} /\ acc.calls = << >> /\ acc.final
               /\ acc.finish # "length"
  IN  /\ Checking("unfinished") /\ UNCHANGED acc
      /\ \/ asked /\ Pass("nudge")
         \/ ~(asked /\ acc.finish # "stop") /\ Skip("unsummed")

CheckUnsummed ==
  /\ Checking("unsummed") /\ UNCHANGED acc
  /\ \/ /\ Continues /\ Sums /\ Bound # {} /\ acc.calls = << >>
        /\ acc.content /\ acc.final /\ acc.finish = "stop"
        /\ Pass("summary")
     \/ Skip("empty")

(* Mutant: an answer that stopped by itself is never empty.                   *)
EmptyUnlessStopped ==
  ~acc.content /\ ~acc.final /\ acc.calls = << >> /\ ~acc.error /\ acc.finish # "stop"

(* Mutant: text is no reason not to retry.                                    *)
EmptyOfCalls == acc.calls = << >> /\ ~acc.error

Empty == ~acc.content /\ ~acc.final /\ acc.calls = << >> /\ ~acc.error

(* An empty answer is retried unless the context is full, or a runner turns     *)
(* out to have restarted, which nobody handles.                              *)
CheckEmpty ==
  \/ /\ Checking("empty")
     /\ \/ ~Empty /\ Skip("tail") /\ UNCHANGED acc
        \/ Empty /\ Skip("tail") /\ acc' = [acc EXCEPT !.overflow = TRUE]
        \/ Empty /\ Pass("retry") /\ UNCHANGED acc
  \/ /\ at = "empty" /\ Empty
     /\ Broken /\ UNCHANGED run

Nothing == ~acc.content /\ ~acc.final /\ acc.calls = << >>

CheckStillEmpty ==
  /\ Checking("stillempty") /\ UNCHANGED acc
  /\ IF Nothing THEN Pass("second") ELSE Skip("exhausted")

CheckExhausted ==
  /\ Checking("exhausted") /\ Skip("tail")
  /\ acc' = [acc EXCEPT !.incomplete = Nothing]

Check ==
  \/ CheckTruncated \/ CheckInvented \/ CheckUnfinished \/ CheckUnsummed
  \/ CheckEmpty \/ CheckStillEmpty \/ CheckExhausted

-----------------------------------------------------------------------------
(* stream_message: what the router sends, one event at a time.                *)

Routing == phase \in {"open", "ended"} /\ UNCHANGED <<at, run, acc, history>>

Send(event) == last' = event

Started(k) ==
  /\ Send(Protocol!StartOf(router.next, k))
  /\ blocks' = Append(blocks, [kind |-> k, open |-> TRUE])
  /\ UNCHANGED phase

Wrote(i, k) == Send(Protocol!DeltaTo(i, k)) /\ UNCHANGED <<blocks, phase>>

Stopped(i, k) ==
  /\ Send(Protocol!StopOf(i, k))
  /\ blocks' = [blocks EXCEPT ![i].open = FALSE]
  /\ UNCHANGED phase

OpenThinking ==
  /\ Routing /\ router.todo = "thinking" /\ router.thinking = 0
  /\ Started("thinking")
  /\ router' = [router EXCEPT !.thinking = router.next, !.next = @ + 1]

WriteThinking ==
  /\ Routing /\ router.todo = "thinking" /\ router.thinking # 0
  /\ Wrote(router.thinking, "thinking")
  /\ router' = [router EXCEPT !.todo = "idle"]

ClosesThinking == router.todo \in {"text", "tool", "closing"}

CloseThinking ==
  /\ Routing /\ ClosesThinking /\ router.thinking # 0
  /\ Stopped(router.thinking, "thinking")
  /\ router' = [router EXCEPT !.thinking = 0]

(* The text of the done event goes out when nothing was streamed, whether       *)
(* thinking is open or not.                                                  *)
WritesText ==
  \/ router.todo = "text" /\ router.thinking = 0
  \/ router.todo = "fallback"

OpenText ==
  /\ Routing /\ WritesText /\ router.text = 0
  /\ Started("text")
  /\ router' = [router EXCEPT !.text = router.next, !.next = @ + 1]

WriteText ==
  /\ Routing /\ WritesText /\ router.text # 0
  /\ Wrote(router.text, "text")
  /\ router' = [router EXCEPT !.todo = IF @ = "text" THEN "idle" ELSE "closing"]

CloseText ==
  /\ Routing /\ router.todo \in {"tool", "closing"}
  /\ router.thinking = 0 /\ router.text # 0
  /\ Stopped(router.text, "text")
  /\ router' = [router EXCEPT !.text = 0]

(* Mutant: the block of a tool's result takes no number.                      *)
NumberedUnlessResult(r) == IF r.todo = "tool" THEN r.next ELSE r.next + 1

Numbered(r) == r.next + 1

(* The result of a server tool is a block of text, a call is one of its own.   *)
BlockKind == IF router.todo = "tool" THEN "text" ELSE "tool_use"

AllClosed == router.thinking = 0 /\ router.text = 0 /\ router.block = 0

OpenBlock ==
  /\ Routing /\ AllClosed
  /\ router.todo = "tool" \/ (router.todo = "closing" /\ router.sent < Len(acc.calls))
  /\ Started(BlockKind)
  /\ router' = [router EXCEPT !.block = router.next, !.next = Numbered(router)]

WriteBlock ==
  /\ Routing /\ router.block # 0 /\ ~router.wrote
  /\ Wrote(router.block, BlockKind)
  /\ router' = [router EXCEPT !.wrote = TRUE]

(* Mutant: results are counted with the calls.                               *)
CloseBlockCounts ==
  /\ Routing /\ router.block # 0 /\ router.wrote
  /\ Stopped(router.block, BlockKind)
  /\ router' = [router EXCEPT !.block = 0, !.wrote = FALSE, !.sent = @ + 1,
                              !.todo = IF @ = "tool" THEN "idle" ELSE @]

CloseBlock ==
  /\ Routing /\ router.block # 0 /\ router.wrote
  /\ Stopped(router.block, BlockKind)
  /\ router' = [router EXCEPT !.block = 0, !.wrote = FALSE,
                              !.todo = IF @ = "tool" THEN "idle" ELSE @,
                              !.sent = IF router.todo = "tool" THEN @ ELSE @ + 1]

StopReason ==
  IF Nothing /\ acc.finish # "stop" THEN "max_tokens"
  ELSE IF acc.calls # << >> THEN "tool_use"
  ELSE IF acc.incomplete THEN "incomplete_turn"
  ELSE IF acc.finish = "length" THEN "max_tokens"
  ELSE "end_turn"

(* The passes are over.                                                      *)
BeginTail ==
  /\ at = "tail" /\ router.todo = "idle" /\ phase = "open"
  /\ router' = [router EXCEPT
       !.todo = IF ~acc.content /\ acc.calls = << >> /\ acc.final
                THEN "fallback" ELSE "closing"]
  /\ UNCHANGED <<at, run, acc, client, history>>

SendEnd ==
  /\ Routing /\ router.todo = "closing" /\ AllClosed /\ router.sent = Len(acc.calls)
  /\ Send(Protocol!EndFor(StopReason)) /\ phase' = "ended"
  /\ router' = [router EXCEPT !.todo = "over"]
  /\ UNCHANGED blocks

SendOver ==
  /\ Routing /\ router.todo = "over"
  /\ Send(Protocol!Over) /\ phase' = "over"
  /\ router' = [router EXCEPT !.todo = "done"]
  /\ UNCHANGED blocks

Route ==
  \/ OpenThinking \/ WriteThinking \/ CloseThinking
  \/ OpenText \/ WriteText \/ CloseText
  \/ OpenBlock \/ WriteBlock \/ CloseBlock
  \/ BeginTail \/ SendEnd \/ SendOver

(* The client goes, and the generators with it.                               *)
Leave ==
  /\ phase \in {"open", "ended"} /\ phase' = "cut"
  /\ at' = "left"
  /\ UNCHANGED <<run, acc, router, blocks, last, history>>

Rest == phase \in {"over", "cut"} /\ UNCHANGED vars

Advance == Think \/ Say \/ ServerTool \/ Done \/ Stale \/ Overflow \/ Unbuilt \/ Check \/ Route

Next == Advance \/ Cancel \/ Leave \/ Rest

Spec == Init /\ [][Next]_vars

(* A generation ends, by its token limit or by the timeouts of the agent, and   *)
(* whoever waits for it goes on.                                             *)
FairSpec == Spec /\ WF_vars(Advance)
-----------------------------------------------------------------------------
Accumulators ==
  [content : BOOLEAN, final : BOOLEAN, calls : CallLists, finish : Finishes \cup {"none"},
   error : BOOLEAN, overflow : BOOLEAN, incomplete : BOOLEAN]
Runs ==
  [stale : 0..StaleRetries, summed : 0..OverflowRetries, built : 0..BuildRetries,
   yielded : BOOLEAN, said : BOOLEAN]
Routers ==
  [todo : Todos, thinking : Nat, text : Nat, next : Nat, block : Nat, wrote : BOOLEAN,
   sent : Nat]

PassesOK ==
  /\ at \in Passes \cup Checks \cup {"tail", "broken", "left"}
  /\ run \in Runs /\ acc \in Accumulators
  /\ events \in 0..MaxEvents /\ passes \subseteq Passes /\ cancelled \in BOOLEAN

RouterOK ==
  /\ router \in Routers
  /\ {router.thinking, router.text, router.block} \subseteq 0..Len(blocks)
  /\ router.sent <= Len(acc.calls)
  /\ blocks \in Seq([kind : Protocol!Kinds, open : BOOLEAN])
  /\ phase \in {"open", "ended", "over", "cut"}

(* The records keep their fields, and the router knows no block and counts no   *)
(* call that is not there.                                                   *)
TypeOK == PassesOK /\ RouterOK

(* Whatever the passes yield, and wherever one breaks off, the client receives  *)
(* blocks as the protocol has them (stream_message).                           *)
Promise == Protocol!Spec

(* A turn does not end as if the model had finished with nothing to render: the *)
(* client has text or a call, unless the context is full or the task was       *)
(* cancelled (the retries of stream_completion and the fallbacks of            *)
(* stream_message).                                                           *)
NoSilentEnd ==
  last = Protocol!EndFor("end_turn") /\ ~acc.overflow /\ ~cancelled =>
    \E i \in 1..Len(blocks) : blocks[i].kind # "thinking"

(* One answer makes four secondary passes at most: those for an answer with     *)
(* text exclude those for an empty one (stream_completion).                    *)
PassesBounded == Cardinality(passes) <= 4

(* The client receives a whole message or is cut off: no chain of passes and    *)
(* retries goes on forever.                                                   *)
Delivered == <>(phase \in {"over", "cut"})

(* "Anthropic's protocol expects one block at a time" (stream_message).  No run *)
(* checks it: the code breaks it, for the thinking branch starts a block       *)
(* whether or not text is open, and a later pass thinks again.                 *)
OneBlockAtATime == Cardinality({i \in 1..Len(blocks) : blocks[i].open}) <= 1

(* A name that the client has not bound does not reach it: invalid calls are    *)
(* dropped "so the client doesn't even see them".  No run checks it: the code  *)
(* looks at the names once, and later passes bring new calls.                  *)
InvalidHidden ==
  phase = "over" => \A i \in 1..Len(acc.calls) : Known(acc.calls[i])
=============================================================================
