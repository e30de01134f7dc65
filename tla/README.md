# Specifications of llmmllab-api

TLA+ modules of the parts of llmmllab-api in which several tasks share state:
the priority queue that admits requests, the registries of sessions, the handles
that the API keeps of llama.cpp servers on the runners, the map of models to
runners, the retries of a completion turn, the run of a workflow with its tools,
the streamed answer that a client receives, and the tiers that hold a user's configuration.  Every component has an instance that
TLC checks, and theorems that TLAPS proves for all values of the constants.

Paths are those of the repository, without `src/`; `pq:380` is line 380 of
`services/priority_queue.py`, `rc` is `services/runner_client.py`, `cs` is
`services/completion_service.py`, `ex` is `graph/executor.py`, `am` is
`routers/anthropic/messages.py`, `uc` is `db/userconfig_storage.py`.

## 1. The system

llmmllab-api is one asyncio process.  A request comes in through an OpenAI or
Anthropic compatible router, waits in a priority queue, is composed into a
LangGraph workflow, acquires a llama.cpp server from one of several *runners*
(other processes, reached by HTTP), streams the run's events back, and gives the
server handle back.

Since there is one event loop and no thread writes shared state, whatever runs
between two awaits is atomic; the locks in the code are never held across an
await.  All interleaving is between tasks that are suspended, and this is what
decides the grain of the actions here: **an action is what one task does between
two awaits**.  An await at which nothing else in the module can be told apart is
merged into its neighbours; every such merge is named in section 3.

### Inventory

| Component | State it keeps | Operations | Hard behaviour | What makes it correct |
|---|---|---|---|---|
| Priority queue, `services/priority_queue.py` | sorted list, sizes, gauges, per-session service times, an event and an aging task per item | enqueue, wait, timeout, age, dequeue, recheck, cancel by session | release passes suspended in `_can_proceed`, with list indices taken before the await; cancellation at any await; ages that re-sort the list | one release per request; sizes are the list's; every waiter gets in; only an item left by a cancelled task can fill the queue for good; bounded room; no admission after removal |
| Sessions, `queue_callbacks.py`, `session_registry.py`, `session_tracking.py`, `routers/session_admin.py` | registry with its gauge, in-flight tasks per session, active counts | release and completion callbacks, register, unregister, cancel, sweep of stale sessions | two turns of one session; reports that come after a cancellation | gauge = registry; the table names running turns; cancel reaches the request; sessions are forgotten |
| Server handles, `services/runner_client.py` | registry of handles, list per endpoint for the cleanup, startup epochs, circuit breakers | acquire with failover, release, shutdown, epoch check, cleanup, revalidation, health loop | runner restarts, evictions, lost answers; shared handles; loops over copies with an await per element | the cleanup's list is part of the registry; handles leave with their epoch; dead handles are forgotten |
| Model map, `services/runner_client.py` | model to endpoints, the pending refresh task | scheduled and direct refresh, cancel, invalidate | refreshes overlap; the `finally` of a cancelled one runs after its successor exists | the reference names a pending task; a runner that is missing is found again |
| Completion turn, `completion_service.py`, `composer_init.py`, `graph/service.py`, `graph/cache.py`, `retry_policies.py`, `continuation_logic.py` | composer singleton and its builder, workflow cache, retry counters | compose, acquire, run, release, stale, overflow and cold-start retry, secondary passes | builds of other requests write the same `server_handle`; retries that call each other; a cache that holds dead addresses | runs bounded by the budgets; one release per acquisition; retries go elsewhere |
| Routing and pipelines, `services/runner_client.py` | none of its own | selection ladder, slot check, proxying, image and audio pipelines | status answers that are old when used | a selected runner meets the ladder's criteria |
| Workflow executor and nodes, `graph/executor.py`, `graph/content_parser.py`, `graph/tool_call_parser.py`, `graph/nodes/`, `graph/state.py` | stream buffer, text and calls so far, channels of the graph, cache of tool results | a chunk, the end of a generation, routing, a round of server tools, failures | markup cut by chunks; calls from three sources in one dictionary; reducers that add what a node returns to what it was given | what is streamed is shown or parsed, nothing is both; a call is executed once and reported; rounds are capped |
| Agents, `agents/base.py` | none | one LLM call with retries | errors that become messages | a call ends in one of the ways the executor knows |
| Answer stream, `completion_service.py`, `continuation_logic.py`, `completion_state.py`, `response_handlers.py`, `routers/anthropic/messages.py` | accumulator, flags and indices of open blocks | deltas, tool events, checks, five kinds of secondary pass, tail of the message | passes and retries share the accumulator and the block flags; runs break off anywhere; a cancelled task looks like a complete one | blocks are well formed; a finished answer has something to render; the passes end |
| Overflow recovery, summarization | none | shorten a history | | a retry's history is shorter |
| Server tools and MCP client, `tools/` | none per call | identity of calls, execution | a service that hangs | equal calls have equal keys |
| Redis queue, `services/redis_priority_queue.py` | Redis lists | the queue over Redis | imported by its tests only | |
| Priority middleware, `middleware/priority.py` | none | headers to priority | | total classification |
| User configuration, `db/userconfig_storage.py`, `db/cache_storage.py` | memory of the process, Redis, the users table | get, update, make sure of the user, expiry and eviction | read-then-set around a database await; Redis that fails unnoticed; a default inserted while a configuration is stored | only an update that cannot be dumped replaces a configuration by the default; the caches come to agree with the table |
| Storage, `db/` | PostgreSQL | SQL statements | | the database's |
| Images, audio, speech, tokens, models | none, or a generation queue | calls to runners | images use the priority queue | an image request always dequeues |
| CRUD services, routers, authentication, metrics, start-up, generated models, deployment | | | | |

### How they interact

```
router --> priority queue --(can_proceed)--> runner client (slots)
   |           |  on_release / on_complete
   |           v
   |       session registry <-- sweep, admin endpoint --> in-flight tasks, queue
   v
completion turn --> composer --> workflow cache
   |                   | acquire_server (build)
   |                   v
   +-- release --> runner client: handles, epochs, circuits <--> runners
                       | schedule refresh
                       v
                   model map

user_config_service --> memory of the worker --> Redis --> users table <-- create_conversation
 (composer, workflow cache, routers/config.py)

model server --chunks--> executor --events--> passes --events--> stream_message --> client
                           |    ^             (accumulator)      (content blocks)
                           v    |
                     agent node, server tool node
```

- The queue is created in `services/queue_callbacks.py` with `_can_proceed`,
  `_on_release` and `_on_complete`.  Those who wait in it are
  `CompletionService._enqueue_and_wait` (cs:508) and `image_service._queued`; both
  dequeue in a `finally` that a task cancelled while it waits has not entered yet.
- The Anthropic router and the executor drop the queued work of a session when they
  see a `CancelledError` (am:645, ex:778), the OpenAI router does not
  (`routers/openai/chat.py:437`).  None of them sees one that is raised while the
  request waits in the queue: the completion service takes it for the end of the stream
  (cs:912), and the executor's handler exists only once a run has started.  The
  item of such a request stays in the list.
- `SessionLifecycle` sees of the queue what `Admission` says of it;
  `PriorityQueue` is shown to implement `Admission`.
- `WorkflowRun` is one run, `AnswerStream` the chain of runs that make an answer:
  it sees of a run that it yields thinking, text and server tool events and ends with
  calls and a finish reason, with an apology, or with an error.
- The composer, the workflow cache and the model service read the configuration
  (`graph/service.py:80`, `graph/cache.py:65`), `routers/config.py` reads and writes it.
  To these readers it is a value, which no other module has.
- `CompletionTurn` sees of the runner client that an acquisition yields a server
  that is up or fails, and that servers die.

## 2. Modules

| Module | What it is |
|---|---|
| `Admission` | abstract: a bounded room in which requests wait |
| `PriorityQueue` | the queue and the tasks that use it; implements `Admission` |
| `SessionLifecycle` | sessions, in-flight tasks, cancellation and sweep, over `Admission` (INSTANCE) |
| `RunnerHandles` | acquire, release, epochs, circuits, cleanup, health loop, with the runners |
| `ModelMap` | refreshes of the model map |
| `CompletionTurn` | composing, the cache, running, releasing and retrying |
| `ToolCallText` | the stream buffer and the parser of raw tool calls, as operators on sequences of tokens |
| `WorkflowRun` | executor, agent node, server tool node and reducers; extends `ToolCallText` |
| `BlockProtocol` | abstract: the content blocks a client may receive |
| `AnswerStream` | passes, accumulator and router of a streamed answer; implements `BlockProtocol` |
| `ConfigTiers` | the configuration of one user in its three tiers |
| `MC...` | instances for TLC |
| `..._proofs` | theorems |

In each module the definitions that begin with "Mutant:" are variants of the
definition next to them with a plausible mistake.  Nothing uses them; they serve
to see that a property notices the mistake.

## 3. How the modules correspond to the code

### PriorityQueue

The list is always sorted by `sort_key` and its keys are distinct, so it is
modelled as the set `queue` with the order `Before`; `Position(r)` is the index of
an item.  `sort_key` is `(priority, counter)` until an item ages, and
`(priority, enqueued_at)` afterwards (pq:516): the counter and the clock are
compared with each other.  `ClockAhead` says which one is larger; both values are
meaningful (a counter catches up with a monotonic clock on a process that was
started soon after boot), and the theorems hold for both.  `enqueued_at` is a
pydantic field whose `default_factory` sets it when metadata is made, and `arrival`
orders both.

`_release_eligible` takes all pending items once, groups them by priority, and for
each asks `_can_proceed`, which is awaited.  A pass in progress is
`pass[o] = [todo, asking, admitted]`, where every candidate carries the index it
was found at: after the await the code looks at `_queue[idx]` again and skips the
candidate if something else is there (`StillEligible`).  `AskNext` is an answer
after which another candidate is asked about, `EndPass` one that ends the pass
and reports the released items through `on_release`.  What a pass does next
depends on its owner: a task that enqueued goes on to wait, one that timed out
raises, one that dequeued is done, and the background task sleeps (`Resume`).

| Action | Code |
|---|---|
| `RejectFull`, `Enqueue` | `enqueue` (an empty queue releases at once) |
| `AskNext`, `EndPass` | `_release_eligible`, `_has_higher_priority_waiting` |
| `Wake`, `Timeout` | `wait_for_position`, `_remove_item` |
| `Age` | `_age_item` |
| `Finish` | `dequeue` with its compaction |
| `StartRecheck` | `_recheck_blocked` |
| `CancelSession` | `cancel_by_session_id` |
| `Leave` | `CancelledError` at any await in the queue |

A task is cancelled at the await where it is suspended.  Only `TimeoutError` is
handled (pq:208), so the item stays in the list; so it does when the error has left
the queue, since cs:912 ends the stream without raising it and no router calls
`cancel_by_session_id`.  `Leaves` are the requests this may happen to.  A
session is cancelled (`CancelSession`) by an administrator or by another, running request
of it that is cancelled.

### SessionLifecycle

`registry`, `silent` and `gauge` are `_session_state`, the sessions in it whose
`last_activity` is too old, and the `active_sessions` gauge; `inflight` is
`_in_flight_tasks`.  The queue sets an event (`Release`), reports it when its
pass ends (`Report`), and the task wakes up and registers itself (`Wake`); these
are three steps that other steps come between.  The second turn of a session
overwrites the entry of the first, and the end of either removes it.

`CancelSession` is the whole admin endpoint, which does not await anything.
`Sweep` is one round of `_cleanup_stale_sessions`, of which only the sleep is an
await.  Prometheus calls and labels are left out.  The admission callback's
question to the runners is the `ok` of `PriorityQueue!Answer`.

### RunnerHandles

A handle is `[host, boot, n]`: the runner, the startup epoch in which the server
was made, and its number.  One model is served, so a runner has at most one server
at a time and requests share it; handles are values, as the registry is a set and
`ServerHandle` is compared by value.  A request goes

    idle -> choosing -> asking -> posting -> created -> using -> releasing [-> shutting] -> idle

where asking is the await of the epoch check, posting that of
`POST /v1/server/create`, and created lies between the runner's having made the
server and the client's hearing of it: here the runner may restart, and the answer
may be lost (`Fails`).  `Busy` is the 503 path of `proxy_request`.  `Abandon` is a
caller that forgets its handle (`tools/static/memory_retrieval_tool.py:102`,
`graph/workflows/dialog/builder.py:113`).

`Trip` is `_trip_circuit_and_cleanup`; the cleanup task takes the endpoint's list
when it starts (`StartCleanup`) and then deletes one server per await (`Delete`).
The health loop copies the registry (`StartSweep`), probes one handle per await
(`Probe`) and purges at the end (`EndSweep`); with `Flaky` a probe of a running
server may fail.  `revalidate_runner_handles` checks one endpoint per await.
The circuit window passes at any time, and which endpoint a request tries next is
left open: the ladder that orders them is not part of the module.
The HTTP answer and the handling of it are one step, except at the create.

`blind` is a history variable: handles registered when the client's baseline was
not the handle's boot.  Three paths lead there: the epoch check fails (it is
best effort), the runner restarts between check and create, and another request's check
moves the baseline meanwhile.

### ModelMap

A refresh task is created, sleeps, asks all runners, and writes the map when all
have answered; it can be cancelled at each stage.  A cancelled task that has not
begun never runs its `finally`; otherwise `finally` runs in a later turn of the
loop (`CancelEnds`) and clears `_refresh_task`, whatever it points to by then.
`Callers` refresh without a task: start-up, the health loop, the stale retry.
Servers are acquired without end, and each acquire cancels the task the reference names:
the name of a task that is over is used again, so `Tasks` bounds only how many
are not over at the same time.
`due` is a history variable for the liveness property.  `aclose`, which runs at
shutdown only (`app.py:212`), is not an action.

### CompletionTurn

The turn of a request is a record of its locals, `turn[r]`.  `composer_init.py:52`
makes the composer with the first builder it is given and ignores later ones, so
all workflows are built by the same builder and its `server_handle` is one slot.
`composer` says whose builder this is, `Spent` when no attempt has it any more;
then nobody reads `slot` again, and it is kept at `None`.

| Action | Code |
|---|---|
| `Start` | a turn; with `Routed` the router builds a workflow first (`routers/anthropic/messages.py:447`) |
| `Compose` | `composer_init`, cache lookup in `ComposerService.compose_workflow` |
| `Acquire`, `Store`, `Locate` | `_acquire_primary_server_and_agent`, `WorkflowCache.set`, `base_url_for_model` of a cached workflow |
| `BuildFails` | a build that raises, and the cold-start loop of cs |
| `EndRun`, `Released` | the end of a run and the `finally` block around `release_server` |
| `RetryStale`, `RetryShorter`, `RetryCold` | the three retries |
| `Follow` | what comes after a pass: follow-ups, the empty-response retry |
| `Leave` | `CancelledError` elsewhere |
| `Die`, `Expire` | a server is gone; a cache entry expires or is evicted |

A build that has acquired its server may still fail (the embedding server, a tool), and
its handle is then lost (cs:305: the attempt has no builder yet).  `BuildBreaks` says
whether that happens.

How a run ends is an input (`Ends`): with an answer, a stale server (only if the
server is gone), an overflow before anything was yielded, an error, or
cancelled.  A connection error cannot reach
`stream_with_connection_retry`: `acquire_server` turns it into a `RuntimeError`
and `agents/base.py` and the executor turn it into an answer.  That budget is
therefore not in the model.

### ToolCallText and WorkflowRun

Text is a sequence of tokens: tags, markers, pieces of ordinary text, and the JSON of
one call as one token.  `{` stands for the whole prefix by which the regular
expressions recognise a bare JSON call, and `<ca`, `ll>` are an opening tag the
tokenizer has split; white space is left out, and `rstrip` with it.  A "chunk" is what one
`feed` gets.  What the tokens cannot say is not modelled: calls in fenced code
blocks, a Mistral block that ends at `"]\n"`, braces in strings.

`Feed` is `feed`, with one operator per format for what happens to the pending
text (`CutXml`, `CutJson`, `CutMistral`).  The three are really different: XML goes
on from block to block, JSON stops after one, and the Mistral marker ends with the
bracket that ends the block.  `Strip` is `strip_raw_tool_calls`; it looks for the
formats one after the other and returns the first that gives a call.

| Action | Code |
|---|---|
| `Chunk` | `on_chat_model_stream`: feed, text, blocks (ex:440) |
| `EndCall` | `on_chat_model_end`: flush, structured calls, extraction of what was not streamed (ex:496), and the return of the agent node |
| `BreakCall` | a broken connection, which the agent makes a message of (`agents/base.py:873`) |
| `Fail` | a timeout (an apology, ex:863), or what is raised |
| `Route` | `should_continue` and the edges of the graph |
| `RunTools` | `ServerToolNode.__call__`, the reducers, and the events of the executor (ex:709) |

LangGraph gives a node the channels and merges what it returns through the reducers.
Both nodes return the state they were given, so the agent node doubles the counter of
rounds and the list of events (`Return`), and the server tool node, which sets
the counter to 1, appends the whole list again.

A structured call is filed under its identifier, or under that of the generation
(`run_id`) if it has none, and is dropped if the identifier is taken (ex:533); `Unnamed`
are the calls that come without one, and `SentId` is the key.

`heard`, `streamed`, `withheld`, `parsed`, `sent`, `fired`, `answered` and `rounds` are
history variables.  `withheld` has the blocks that were given to the parser and
nothing else: what the code discards at the end of a generation (the text after a call
in a content that comes whole, and such a content beside structured calls) is in
none of them but `heard`.  A node runs to its end
in one step: nothing else of the run happens meanwhile, and what the executor does
with an event it does before it takes the next one.

### BlockProtocol and AnswerStream

`BlockProtocol` is the sequence that the docstring of `stream_message` lists, with
the rules that a client relies on: indices count up, a delta or a stop is for an open block, calls
come last, and the end of the message comes when all blocks are closed.  It does not
say that one block is open at a time, although a comment does (am:613), for the code breaks
that (`OneBlockAtATime`, section 4): thinking of a second run starts while text is
open, and the text of the `done` event may start while thinking is open.

The generators are nested, so while the router sends the events of one item nothing
else runs, but the client may leave between any two of them.  `router.todo` is what
the router is about to send; the actions of `Route` send one event each.

| Action | Code |
|---|---|
| `Think`, `Say`, `ServerTool` | an event of a run, through `_build_and_run` and `stream_completion`; secondary passes keep tool events to themselves |
| `Done` | the `done` event: `update_stream_final` |
| `Stale`, `Overflow`, `Unbuilt` | the retries of `_build_and_run` and of `stream_with_connection_retry`, or their end |
| `CheckTruncated` ... `CheckExhausted` | the conditions of `stream_completion` and `maybe_retry_on_empty`, in the order of the code |
| `Open...`, `Write...`, `Close...` | the branches of `stream_message` |
| `BeginTail`, `SendEnd`, `SendOver` | what `stream_message` sends when the passes are over |
| `Cancel` | `CancelledError` in `stream_completion`, which returns (cs:912) |
| `Leave` | the client goes |

What the heuristics read in a text (a sentence cut off, an announced call, a missing
marker) is a choice; the parts of their conditions that are state are kept.  So are
finish reasons, in the classes that the conditions tell apart.

### ConfigTiers

`cache` has an entry per worker (`_memory_cache`) and one for Redis, `row` and `stored`
are the user's row and its `config` column, and `old` are the entries past their time to
live.  `made` are the workers whose `_memory_cache` exists: the first read makes it, and
`_memory_cache_set` does nothing before.

A configuration is `[of, full]`: the update that sent it, or `Default`, and whether all its
sections are there.  An update writes to the table what `_ensure_required_fields` completes
(`Completed`), and to the caches what was sent; `Partial` are the updates for which these
differ, and an entry of a cache that lacks sections is not the stored one.  For
a configuration whose `model_dump` fails (`Invalid`) the code writes the completed default to the table
(uc:315), the configuration itself to the memory, and Redis only loses its entry.

The application is one process, but a deployment overlaps with the one it replaces and
both use the same Redis and database, so there is a set of workers.

A reader goes

    idle -> querying -> answered -> idle
                 \-> creating -> answered, or fallback -> answered

and each arrow is an await of the database.  The calls of Redis do not await
(`cache_storage` uses the synchronous client), so a look at the caches is
one step with what precedes the query, and a fill one with the return of the
answer.  Those of another worker do come between the calls of one; they reach only its own
memory and Redis, and each such order is one of the model's with the steps
whole.

| Action | Code |
|---|---|
| `Find`, `Miss` | the first two tiers of `get_user_config` (uc:148); a hit in memory changes nothing |
| `Query` | `get_user_config_from_users_table`, which answers None to any failure |
| `Create` | `ensure_user_exists` as a read calls it; `Ensure` is its statement |
| `Fallback` | the legacy query (uc:203) |
| `Fill` | both caches are set (uc:171) |
| `CreateConversation` | `ensure_user_exists` as `create_conversation` calls it |
| `Save`, `Publish` | `update_user_config`: the table, with the conversions of `_update_user_config_in_database` (`Written`), then the caches |
| `Age`, `Expire`, `Evict`, `Restart` | 300 s in memory and 86400 s in Redis; room for 500 users; a process ends |

A call of Redis that fails is not noticed (`_safe_redis_call`): a get answers None, a
set or a delete does nothing.  A database call that fails may have been committed.
`row` may be true at first with nothing stored: `db/seed.py:34` makes such rows.

## 4. What is checked

The bounds are chosen so that each run contains the race it is about: a second
request of a session, a restart, a list that is full, a retry of each kind.

| Run | Instance | Properties |
|---|---|---|
| `queue_faults` | 3 requests, 2 sessions, 2 models, room for 2; two may time out, two may be cancelled, one session may be cancelled; all age | `TypeOK`, `SizesMatch`, `ReleasedOnce`, `WedgedByLeaversOnly`, `ReportedAtRest`, `KeepsPromise` |
| `queue_liveness` | 3 requests, none with a session, room for 3; one may be cancelled; an aged item may sort before younger ones (`ClockAhead = FALSE`) | `EventuallyAdmitted` |
| `session_shared` | 4 requests: two of one session, one of another, one of none; room for 2 | `TypeOK`, `GaugeCountsSessions`, `InFlightRuns`, `CancelReaches`, `EventuallyForgotten` |
| `handles_pool` | 2 requests, one runner, 2 boots, one server per boot, flaky probes, health loop and revalidation; requests are symmetric | `TypeOK`, `ListIsActive`, `KnownHandlesMatch` |
| `handles_live` | 1 request, one runner, 2 boots, health loop | `DeadForgotten` |
| `map_refs` | refreshes scheduled without end, 4 of them at a time, 1 direct at a time, 1 runner | `TypeOK`, `RefIsPending`, `FoundAgain` |
| `turn_retries` | 2 requests of one cache key, one routed, one that may leave and makes a secondary pass; 2 servers, one retry of each kind; builds may break after they acquired | `TypeOK`, `RunsBounded`, `RetriesElsewhere`, `ReleasedOnce` |
| `turn_leak` | no router build, pass or cancellation, and no build that breaks after it acquired | violation: `HandlesReturned` |
| `workflow_run` | three chunks out of nine, contents that come whole, structured calls of two server and one client tool, two of them one call under two names, two without an identifier; a cap of 3 rounds | `TypeOK`, `ChunksAlike`, `Accounted`, `NotBoth`, `StructuredKept`, `FiredOnce`, `NoneUnreported`, `RoundsCapped` |
| `answer_stream` | four events, a bound and an unbound tool, one retry of each kind, all passes | `TypeOK`, `NoSilentEnd`, `PassesBounded`, `Promise`, `Delivered` |
| `config_tiers` | two workers with a reader and an update each, one update partial and one that cannot be dumped; Redis may fail at any call, the database once | `TypeOK`, `NeverReset`, `EventuallyFresh` |
| `config_default` | the same, but nothing fails and both updates can be dumped | violation: `EnsureReturnsStored` |

What the properties say, and why they are not obvious:

- **`ReleasedOnce`** (queue).  Up to four passes are suspended with the same item among
  their candidates.  Only the look at the event after the await keeps the item from
  being released twice.
- **`ReportedAtRest`**.  Releases are reported when a pass ends, completions by the
  request, so the counts of active requests are wrong for a while; once all is
  over they cancel out, unless a task was cancelled in the middle of a pass.
- **`WedgedByLeaversOnly`**.  Completed items stay in the list behind an unfinished head
  and count against `max_size`, and only `dequeue` pops them.  Whatever timeouts, aging,
  compaction and session cancellations do to the order of the list, a full one has an item
  whose task is alive, unless it has one whose task was cancelled in the queue.  That one
  such item does wedge the queue, for what is completed behind it is never popped, is
  `LeaversDropped`, below.
- **`KeepsPromise`**: refinement of `Admission`.
- **`EventuallyAdmitted`**.  A pass that finds another item at its index skips the
  candidate, and a pass dies with its task; the recheck loop makes up for both.
- **`CancelReaches`**.  The endpoint looks at queue, task table and registry one
  after the other; a session's only request is in the queue or in the table,
  wherever it is between release and registration.
- **`ListIsActive`**.  Handles leave the registry on five paths and each must remove
  them from the list that a tripped circuit will kill.
- **`KnownHandlesMatch`**.  After a restart no handle of the old boot survives if it
  was registered under a known baseline.
- **`DeadForgotten`**.  For handles that nobody will release (lost, abandoned) the
  health loop is the only way out of the registry.
- **`FoundAgain`**.  Servers may be acquired so often that every acquire cancels the
  sleeping refresh of the one before, and refreshes overwrite the map with old answers;
  a runner that was missing at an acquire gets into the map all the same.  What
  saves it is the `finally` block at rc:2060, which clears the reference to the *successor* of the task it
  belongs to: no acquire can cancel that successor from then on, so it sleeps
  its 60 s and writes.  With a `finally` that clears only its own reference (mutant
  `OwnRefAfter`) a stream of acquires starves the refresh.
- **`RunsBounded`**.  `_build_and_run` calls itself, is called anew by
  the cold-start loop and by secondary passes, with counters that are partly handed
  on and partly start anew.  A turn runs at most
  `(cold + passes + 1) * (stale + overflow + 1)` times.
- **`RetriesElsewhere`**.  A cached workflow has its server's address in it; after a
  stale server the retry must not find it in the cache.  Another request of the
  session may store it again, hence `blamed` is cleared when that happens.
- **`ReleasedOnce`** (turn).  The handle is read, detached, and released across an
  await while other builds write the same attribute.

- **`ChunksAlike`**.  The opening tag is looked for in a chunk, the closing one in what is
  pending, and both loops end at different places; whatever the chunks are, the client
  sees what it would see of the whole.  It is stated for XML markup with whole tags: it is false
  for a tag that the tokenizer has split, and for JSON and Mistral.
- **`Accounted`**.  Every token that was streamed is shown, in a block that was given to the parser,
  or pending, for all formats and their mixtures and over the ends of generations.
  Nothing of the kind holds of a content that comes whole: the text after its first call is dropped.
- **`NotBoth`**.  What was parsed is not shown as well.  The extraction at the end of a
  generation looks at the whole content again when nothing of it was shown; for a
  model that mixes formats this shows markup whose calls were parsed in the
  stream, hence the premise.
- **`StructuredKept`**.  Calls from text, from structured answers of several generations
  and from running tools share a dictionary.  A structured call with an identifier, and
  the first of a generation without one (`Entitled`), keeps its entry; a second one without an
  identifier does not get one, which is `NoneDropped`, below.
- **`FiredOnce`**.  Within a message calls are deduplicated, between rounds a cache
  answers; both use the same canonical key.
- **`NoneUnreported`**.  The list of events doubles in every round and is cut
  at the number of events already sent.  None is left out; that events are repeated
  from the second round on, as they are, is not seen by this property (section 7).
- **`RoundsCapped`**.  The counter doubles as well; the cap holds, and with the default of 4
  it is reached after two rounds with a tool call each.
- **`Promise`**: refinement of `BlockProtocol`, with runs that break off after any
  event and are followed by another run or pass.
- **`NoSilentEnd`**.  An answer that has nothing to render, the failure that the comments of
  `stream_completion` describe (cs:853), does not end as `end_turn`, through five
  passes each of which overwrites what the checks look at.
- **`PassesBounded`**, **`Delivered`**.  The passes for an answer with text and those
  for an empty one exclude each other, and each is made once.
- **`NeverReset`**.  A read that failed, or came before the first update, goes on to insert a
  default, any time later; the statement keeps a configuration that is there.  The one
  step that does put a default over a user's own is the update at uc:315, whose configuration
  cannot be dumped, and it is the only exception in the property.
- **`EventuallyFresh`**.  A read that was overtaken by an update fills both caches with
  what it read before, an update may reach the table and not Redis, and the caches get it as
  it was sent while the table gets it completed or replaced.  When the
  updates are over the caches agree with the table in the end.  The reason is that a
  configuration found in one tier is written only to the tier above and starts
  nothing anew below; a hit that renewed the entry of Redis would let two workers
  keep an old configuration alive (mutant `SlidingFind`).

The bounds are small because the races are: three requests give a runner of
a pass, an item it asks about and one that moves the list; two boots give a
restart between any two steps; four refreshes give a cancelled one, the one
whose reference it clears, the next and one that replaces it, again and again, for names are used anew; three chunks give a block that is opened in
one, goes on in another and is closed in a third; two workers and two readers give a cache
that is filled from another's, two updates give one that is overtaken; four events give text in a run that
goes stale, thinking and text in the next, and one more in a secondary pass.  The theorems of section 6 take the bound
away from the safety properties.

`CHECK_DEADLOCK FALSE` is given where requests, refreshes or turns come to an end
and nothing else is left to happen.  In `RunnerHandles` requests begin for ever, so
deadlock is checked there.

### Violations

The violation runs each check a sentence of the repository.

- `turn_leak`: the handle of a build is on the builder the composer keeps, and
  the attempt looks at its own (cs:361).  In the shortest trace `r1` composes, which makes its
  builder the composer's, and its build finds no server; `r2` composes, acquires through the
  builder of `r1`, runs, and gives nothing back.  The instance has no builds that break after
  they acquired, for these leak without any of this (section 7).
- `config_default`: `ensure_user_exists` keeps a configuration that is there and returns
  the default all the same (uc:485).  A read that found nothing, overtaken by an
  update, hands out the default and caches it in Redis for a day, against uc:467.

Nine more properties are stated in the modules and are broken by the code.  To see the
counterexample, give the property instead of those in the `.cfg` of the run named:

- `PriorityQueue!ActiveNeverNegative` (`pq_faults.cfg`): a released request finishes before the pass that
  released it reports it (pq:340), and the active count is -1, against
  `test/unit/test_priority_queue_callbacks.py:137`.
- `PriorityQueue!LeaversDropped` (`pq_faults.cfg`): the item of a request whose task is cancelled
  while it waits stays in the list, since the error ends at cs:912 and the handler that would
  drop it is never reached, against am:647 ("Drop any work still queued for this session so a turn
  whose client has left doesn't keep occupying / waiting on a runner slot") and am:1048.
- `PriorityQueue!PriorityOrder` (`pq_faults.cfg`): `_has_higher_priority_waiting` looks at the items
  *behind* a candidate in a sorted list, where no HIGH item can be behind a LOW one
  (pq:424), against pq:72 and pq:405.
- `RunnerHandles!CleansOrphansOnly` (`handles_pool.cfg`): one failed health check or acquire deletes all
  listed servers of the endpoint, those in use included (rc:662), against rc:643.
- `ModelMap!OnePending` (`map_refs.cfg`): the `finally` block clears the reference to its successor
  (rc:2060), which is then cancelled neither by the next schedule nor by `aclose`, against rc:2049.
- `WorkflowRun!CallsOnce` (`workflow_run.cfg`): calls parsed from text are named `raw_<tool>_<index>`, the
  index restarts with every block, and a second call of the same tool overwrites the
  first (ex:259), which is then missing from the final message, against ex:278.
- `WorkflowRun!NoneDropped` (`workflow_run.cfg`): of the structured calls of one generation that have no
  identifier all get that of the generation, and the second is dropped (ex:533), against ex:278.
- `AnswerStream!OneBlockAtATime` (`answer_stream.cfg`): the thinking branch (am:583) starts a block
  whether or not text is open, against am:613 ("Anthropic's protocol expects one block at a time").
- `AnswerStream!InvalidHidden` (`answer_stream.cfg`): names are checked once, after the truncation pass
  (cs:682); the calls of the correction pass, the nudges and the retries reach the
  client unchecked, against cs:677.

## 5. Fairness

- `PriorityQueue`: weak fairness of the recheck loop, of every `_can_proceed` call
  (it has a timeout) and of a task whose event is set; these are the event
  loop's.  Strong fairness of `LetThrough(r)`: a request that is asked about again
  and again is told yes some time, that is, slots become free.  Nothing is assumed
  of timers, clients, or how long a turn takes.
- `SessionLifecycle`: time passes (`GoSilent`) and the sweep keeps running.
- `RunnerHandles`: the health loop keeps running (`app.py:145` starts it) and its probes end, with a
  timeout of 3 s.
- `ModelMap`: tasks run, sleeps that are not cancelled and requests end.  Strong fairness
  of *some* task's `Start`: a task that was created begins in the next turn of the
  event loop, so it is not every new task that the next acquire cancels before it has
  begun (an acquire awaits at least one request to a runner).  Nothing makes servers be acquired, and
  nothing bounds how often.
- `AnswerStream`: weak fairness of `Advance`, all that the server does: a generation
  ends, by its token limit or the timeouts of the chat client and of the runner
  client (`config.py:210-240`), and the generators and the router are one
  task that is suspended only in them.  Nothing is assumed of the client or of cancellations.
- `ConfigTiers`: time passes for every entry of a cache (`Age`, `Expire`).  An entry
  that nobody reads is not deleted but is not served either, which is the same here.
  Nothing is assumed of readers, updates, Redis or the database: no call has to end.
- `WorkflowRun` has none; it is about what happened so far.
- `CompletionTurn` has none: that a turn ends follows from `RunsBounded` and from every
  await of an attempt having an end.

## 6. What is proved

`tlapm` checks these theorems for all values of the constants that satisfy the
`ASSUME` of the module: finite sets of requests, sessions or runners where a
cardinality is involved, a positive capacity, natural retry budgets, and `None`
outside of the sets it is added to.  TLC evaluates the assumptions in each run.

| Theorem | Statement | Argument |
|---|---|---|
| `PriorityQueue_proofs!TypeCorrect` | `Spec => []TypeOK` | inductive as it stands |
| `SizesCorrect` | `[]SizesMatch` | with `TypeOK`; every step recounts the priorities it touches or subtracts what it popped |
| `ReleasedAtMostOnce` | `[]ReleasedOnce` | `ReleaseInv`: an event is set by the step that puts the request into a pass's list, so it is in at most one list, once, and not yet reported (`AboutToReport`) |
| `OnlyLeaversWedge` | `[]WedgedByLeaversOnly` | `LifeInv`: an item that is not completed has a live task or one that was cancelled in the queue (`NoOrphans`), and a full list holds such an item, for `dequeue` pops all when all are completed |
| `QueueImplementsAdmission` | `Spec => KeepsPromise` | `PromiseInv`: a waiting request is queued or cancelled, and completed ones are over; then every step is a step of `Admission` or a stutter |
| `ReportsComplete` | `[]ReportedAtRest` | `ReportInv`: what was admitted was reported or stands in the list of a pass (`AdmittedAccounted`), a list is lost only with its task (`PassAtHome`), and a request closes once, when it is done; at rest there are no lists |
| `SessionLifecycle_proofs!GaugeCorrect`, `InFlightCorrect` | `[]GaugeCountsSessions`, `[]InFlightRuns` | inductive with the types they need (`Registries`) |
| `TypeCorrect` | `[]TypeOK` | `Registries` and the sets of requests (`Members`) |
| `CancellationReaches` | `Spec => CancelReaches` | `Reachable`: the turn of a session's only request is in the table from the step that starts it, or has been asked to stop |
| `RunnerHandles_proofs!ListCorrect`, `KnownHandlesCorrect` | `[]ListIsActive`, `[]KnownHandlesMatch` | inductive together with `Shape`; what a purge, a release and a check remove (`ForgetInv`, `ObserveInv`) |
| `TypeCorrect` | `[]TypeOK` | `Inv` and what the registry does not depend on (`Members`) |
| `ModelMap_proofs!MapTypeCorrect`, `RefCorrect` | `[]TypeOK`, `[]RefIsPending` | inductive together: the reference changes only with the state of the task it names |
| `CompletionTurn_proofs!TypeCorrect`, `RunsCorrect` | `[]TypeOK`, `[]RunsBounded` | `Paid`: the runs so far are covered by the calls that are over, the retries of this call and its first run; and a retry that is decided has budget left (`Fine`) |
| `ReleasedOnceCorrect` | `[]ReleasedOnce` | `Holding`: only the attempt whose builder the composer keeps gives a handle back, so there is at most one giver |
| `RetriesCorrect` | `[]RetriesElsewhere` | `Elsewhere`: a dead server stays dead and is not given out again, and the entry of the key was purged in the step that blamed it |
| `WorkflowRun_proofs!GraphTyped`, `Capped` | `[]GraphOK`, `[]RoundsCapped` | the counter is at least the number of rounds, doubling included, and a round starts below the cap |
| `ExecutedOnce` | `[]FiredOnce` | a key is in the cache exactly if it was executed, and in a round the first call of each key is the only one kept |
| `WellTyped` | `[]TypeOK` | with `Sound`: what a feed or a flush lets out and keeps is typed and adds up to what came in, token by token |
| `StreamedAccounted` | `[]Accounted` | inductive with the types: `Sound`, and that the end of a generation replaces what was shown only if nothing was |
| `ChunkingUnseen` | `[]ChunksAlike` | `XmlSoFar`: the buffer is where `CutXml` is with the whole content, since cutting `s \o t` is cutting what `s` left pending with `t` (`CutXmlConcat`) |
| `ShownOrCalled` | `[]NotBoth` | `Spread`, see below |
| `StructuredOnce` | `[]StructuredKept` | `Numbered`: identifiers in the dictionary that are not a parser's are those of calls sent (`Known`), the numbers given so far are at most the calls sent (`Placed`), and each entitled call has its entry, once (`Owned`); registering from text leaves those entries where they are |
| `AnswersReported` | `[]NoneUnreported` | `Told`: the number yielded is at most the length of the channel, so what a round appends lies behind the cut |
| `AnswerStream_proofs!Typed` | `[]TypeOK` | with `Placed`, `Wired` and `Alone`: which pass, check and end go with which state of the router, and which blocks it knows |
| `KeepsPromise` | `Spec => Promise` | `Sound`: a block is open exactly if the router has it in one of its three variables, and `next` is one more than the blocks; then each action sends an event of the protocol or stutters |
| `NeverSilent` | `[]NoSilentEnd` | `Spoken`: `content`, a fallback or a sent call has its block; an empty answer got to the tail by a full context, a cancellation, or as incomplete |
| `FewPasses` | `[]PassesBounded` | `Chained`: the passes made are among those before the one that runs, and those for an empty answer exclude the nudges |
| `ConfigTiers_proofs!TypeCorrect` | `[]TypeOK` | inductive as it stands: a step that needs a memory tier comes after the one that makes it, and a restart ends its readers |
| `OwnConfigurationKept` | `Spec => NeverReset` | with `TypeOK`; `Ensure` stores a default only where nothing is stored, and what an update stores, committed or not, is its own unless it is `Invalid` |

**The text of a run.**  `WorkflowRun_proofs` is about what loops compute of any
text.  The rules of induction of the library take an operator as a parameter, which the
provers cannot instantiate; its facts about well-founded relations do not, and from
them follow induction over numbers and over sequences for a *set*
(`LeastNumber`, `NumberInduction`, `SeqInduction`).  A loop of the code is a recursive function in
the model; `Steps` is that function for any step, with its equations, what it preserves, and what it is for
one token more.  On these rest the facts about `Count`, `First`, `FlattenSeq`, the three ways to cut a
text, the parsers and the dictionary.

**`ShownOrCalled`.**  `NotBoth` is not inductive: the end of a generation of which nothing was shown
parses the whole content again, and may show all of it.  The invariant `IText` adds

- `Spread`: shown, parsed and pending together hold no call more often than it was
  heard; `Apart` is the part without the premise of one format;
- `XmlSoFar`, `JsonSoFar`, `MistralSoFar`: for each format, how the calls parsed in the stream and the
  pending text follow from the content alone, as long as nothing of it was shown; `Within` carries the
  premise from what was heard to the content;
- `Fresh`: a generation begins with an empty content and an empty buffer.  One that broke off may
  leave a block pending, but its message has no calls, so no other generation follows.

With these, `Join` says of the end of a generation of which nothing was shown: either the
whole parse finds calls, and its text is empty since the content begins with markup, or it finds
none, and then the stream has parsed none of it either.

Model-checked only: the liveness properties `EventuallyAdmitted`,
`EventuallyForgotten`, `DeadForgotten`, `FoundAgain`, `Delivered` and `EventuallyFresh` (liveness under fairness is
not within the prover's reach).  Every invariant, the two refinements and both safety action properties
that the runs check are theorems.
There are no recursive operators; recursion is by functions.  `tlapm` needs about ten minutes for
`WorkflowRun_proofs` and seconds to minutes for each of the others.

## 7. What is not modelled

Section 1 lists all components and `PROJECT.json` the reason for each one left out.
Within the components that are modelled:

- `services/runner_client.py`: the selection ladder, the slot check, proxying and
  pipelines; more than one model.  Endpoints are independent but for failover.
- `graph/executor.py`: thinking deltas (`AnswerStream` has them), token counts, grammar
  mode, and the graph in which LangGraph's own `ToolNode` runs the server's tools.
- The non-streaming completion and the OpenAI routers' chunks, which have no numbered
  blocks.
- What the continuation heuristics read in a text.
- Workflow types and tools: the cache key has user, session and model only, and
  the composer keeps the type of the first builder (`graph/service.py:100-131`).
- `db/multi_tier_cache.py`, which only its test imports, and of the user configuration
  the listing for administrators and the functions that nothing calls.  Other
  users appear as what fills the memory (`Evict`).
- The fallible parts of logging and metrics, and of the database except for the users table.

Behaviour that the models have, and a comment of the repository contradicts, without a
property that TLC refutes:

- Server tool events are reported again from the second round on (`RunTools`), against ex:308 ("to
  avoid duplicates") and ex:717 ("Only yield events we haven't seen yet").
- `maybe_retry_on_empty` raises `StaleServerError` where nothing retries it (`Follow`), against
  cs:885, which says that it "reaches the stale-server retry in `_build_and_run`".  The
  answer ends as a broken one, which `Delivered` counts as an end.
- A build that fails after it has acquired its server leaks the handle (cs:305,
  `BuildBreaks`), against cs:357 ("Always release the handle: success, error, or cancel").
- Connection errors do not propagate to the outer retry, as `agents/base.py:755` has it: the
  handler at line 841 makes a message of them.
- An overflow retry inside a stale retry goes on after events were yielded, for `yielded_any` of
  the new run is false, against cs:284.

Behaviour that was noticed while reading and that no sentence of the repository
contradicts, or that is outside of the models:

- The gauges are exported before the recount when a session is cancelled (pq:603).
- The first startup epoch seen of a runner purges nothing (rc:807), and handles made by a
  runner after its restart but before the next check are purged while alive (rc:821).
- The first release of a shared server removes the registry's entry for all (rc:1918).
- `revalidate_runner_handles` counts purged handles by a difference of set sizes
  across awaits (rc:880).
- A refresh overwrites an invalidation that came while it was asking (rc:2036).
- Staleness of a session is judged from the start of its last turn
  (`services/queue_callbacks.py:149`).
- The retry loop within one endpoint of `acquire_server` never iterates (rc:1787).
- `WorkflowCache.set` evicts another entry even when it overwrites a key.
- A router's own build is outside of the cold-start loop, and its handle is not released.
- An opening tag that is split over two chunks is shown as text; a Mistral block
  ends at its own marker unless its bracket is in the same chunk; two Mistral markers or mixed formats
  in one generation can show markup whose calls were parsed.
- Error results of tools are cached as answers (`RunTools`).
- Server tool calls that are written into text are neither executed nor delivered: the
  node looks at structured calls, and `filter_tool_calls` drops them.
- Text after a call is dropped when the content comes whole, and a content that comes whole
  beside structured calls is not looked at (`Finish`).
- A stale retry (cs:401) goes on after events were yielded, so the client may read the
  beginning of an answer twice.
- Valid calls of the primary pass are overwritten by those of the correction pass
  (`Done` after `CheckInvented`).
- A nudge is sent after an apology, too, since its finish reason is not `stop`
  (cs:791); an apology after streamed text is not sent, and the message ends as `end_turn`.
- A task that is cancelled in a pass ends its message as `end_turn` (cs:912).
- An update of a user who has no row changes nothing in the table and succeeds; what
  was sent is cached, and gone when the caches are (uc:338, `Save`).
- An update whose configuration cannot be dumped leaves it in the memory of its worker and
  the default in the table (uc:315, `Publish`); that a `UserConfig` fails to dump is hard to bring about.
- A fault of Redis while an update is published leaves the old configuration to all other
  workers for up to a day (uc:290, `Publish`).

## 8. Plan

1. Done: `PriorityQueue` with `Admission`; `SessionLifecycle` over `Admission`;
   `RunnerHandles`; `ModelMap`; `CompletionTurn`; `ToolCallText` and `WorkflowRun`;
   `AnswerStream` with `BlockProtocol`; `ConfigTiers`; their theorems.
2. Selection of a runner (rc:882-1400) as pure operators over status answers,
   compared with a reference definition of the ladder; the slot check, composed with
   the queue's `ok`.
3. Message storage and reconciliation; the Redis queue.
