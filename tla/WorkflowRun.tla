---------------------------- MODULE WorkflowRun -----------------------------
(***************************************************************************)
(* One run of an IDE workflow: the agent's model streams an answer, the    *)
(* graph executes the server tools it calls and asks it again, and the     *)
(* executor turns what happens into text, tool calls and server tool       *)
(* events (WorkflowExecutor.stream_workflow, AgentNode, ServerToolNode and *)
(* the reducers of WorkflowState).                                         *)
(*                                                                         *)
(* A run has a checkpoint thread of its own, so the state of the graph is  *)
(* new.  A node returns the whole state and the reducers merge it into the *)
(* channels: a list is appended to itself and a counter is added to        *)
(* itself when a node returns what it was given.                           *)
(***************************************************************************)
EXTENDS ToolCallText

CONSTANTS
  ServerTools,  \* server_tool_names
  Keys,         \* canonical tool names with arguments
  KeyOf,        \* tool_call_cache_key of each call
  Chunks,       \* pieces of text a model may stream
  Wholes,       \* contents that come only with the end of a generation
  Answers,      \* the structured calls of a generation
  Unnamed,      \* the calls that come without an identifier when structured
  MaxChunks,    \* bound on the chunks of a run
  Cap           \* SERVER_TOOL_MAX_ITERATIONS

ASSUME RunAssumption ==
  /\ ServerTools \subseteq Tools
  /\ KeyOf \in [Calls -> Keys]
  /\ Chunks \subseteq Seq(Tokens) /\ Wholes \subseteq Seq(Tokens)
  /\ << >> \in Wholes
  /\ Answers \subseteq Seq(Calls) /\ Unnamed \subseteq Calls
  /\ MaxChunks \in Nat /\ Cap \in Nat

VARIABLES
  at,         \* the node that runs, or how the run ended
  chunks,     \* the chunks so far
  content,    \* what the model has streamed in this generation
  buf,        \* tc_stream_buf
  shown,      \* contents_buffer: the text the client was sent
  calls,      \* tool_calls: identifiers with their calls, in order
  chunked,    \* streaming_has_tool_call_chunks
  message,    \* the structured calls of the last assistant message
  iterations, \* channel server_tool_iterations
  events,     \* channel server_tool_events
  cache,      \* channel server_tool_call_cache: the keys that have a result
  reported,   \* the server tool events yielded; there are
              \* server_tool_events_yielded of them
  \* History: all that was heard, what of it came in chunks, the blocks that were
  \* given to the parser, the calls found, the structured calls with their keys,
  \* how often each call was executed, the calls answered and the rounds of server
  \* tools.
  heard, streamed, withheld, parsed, sent, fired, answered, rounds

textVars == <<chunks, content, buf, shown, heard, streamed, withheld>>
callVars == <<calls, chunked, parsed, sent>>
graphVars == <<message, iterations, events, cache>>
toolVars == <<reported, fired, answered, rounds>>
vars == <<at, textVars, callVars, graphVars, toolVars>>

Ends == {"over", "sorry", "raised"}

Init ==
  /\ at = "model"
  /\ chunks = 0 /\ content = << >> /\ buf = Idle /\ shown = << >>
  /\ heard = << >> /\ streamed = << >> /\ withheld = << >>
  /\ calls = << >> /\ chunked = FALSE /\ parsed = << >> /\ sent = << >>
  /\ message = << >> /\ iterations = 0 /\ events = << >> /\ cache = {}
  /\ reported = << >> /\ fired = [k \in Keys |-> 0] /\ answered = << >> /\ rounds = 0

-----------------------------------------------------------------------------
(* The dictionary tool_calls.                                                *)

(* An identifier that is there keeps its place and gets the new call.        *)
Register(entries, new) ==
  LET i == SelectInSeq(entries, LAMBDA e : e.id = new.id) IN
  IF i = 0 THEN Append(entries, new) ELSE [entries EXCEPT ![i] = new]

RegisterAll(entries, all) ==
  LET es[n \in 0..Len(all)] == IF n = 0 THEN entries ELSE Register(es[n - 1], all[n])
  IN  es[Len(all)]

Entries(found) == [i \in 1..Len(found) |-> [id |-> RawId(found, i), call |-> found[i]]]

RegisterParse(entries, found) == RegisterAll(entries, Entries(found))

(* _emit_tool_calls_from_raw: each block is parsed for itself.                *)
RegisterBlocks(entries, blocks) ==
  RegisterAll(entries, FlattenSeq([i \in 1..Len(blocks) |-> Entries(Strip(blocks[i]).calls)]))

CallsOf(blocks) == FlattenSeq([i \in 1..Len(blocks) |-> Strip(blocks[i]).calls])

(* Mutant: the name of the tool identifies a structured call.                *)
SentIdByTool(n, c) == <<"sent", ToolOf[c]>>

(* The identifier the model server gave the call, or that of the generation   *)
(* (run_id), which begins when Len(sent) calls were sent.                      *)
SentId(n, c) == IF c \in Unnamed THEN <<"run", Len(sent)>> ELSE <<"sent", n>>

(* A structured call with an identifier that is there is dropped.             *)
RegisterNew(entries, new) ==
  IF \E i \in 1..Len(entries) : entries[i].id = new.id THEN entries
  ELSE Append(entries, new)

SentEntries(answer) ==
  [i \in 1..Len(answer) |-> [id |-> SentId(Len(sent) + i, answer[i]), call |-> answer[i]]]

RegisterAnswer(entries, answer) ==
  LET new == SentEntries(answer)
      es[n \in 0..Len(new)] == IF n = 0 THEN entries ELSE RegisterNew(es[n - 1], new[n])
  IN  es[Len(new)]

-----------------------------------------------------------------------------
(* The agent node.                                                           *)

Chunk ==
  /\ at = "model" /\ chunks < MaxChunks
  /\ \E chunk \in Chunks :
       LET out == Feed(buf, chunk) IN
       /\ content' = content \o chunk
       /\ heard' = heard \o chunk /\ streamed' = streamed \o chunk
       /\ buf' = out.buf
       /\ shown' = shown \o out.text
       /\ withheld' = withheld \o FlattenSeq(out.blocks)
       /\ calls' = RegisterBlocks(calls, out.blocks)
       /\ parsed' = parsed \o CallsOf(out.blocks)
  /\ chunks' = chunks + 1
  /\ UNCHANGED <<at, chunked, sent, graphVars, toolVars>>

(* The node returns the state it was given with a message more.               *)
Return(answer) ==
  /\ at' = "routing"
  /\ content' = << >>
  /\ message' = answer
  /\ iterations' = iterations + iterations
  /\ events' = events \o events
  /\ UNCHANGED <<chunks, cache, toolVars>>

(* The content is looked through again when nothing of it could be shown and  *)
(* there are no structured calls; what follows the first call is left out.  A *)
(* content that comes whole beside structured calls is not looked at.         *)
Finish(whole, answer, pieces) ==
  LET flushed == Flush(buf).blocks
      listed == RegisterAnswer(RegisterBlocks(calls, flushed), answer)
      all == content \o whole
      extract == all # << >> /\ shown = << >> /\ answer = << >> /\ ~pieces
      found == Strip(all)
  IN  /\ buf' = Flush(buf).buf
      /\ heard' = heard \o whole /\ UNCHANGED streamed
      /\ withheld' = withheld \o FlattenSeq(flushed)
      /\ chunked' = pieces
      /\ sent' = sent \o SentEntries(answer)
      /\ IF extract
         THEN /\ shown' = found.text
              /\ calls' = RegisterParse(listed, found.calls)
              /\ parsed' = parsed \o CallsOf(flushed)
                             \o (IF content = << >> THEN found.calls ELSE << >>)
         ELSE /\ shown' = shown
              /\ calls' = listed
              /\ parsed' = parsed \o CallsOf(flushed)

(* on_chat_model_end; pieces: structured calls were streamed in this          *)
(* generation or in an earlier one.                                          *)
EndCall ==
  /\ at = "model"
  /\ \E whole \in Wholes, answer \in Answers, pieces \in BOOLEAN :
       /\ content # << >> => whole = << >>
       /\ chunked => pieces
       /\ Finish(whole, answer, pieces)
       /\ Return(answer)

(* A connection that breaks: the agent makes a message of the error and the   *)
(* generation has no end.                                                    *)
BreakCall ==
  /\ at = "model"
  /\ Return(<< >>)
  /\ UNCHANGED <<buf, shown, heard, streamed, withheld, callVars>>

(* A timeout becomes an apology; a lost server, a context overflow and a      *)
(* cancellation are raised.                                                  *)
Fail ==
  \/ /\ at = "model" /\ at' \in {"sorry", "raised"}
     /\ UNCHANGED <<textVars, callVars, graphVars, toolVars>>
  \/ /\ at = "tools" /\ at' = "raised"
     /\ UNCHANGED <<textVars, callVars, graphVars, toolVars>>

-----------------------------------------------------------------------------
(* make_should_continue_server_tools and the server tool node.               *)

ServerCalls == {i \in 1..Len(message) : ToolOf[message[i]] \in ServerTools}

(* Mutant: the cap counts nothing.                                           *)
MayContinueForever == ServerCalls # {}

MayContinue == iterations < Cap /\ ServerCalls # {}

Route ==
  /\ at = "routing"
  /\ at' = IF MayContinue THEN "tools" ELSE "over"
  /\ UNCHANGED <<textVars, callVars, graphVars, toolVars>>

(* Mutant: calls of one message are not compared.                            *)
KeptAll == ServerCalls

(* dedupe_tool_calls: the first call of each key.                            *)
Kept ==
  {i \in ServerCalls : \A j \in ServerCalls : KeyOf[message[j]] = KeyOf[message[i]] => i <= j}

KeyAt(i) == KeyOf[message[i]]
Missed == {i \in Kept : KeyAt(i) \notin cache}

KeptInOrder ==
  FlattenSeq([i \in 1..Len(message) |-> IF i \in Kept THEN <<message[i]>> ELSE << >>])

(* Mutant: the first event of a round is taken for the last one yielded.      *)
UnseenButOne(raw) == After(raw, Len(reported) + 1)

Unseen(raw) == After(raw, Len(reported))

RunTools ==
  /\ at = "tools" /\ at' = "model"
  /\ fired' = [k \in Keys |-> fired[k] + Cardinality({i \in Missed : KeyAt(i) = k})]
  /\ cache' = cache \cup {KeyAt(i) : i \in Kept}
  /\ answered' = answered \o KeptInOrder
  /\ events' = events \o (events \o KeptInOrder)
  /\ reported' = reported \o Unseen(events \o KeptInOrder)
  /\ iterations' = iterations + 1
  /\ rounds' = rounds + 1
  /\ UNCHANGED <<textVars, callVars, message>>

Done ==
  /\ at \in Ends
  /\ UNCHANGED vars

Next == Chunk \/ EndCall \/ BreakCall \/ Fail \/ Route \/ RunTools \/ Done

Spec == Init /\ [][Next]_vars

-----------------------------------------------------------------------------
(* Identifiers: of a structured call, and of one parsed from text.             *)
SentIds == {"sent", "run"} \X Nat
Ids == ({"raw"} \X Tools \X Nat) \cup SentIds

(* The channels of the graph and the locals of the executor have their types. *)
GraphOK ==
  /\ at \in {"model", "routing", "tools"} \cup Ends
  /\ message \in Seq(Calls)
  /\ iterations \in Nat /\ rounds \in Nat
  /\ cache \subseteq Keys
  /\ fired \in [Keys -> Nat]

TypeOK ==
  /\ GraphOK
  /\ chunks \in 0..MaxChunks
  /\ {content, shown, heard, streamed, withheld} \subseteq Seq(Tokens)
  /\ buf \in [on : BOOLEAN, mode : Modes, pending : Seq(Tokens)]
  /\ buf.on <=> buf.pending # << >>
  /\ calls \in Seq([id : Ids, call : Calls])
  /\ chunked \in BOOLEAN
  /\ sent \in Seq([id : SentIds, call : Calls])
  /\ {parsed, events, reported, answered} \subseteq Seq(Calls)

(* How the model server cuts an answer does not matter: whatever the chunks    *)
(* are, text goes out at once and blocks are held back as if the answer had    *)
(* come whole (RawToolCallStreamBuffer.feed).  Only of the first generation,   *)
(* and of an answer with no other markup than whole XML tags.                  *)
XmlOnly(s) == \A i \in 1..Len(s) : s[i] \in {"<call>", "</call>", "text"} \cup Calls
ChunksAlike ==
  at = "model" /\ rounds = 0 /\ XmlOnly(content) =>
    LET out == CutXml(content) IN
    /\ shown = out.text
    /\ buf.pending = out.buf.pending
    /\ withheld = FlattenSeq(out.blocks)

(* What a model streams is shown, pending, or in a block that was given to the *)
(* parser, whatever the formats it mixes and wherever they are cut (feed, and  *)
(* flush at the end of a generation).  It is not so of a content that comes    *)
(* whole: what follows its first call is dropped (Finish).                     *)
Accounted ==
  \A t \in Tokens :
    Count(shown, t) + Count(withheld, t) + Count(buf.pending, t) >= Count(streamed, t)

(* A call that was parsed is not also text: the client does not read what it    *)
(* is asked to execute (feed, and extraction at the end of a generation).  Of   *)
(* a model that keeps to one format: the end of a generation may fail to parse  *)
(* together, and so show, what the stream parsed one by one.                   *)
Formats == {mode \in Modes : Has(heard, Opening[mode])}
NotBoth ==
  Cardinality(Formats) <= 1 /\ Count(heard, "[CALLS]") <= 1 =>
    \A c \in Calls : Count(shown, c) + Count(parsed, c) <= Count(heard, c)

(* Structured calls that have an entry of their own: those with an identifier,  *)
(* and the first of a generation without one.                                 *)
Entitled(all) ==
  {n \in 1..Len(all) : \/ all[n].call \notin Unnamed
                       \/ \A m \in 1..n - 1 : all[m].id # all[n].id}

(* These calls stay in tool_calls under their keys, once and unchanged, however *)
(* generations go on and whatever else is registered there.                   *)
StructuredKept ==
  \A n \in Entitled(sent) :
    \E i \in 1..Len(calls) :
      /\ calls[i] = sent[n]
      /\ \A j \in 1..Len(calls) : calls[j].id = sent[n].id => j = i

(* The final message has every structured call: the executor "yields a final   *)
(* done=True event with accumulated results".  No run checks it: the code      *)
(* drops the second call of a generation that has no identifier.               *)
NoneDropped ==
  \A c \in Calls :
    Cardinality({i \in 1..Len(calls) : calls[i].id \in SentIds /\ calls[i].call = c})
      = Cardinality({n \in 1..Len(sent) : sent[n].call = c})

(* The same call is executed once in a run: in a message it is deduplicated     *)
(* and in a later round the cache answers it (ServerToolNode.__call__).        *)
FiredOnce == \A k \in Keys : fired[k] <= 1

(* The client is told of every call that was answered, though the list of       *)
(* events doubles and is cut at the number yielded (stream_workflow).          *)
NoneUnreported == \A c \in Calls : Count(reported, c) >= Count(answered, c)

(* A model that calls tools forever is stopped after Cap rounds                *)
(* (make_should_continue_server_tools).                                        *)
RoundsCapped == rounds <= Cap

(* Every call that was parsed from text is in the final list once: the         *)
(* executor "yields a final done=True event with accumulated results".  No run *)
(* checks it: the code gives calls of two blocks one identifier.               *)
CallsOnce ==
  at = "over" => \A c \in Calls :
    Cardinality({i \in 1..Len(calls) : calls[i].id[1] = "raw" /\ calls[i].call = c})
      = Count(parsed, c)
=============================================================================
