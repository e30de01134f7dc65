---------------------------- MODULE ToolCallText ----------------------------
(***************************************************************************)
(* Tool calls a model writes into its text: RawToolCallStreamBuffer, which *)
(* holds a block back until it is closed, and RawToolCallParser, which     *)
(* makes calls of a block.  Text is a sequence of tokens: a tag, a marker, *)
(* a piece of ordinary text or the JSON of one call.                       *)
(***************************************************************************)
EXTENDS Integers, Sequences, SequencesExt

CONSTANTS
  Calls,    \* what a model may call: a tool with arguments
  Tools,    \* the names of tools
  ToolOf    \* the tool each call names

(* "<ca" and "ll>" are an opening tag that the tokenizer has split; "{" stands *)
(* for {"name": ..., "arguments":; the marker "[CALLS]" is [TOOL_CALLS].       *)
Tags == {"<call>", "</call>", "<ca", "ll>", "{", "}", "[CALLS]", "]"}
Tokens == Tags \cup {"text"} \cup Calls

ASSUME TextAssumption ==
  /\ ToolOf \in [Calls -> Tools]
  /\ Calls \cap (Tags \cup {"text"}) = {}

Modes == {"xml", "mistral", "json"}
Opening == [xml |-> "<call>", mistral |-> "[CALLS]", json |-> "{"]

First(s, tag) == SelectInSeq(s, LAMBDA t : t = tag)
After(s, i) == SubSeq(s, i + 1, Len(s))
Upto(s, i) == SubSeq(s, 1, i)
Has(s, tag) == First(s, tag) # 0
Count(s, t) == Cardinality({i \in 1..Len(s) : s[i] = t})

-----------------------------------------------------------------------------
(* RawToolCallStreamBuffer: buffering, mode and pending; what a feed lets out *)
(* is text and complete blocks.                                              *)

Idle == [on |-> FALSE, mode |-> "xml", pending |-> << >>]

Output(buf, text, blocks) == [buf |-> buf, text |-> text, blocks |-> blocks]

(* Mutant: what is held is shown as well.                                    *)
ResumeBoth(mode, rest, blocks) ==
  LET i == First(rest, Opening[mode]) IN
  IF i = 0 THEN Output([Idle EXCEPT !.mode = mode], rest, blocks)
  ELSE Output([on |-> TRUE, mode |-> mode, pending |-> After(rest, i - 1)], rest, blocks)

(* Looking for a tag in what follows a block: hold from there, show the rest. *)
Resume(mode, rest, blocks) ==
  LET i == First(rest, Opening[mode]) IN
  IF i = 0 THEN Output([Idle EXCEPT !.mode = mode], rest, blocks)
  ELSE Output([on |-> TRUE, mode |-> mode, pending |-> After(rest, i - 1)],
              Upto(rest, i - 1), blocks)

(* XML: block after block, until one is not closed.                          *)
XmlStep(out, t) ==
  IF out.buf.on
  THEN LET held == Append(out.buf.pending, t) IN
       IF t = "</call>"
       THEN Output(Idle, out.text, Append(out.blocks, held))
       ELSE [out EXCEPT !.buf.pending = held]
  ELSE IF t = "<call>"
       THEN [out EXCEPT !.buf = [on |-> TRUE, mode |-> "xml", pending |-> <<t>>]]
       ELSE [out EXCEPT !.text = Append(@, t)]

CutXml(pending) ==
  LET out[n \in 0..Len(pending)] ==
        IF n = 0 THEN Output(Idle, << >>, << >>) ELSE XmlStep(out[n - 1], pending[n])
  IN  out[Len(pending)]

Depth(s) == Count(s, "{") - Count(s, "}")

(* JSON: one object whose braces match; another one stays for the next feed.  *)
BalancedAt(s, i) == s[i] = "}" /\ Depth(Upto(s, i)) = 0
FirstBalanced(s) ==
  LET ends == {i \in 1..Len(s) : BalancedAt(s, i)} IN
  IF ends = {} THEN 0 ELSE Min(ends)

CutJson(pending) ==
  LET i == FirstBalanced(pending) IN
  IF i = 0 THEN Output([on |-> TRUE, mode |-> "json", pending |-> pending], << >>, << >>)
  ELSE Resume("json", After(pending, i), <<Upto(pending, i)>>)

(* Mistral: up to the last "]"; the marker ends in one itself.                *)
LastBracket(s) == SelectLastInSeq(s, LAMBDA t : t \in {"]", "[CALLS]"})

CutMistral(pending) ==
  LET i == LastBracket(pending) IN
  Output([Idle EXCEPT !.mode = "mistral"], After(pending, i), <<Upto(pending, i)>>)

Cut(mode, pending) ==
  CASE mode = "xml" -> CutXml(pending)
    [] mode = "json" -> CutJson(pending)
    [] mode = "mistral" -> CutMistral(pending)

(* What a chunk opens: the modes are tried in this order, on the chunk alone.  *)
Opens(chunk) ==
  IF Has(chunk, "<call>") THEN "xml"
  ELSE IF Has(chunk, "[CALLS]") THEN "mistral"
  ELSE IF Has(chunk, "{") THEN "json"
  ELSE "none"

(* Mutant: what precedes the tag is dropped with it.                          *)
FeedNoPrefix(buf, chunk) ==
  IF buf.on THEN Cut(buf.mode, buf.pending \o chunk)
  ELSE IF Opens(chunk) = "none" THEN Output(buf, chunk, << >>)
  ELSE LET mode == Opens(chunk)
           i == First(chunk, Opening[mode]) IN Cut(mode, After(chunk, i - 1))

(* Mutant: each chunk is looked at alone.                                    *)
FeedForgetful(buf, chunk) ==
  IF Opens(chunk) = "none" THEN Output(buf, chunk, << >>)
  ELSE LET mode == Opens(chunk)
           i == First(chunk, Opening[mode])
           out == Cut(mode, buf.pending \o After(chunk, i - 1))
       IN  [out EXCEPT !.text = Upto(chunk, i - 1) \o @]

Feed(buf, chunk) ==
  IF buf.on THEN Cut(buf.mode, buf.pending \o chunk)
  ELSE IF Opens(chunk) = "none" THEN Output(buf, chunk, << >>)
  ELSE LET mode == Opens(chunk)
           i == First(chunk, Opening[mode])
           out == Cut(mode, After(chunk, i - 1))
       IN  [out EXCEPT !.text = Upto(chunk, i - 1) \o @]

(* Mutant: the buffer stays open.                                            *)
FlushHalf(buf) ==
  IF buf.on THEN Output([buf EXCEPT !.pending = << >>], << >>, <<buf.pending>>)
  ELSE Output(buf, << >>, << >>)

(* At the end of a generation an open block counts as a whole one.            *)
Flush(buf) ==
  IF buf.on THEN Output(Idle, << >>, <<buf.pending>>) ELSE Output(buf, << >>, << >>)

-----------------------------------------------------------------------------
(* RawToolCallParser.strip_raw_tool_calls.                                   *)

(* A block is parsed if its call and nothing else is in it.  A tag may be left *)
(* open at the end, a brace or a bracket may not.                            *)
XmlCall(block) ==
  IF \E c \in Calls : block \in {<<"<call>", c>>, <<"<call>", c, "</call>">>}
  THEN <<block[2]>> ELSE << >>

XmlCalls(s) ==
  LET out == CutXml(s)
      all == IF out.buf.on THEN Append(out.blocks, out.buf.pending) ELSE out.blocks
  IN  FlattenSeq([i \in 1..Len(all) |-> XmlCall(all[i])])

MistralCalls(s) ==
  LET i == LastBracket(s) IN
  IF s[i] = "]" /\ \A k \in 2..i - 1 : s[k] \in Calls THEN SubSeq(s, 2, i - 1) ELSE << >>

(* Objects one after another, until something else comes.                    *)
JsonStep(out, t) ==
  LET held == Append(out.held, t) IN
  IF out.held = << >> /\ t # "{" THEN [out EXCEPT !.over = TRUE]
  ELSE IF out.over \/ Depth(held) > 0 THEN [out EXCEPT !.held = held]
  ELSE [out EXCEPT !.held = << >>,
                   !.calls = IF Len(held) = 3 /\ held[2] \in Calls THEN Append(@, held[2]) ELSE @]

JsonCalls(s) ==
  LET out[n \in 0..Len(s)] ==
        IF n = 0 THEN [held |-> << >>, calls |-> << >>, over |-> FALSE]
        ELSE JsonStep(out[n - 1], s[n])
  IN  out[Len(s)].calls

From(s, tag) == After(s, First(s, tag) - 1)

(* The text before the calls, and the calls; all is text if there is none.    *)
Strip(s) ==
  LET xml == IF Has(s, "<call>") THEN XmlCalls(From(s, "<call>")) ELSE << >>
      mistral == IF Has(s, "[CALLS]") THEN MistralCalls(From(s, "[CALLS]")) ELSE << >>
      json == IF Has(s, "{") THEN JsonCalls(From(s, "{")) ELSE << >>
      Before(tag) == Upto(s, First(s, tag) - 1)
  IN  IF xml # << >> THEN [text |-> Before("<call>"), calls |-> xml]
      ELSE IF mistral # << >> THEN [text |-> Before("[CALLS]"), calls |-> mistral]
      ELSE IF json # << >> THEN [text |-> Before("{"), calls |-> json]
      ELSE [text |-> s, calls |-> << >>]

(* The calls of one parse are numbered from 0, and the number and the name of *)
(* the tool are all of their execution_id.                                   *)
RawId(calls, i) == <<"raw", ToolOf[calls[i]], i - 1>>
=============================================================================
