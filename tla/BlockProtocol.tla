--------------------------- MODULE BlockProtocol ----------------------------
(***************************************************************************)
(* What a streamed answer promises its client: content blocks are numbered *)
(* in the order they start, a delta goes to an open block of its kind, a   *)
(* block stops once, tool calls come last, and the message ends when every *)
(* block is closed, or is cut off.                                         *)
(***************************************************************************)
EXTENDS Naturals, Sequences

Kinds == {"thinking", "text", "tool_use"}

VARIABLES
  blocks,  \* the blocks started so far: their kinds, and whether they are open
  phase,   \* "open"; "ended" by message_delta; "over" by message_stop; "cut"
  last     \* the event received last

vars == <<blocks, phase, last>>

(* The events of a stream after message_start and ping.                       *)
StartOf(i, k) == [type |-> "start", index |-> i, kind |-> k]
DeltaTo(i, k) == [type |-> "delta", index |-> i, kind |-> k]
StopOf(i, k) == [type |-> "stop", index |-> i, kind |-> k]
EndFor(reason) == [type |-> "end", index |-> 0, kind |-> reason]
Over == [type |-> "over", index |-> 0, kind |-> "none"]
Begun == [type |-> "begin", index |-> 0, kind |-> "none"]

Init == blocks = << >> /\ phase = "open" /\ last = Begun

Start(k) ==
  /\ phase = "open"
  /\ k # "tool_use" => \A i \in 1..Len(blocks) : blocks[i].kind # "tool_use"
  /\ last' = StartOf(Len(blocks) + 1, k)
  /\ blocks' = Append(blocks, [kind |-> k, open |-> TRUE])
  /\ UNCHANGED phase

Delta(i) ==
  /\ phase = "open" /\ blocks[i].open
  /\ last' = DeltaTo(i, blocks[i].kind)
  /\ UNCHANGED <<blocks, phase>>

Stop(i) ==
  /\ phase = "open" /\ blocks[i].open
  /\ last' = StopOf(i, blocks[i].kind)
  /\ blocks' = [blocks EXCEPT ![i].open = FALSE]
  /\ UNCHANGED phase

End ==
  /\ phase = "open"
  /\ \A i \in 1..Len(blocks) : ~blocks[i].open
  /\ \E reason \in {"end_turn", "tool_use", "max_tokens", "incomplete_turn"} :
       last' = EndFor(reason)
  /\ phase' = "ended"
  /\ UNCHANGED blocks

Finish ==
  /\ phase = "ended" /\ phase' = "over"
  /\ last' = Over
  /\ UNCHANGED blocks

Cut ==
  /\ phase \in {"open", "ended"} /\ phase' = "cut"
  /\ UNCHANGED <<blocks, last>>

Next ==
  \/ \E k \in Kinds : Start(k)
  \/ \E i \in 1..Len(blocks) : Delta(i) \/ Stop(i)
  \/ End \/ Finish \/ Cut

Spec == Init /\ [][Next]_vars
=============================================================================
