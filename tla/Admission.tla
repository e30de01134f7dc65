----------------------------- MODULE Admission -----------------------------
(***************************************************************************)
(* What the priority queue promises the tasks that call it, whatever the   *)
(* priorities, the resource answers and the order of the release passes:   *)
(* a bounded room, in which a request waits and out of which it is         *)
(* admitted at most once.  A request that has been put out of the room     *)
(* while it waited can only give up.                                       *)
(***************************************************************************)
CONSTANTS
  Requests, SessionOf, None,
  HasRoom(_)  \* whether a set of requests leaves room for one more

VARIABLES
  inside,  \* the requests that count against max_size
  stage    \* how far the task of each request is

Stages == {"new", "waiting", "admitted", "over"}

Init ==
  /\ inside = {}
  /\ stage = [r \in Requests |-> "new"]

Without(s) == {x \in inside : SessionOf[x] # s}

Enter(r) ==
  /\ stage[r] = "new"
  /\ HasRoom(inside)
  /\ inside' = inside \cup {r}
  /\ \E next \in {"waiting", "admitted"} : stage' = [stage EXCEPT ![r] = next]

Refuse(r) ==
  /\ stage[r] = "new"
  /\ ~ HasRoom(inside)
  /\ stage' = [stage EXCEPT ![r] = "over"]
  /\ UNCHANGED inside

Admit(r) ==
  /\ stage[r] = "waiting"
  /\ r \in inside
  /\ stage' = [stage EXCEPT ![r] = "admitted"]
  /\ UNCHANGED inside

(* The wait ends without admission; the request is left behind or taken out.  *)
GiveUp(r) ==
  /\ stage[r] = "waiting"
  /\ stage' = [stage EXCEPT ![r] = "over"]
  /\ UNCHANGED inside \/ inside' = inside \ {r}

(* The work of a session is dropped.                                          *)
Drop(s) ==
  /\ s # None
  /\ inside' = Without(s)
  /\ UNCHANGED stage

(* An admitted request ends; it and others that have ended may be taken out.  *)
Finish(r) ==
  /\ stage[r] = "admitted"
  /\ stage' = [stage EXCEPT ![r] = "over"]
  /\ \E ended \in SUBSET inside :
       inside' = inside \ ended /\ \A x \in ended : stage'[x] = "over"

Next ==
  \/ \E r \in Requests :
       Enter(r) \/ Refuse(r) \/ Admit(r) \/ GiveUp(r) \/ Finish(r)
  \/ \E r \in Requests : Drop(SessionOf[r])

vars == <<inside, stage>>

Spec == Init /\ [][Next]_vars
=============================================================================
