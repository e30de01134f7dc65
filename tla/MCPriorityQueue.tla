-------------------------- MODULE MCPriorityQueue --------------------------
(* Instances of PriorityQueue for TLC.                                       *)
EXTENDS PriorityQueue, TLC

CONSTANTS r1, r2, r3, s1, s2, m1, m2

(* Two requests of one session and one of another, over two models; the first *)
(* is interactive, the second a background request for the same model.        *)
MCSessionOf == (r1 :> s1) @@ (r2 :> s2) @@ (r3 :> s2)
MCModelOf == (r1 :> m1) @@ (r2 :> m1) @@ (r3 :> m2)
MCFirstPriority == (r1 :> High) @@ (r2 :> Low) @@ (r3 :> Medium)

(* A smaller instance for liveness: no sessions, one background request.      *)
LiveSessionOf == (r1 :> None) @@ (r2 :> None) @@ (r3 :> None)
LiveFirstPriority == (r1 :> High) @@ (r2 :> Low) @@ (r3 :> High)
=============================================================================
