-------------------------- MODULE MCCompletionTurn ---------------------------
(* Instances of CompletionTurn for TLC.                                      *)
EXTENDS CompletionTurn, TLC

CONSTANTS r1, r2, k1

(* Two requests of one session.                                              *)
OneSession == (r1 :> k1) @@ (r2 :> k1)
(* Only the turn of r1 makes a secondary pass.                               *)
OnePass == (r1 :> 1) @@ (r2 :> 0)

NoPass == (r1 :> 0) @@ (r2 :> 0)
=============================================================================
