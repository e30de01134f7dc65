------------------------- MODULE MCSessionLifecycle -------------------------
(* Instances of SessionLifecycle for TLC.                                    *)
EXTENDS SessionLifecycle, TLC

CONSTANTS r1, r2, r3, r4, s1, s2

(* Two requests share a session, a third has its own, the fourth has none.   *)
SharedSession == (r1 :> s1) @@ (r2 :> s1) @@ (r3 :> s2) @@ (r4 :> None)
=============================================================================
