--------------------------- MODULE MCConfigTiers ----------------------------
(* Instances of ConfigTiers for TLC.                                         *)
EXTENDS ConfigTiers, TLC

CONSTANTS w1, w2, r1, r2, u1, u2

(* Each worker has a reader and an update.                                   *)
MCHomeOf == (r1 :> w1) @@ (r2 :> w2) @@ (u1 :> w1) @@ (u2 :> w2)
=============================================================================
