----------------------------- MODULE MCModelMap -----------------------------
(* Instances of ModelMap for TLC: one runner (a refresh that waits for others *)
(* too is one that writes late) and four scheduled refreshes at a time.       *)
EXTENDS ModelMap

CONSTANTS e1, t1, t2, t3, t4, c1
=============================================================================
