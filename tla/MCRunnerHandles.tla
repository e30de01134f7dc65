-------------------------- MODULE MCRunnerHandles ---------------------------
(* Instances of RunnerHandles for TLC.                                       *)
EXTENDS RunnerHandles, TLC

CONSTANTS r1, r2, r3, e1, e2

Interchangeable == Permutations(Requests)
=============================================================================
