-------------------------- MODULE MCTaskLifecycle --------------------------
(* Instances of TaskLifecycle for TLC.                                     *)
EXTENDS TaskLifecycle, TLC

CONSTANTS t1, t2, c1, c2

MCSymmetry == Permutations({t1, t2}) \cup Permutations({c1, c2})
=============================================================================
