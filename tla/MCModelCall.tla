---------------------------- MODULE MCModelCall ----------------------------
(* Instances of ModelCall for TLC.                                         *)
EXTENDS ModelCall, TLC

CONSTANTS m1, m2, m3, b1, b2, c1, c2

MCSymmetry == Permutations(Models) \cup Permutations(Bases) \cup Permutations(Callers)
=============================================================================
