---------------------------- MODULE MCModelPool ----------------------------
(* Instances of ModelPool for TLC.                                         *)
EXTENDS ModelPool, TLC

CONSTANTS c1, c2, p1, p2

MCProviders == Permutations({p1, p2})
=============================================================================
