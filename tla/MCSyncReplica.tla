--------------------------- MODULE MCSyncReplica ---------------------------
(* Instances of SyncReplica for TLC.                                       *)
EXTENDS SyncReplica, TLC

CONSTANTS d1, d2, d3

MCSymmetry == Permutations({d1, d2, d3})
=============================================================================
