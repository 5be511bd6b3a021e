--------------------------- MODULE MCTaskCustody ---------------------------
(* Instances of TaskCustody for TLC.                                       *)
EXTENDS TaskCustody, TLC

CONSTANTS a1, a2, a3, h1, h2, h3, t1, w1, w2

(* One agent per host.                                                     *)
MCHost == (a1 :> h1) @@ (a2 :> h2)
MCHost3 == (a1 :> h1) @@ (a2 :> h2) @@ (a3 :> h3)
MCOrigin == t1 :> a1

(* Callers, workers, handoff ids and tokens are interchangeable.           *)
Symmetry ==
    Permutations(Callers) \cup Permutations(Workers)
    \cup Permutations(HandoffIds) \cup Permutations(Tokens)
=============================================================================
