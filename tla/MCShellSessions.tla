-------------------------- MODULE MCShellSessions --------------------------
(* Instances of ShellSessions for TLC.                                     *)
EXTENDS ShellSessions, TLC

CONSTANTS c1, c2

MCSymmetry == Permutations({c1, c2})
=============================================================================
