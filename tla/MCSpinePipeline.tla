-------------------------- MODULE MCSpinePipeline --------------------------
(* Instances of SpinePipeline for TLC.                                     *)
EXTENDS SpinePipeline, TLC

CONSTANTS c1

(* All messages in one chat.                                               *)
MCOneChat == [m \in Messages |-> c1]
=============================================================================
