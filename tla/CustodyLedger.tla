--------------------------- MODULE CustodyLedger ---------------------------
(***************************************************************************)
(* What the custody protocol promises (ADR-0036), with one ledger entry    *)
(* per task instead of one record per host: a task has one custodian at a  *)
(* time, an untouched task may be offered to another agent, one worker     *)
(* gets to run it, and what that worker reports is final.                  *)
(***************************************************************************)
EXTENDS Naturals

CONSTANTS Agents, Tasks, Workers, Tokens, Details, None

VARIABLES
    custodian,   \* [Tasks -> Agents or None]
    offeredTo,   \* [Tasks -> Agents or None]
    generation,  \* [Tasks -> Nat]: offers made
    runner,      \* [Tasks -> <<worker, token>> or None]
    report       \* [Tasks -> <<state, reason, result>> or None]

ledger == <<custodian, offeredTo, generation, runner, report>>

Init ==
    /\ custodian = [t \in Tasks |-> None]
    /\ offeredTo = [t \in Tasks |-> None]
    /\ generation = [t \in Tasks |-> 0]
    /\ runner = [t \in Tasks |-> None]
    /\ report = [t \in Tasks |-> None]

Register(t, a) ==
    /\ custodian[t] = None
    /\ custodian' = [custodian EXCEPT ![t] = a]
    /\ UNCHANGED <<offeredTo, generation, runner, report>>

Offer(t, a) ==
    /\ custodian[t] \notin {None, a}
    /\ offeredTo[t] = None
    /\ runner[t] = None
    /\ offeredTo' = [offeredTo EXCEPT ![t] = a]
    /\ generation' = [generation EXCEPT ![t] = @ + 1]
    /\ UNCHANGED <<custodian, runner, report>>

Take(t) ==
    /\ offeredTo[t] # None
    /\ custodian' = [custodian EXCEPT ![t] = offeredTo[t]]
    /\ offeredTo' = [offeredTo EXCEPT ![t] = None]
    /\ UNCHANGED <<generation, runner, report>>

Run(t, w, tok) ==
    /\ custodian[t] # None
    /\ offeredTo[t] = None
    /\ runner[t] = None
    /\ \A u \in Tasks : runner[u] # None => runner[u][2] # tok
    /\ runner' = [runner EXCEPT ![t] = <<w, tok>>]
    /\ UNCHANGED <<custodian, offeredTo, generation, report>>

Report(t, outcome) ==
    /\ runner[t] # None
    /\ report[t] = None
    /\ report' = [report EXCEPT ![t] = outcome]
    /\ UNCHANGED <<custodian, offeredTo, generation, runner>>

Outcomes ==
    ({"Blocked"} \X Details \X {None}) \cup ({"Completed", "Failed"} \X {None} \X Details)

Next ==
    \E t \in Tasks :
        \/ \E a \in Agents : Register(t, a) \/ Offer(t, a)
        \/ Take(t)
        \/ \E w \in Workers, tok \in Tokens : Run(t, w, tok)
        \/ \E o \in Outcomes : Report(t, o)

Spec == Init /\ [][Next]_ledger
=============================================================================
