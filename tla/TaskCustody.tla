---------------------------- MODULE TaskCustody ----------------------------
(***************************************************************************)
(* Durable task custody, crates/radix-core/src/task_handoff.rs, and the    *)
(* verbs that reach it, spine/task_handoff_actions.rs.                     *)
(*                                                                         *)
(* Every host keeps one ConditionalTaskStore.  An operation on it reads    *)
(* the task's record WITHOUT the lock, decides on that snapshot, and then  *)
(* asks `cas` to swap the snapshot for the next record under the lock; if  *)
(* the record moved meanwhile the operation starts over.  The two halves   *)
(* are separate steps here, so the calls of all callers interleave between *)
(* them.  Hosts exchange envelopes as files: an envelope once issued may   *)
(* be delivered late, often, never, or damaged.  Records are durable,      *)
(* calls are not: a caller can die between any two of its steps.           *)
(***************************************************************************)
EXTENDS Integers, FiniteSets

CONSTANTS
    Agents,      \* agent ids
    Hosts,       \* hosts, one store each
    Host,        \* [Agents -> Hosts]: where an agent's store lives
    Tasks,       \* task ids (a TransferableTask is its id here)
    Origin,      \* [Tasks -> Agents]: the agent that creates the task
    Workers,     \* worker ids
    Tokens,      \* claim tokens (Uuid::new_v4)
    HandoffIds,  \* idempotency keys of exports
    Details,     \* blocked reasons and results
    Callers,     \* threads calling into the stores
    MaxGen,      \* the largest generation a request names
    Damaged,     \* the targets a damaged envelope may show
    None         \* the absent value

ASSUME CustodyConstants ==
    /\ Host \in [Agents -> Hosts]
    /\ Origin \in [Tasks -> Agents]
    /\ MaxGen \in Nat
    /\ Damaged \subseteq Agents
    /\ None \notin Agents \cup Workers \cup Tokens \cup HandoffIds \cup Details

VARIABLES
    rec,       \* [Hosts -> [Tasks -> CustodyRecord or None]], the stores
    net,       \* the envelopes in transit; one never leaves
    phase,     \* where each caller's call stands
    call,      \* the request each caller is serving
    seen,      \* the snapshot it decided on
    claims,    \* claims a caller has been told it holds
    outcomes,  \* updates a caller has been told were recorded
    imports    \* the answers to accept: <<envelope, answer>>

vars == <<rec, net, phase, call, seen, claims, outcomes, imports>>
told == <<claims, outcomes, imports>>

ExecutionState == {"Open", "InProgress", "Blocked", "Completed", "Failed", "Cancelled"}
Terminal == {"Completed", "Failed", "Cancelled"}

(* The record without its digest.  Its own digest is the record itself:    *)
(* blake3 is taken to be injective.                                        *)
Unsigned ==
    [task : Tasks, owner : Agents, target : Agents \cup {None},
     hid : HandoffIds \cup {None}, generation : Nat,
     custody : {"Owned", "TransferPending"}, exec : ExecutionState,
     worker : Workers \cup {None}, token : Tokens \cup {None},
     reason : Details \cup {None}, result : Details \cup {None},
     digest : {None}]

CustodyRecord ==
    [task : Tasks, owner : Agents, target : Agents \cup {None},
     hid : HandoffIds \cup {None}, generation : Nat,
     custody : {"Owned", "TransferPending"}, exec : ExecutionState,
     worker : Workers \cup {None}, token : Tokens \cup {None},
     reason : Details \cup {None}, result : Details \cup {None},
     digest : Unsigned \cup {None}]

HandoffEnvelope == [record : CustodyRecord, digest : Unsigned]

ASSUME NoneIsNoRecord == None \notin CustodyRecord /\ None \notin Unsigned
ASSUME NoneIsNoPair == None \notin Workers \X (Tokens \cup {None})

DigestOf(r) == [r EXCEPT !.digest = None]

Verified(e) == e.record.digest = e.digest /\ DigestOf(e.record) = e.digest

(* Requests: the arguments of the public operations.                       *)
PrepareRequest ==
    {q \in [op : {"prepare"}, host : Hosts, task : Tasks, source : Agents,
            target : Agents, hid : HandoffIds, generation : 0..MaxGen, seeds : BOOLEAN] :
        /\ q.host = Host[q.source]
        /\ q.seeds => q.source = Origin[q.task]}

ClaimRequest ==
    {q \in [op : {"claim"}, host : Hosts, task : Tasks, agent : Agents,
            worker : Workers, generation : 0..MaxGen] : q.host = Host[q.agent]}

(* set_blocked carries a reason, complete_claimed and fail_claimed a       *)
(* result.                                                                 *)
UpdateRequest ==
    [op : {"update"}, host : Hosts, task : Tasks, token : Tokens, exec : {"Blocked"},
     reason : Details, result : {None}]
    \cup
    [op : {"update"}, host : Hosts, task : Tasks, token : Tokens, exec : {"Completed", "Failed"},
     reason : {None}, result : Details]

AcceptRequest ==
    {q \in [op : {"accept"}, host : Hosts, task : Tasks, target : Agents, env : net] :
        q.host = Host[q.target] /\ q.task = q.env.record.task}

----------------------------------------------------------------------------
Init ==
    /\ rec = [h \in Hosts |-> [t \in Tasks |-> None]]
    /\ net = {}
    /\ phase = [c \in Callers |-> "idle"]
    /\ call = [c \in Callers |-> None]
    /\ seen = [c \in Callers |-> None]
    /\ claims = {}
    /\ outcomes = {}
    /\ imports = {}

(* The record the caller's request is about, as it is now.                 *)
Current(c) == rec[call[c].host][call[c].task]

At(c, op, p) == phase[c] = p /\ call[c].op = op

(* The caller returns: its call is over, whatever the answer.              *)
Return(c) ==
    /\ phase' = [phase EXCEPT ![c] = "idle"]
    /\ call' = [call EXCEPT ![c] = None]
    /\ seen' = [seen EXCEPT ![c] = None]

Start(c, q, p) ==
    /\ phase[c] = "idle"
    /\ phase' = [phase EXCEPT ![c] = p]
    /\ call' = [call EXCEPT ![c] = q]
    /\ UNCHANGED <<rec, net, seen, told>>

(* The decision was "swap": remember the snapshot and go for the lock.     *)
GoSwap(c) ==
    /\ phase' = [phase EXCEPT ![c] = "swap"]
    /\ seen' = [seen EXCEPT ![c] = Current(c)]
    /\ UNCHANGED <<rec, net, call, told>>

(* Mutant: a plain put where the code has cas.                             *)
PlainPut(c) == TRUE

(* cas, under the lock: did the record stay what the caller saw?           *)
Unmoved(c) == Current(c) = seen[c]

Write(c, r) == rec' = [rec EXCEPT ![call[c].host][call[c].task] = r]

(* Mutant: cas also answers false when it could not get at the store.      *)
RetryBusy(c) ==
    /\ phase' = [phase EXCEPT ![c] = "read"]
    /\ seen' = [seen EXCEPT ![c] = None]
    /\ UNCHANGED <<rec, net, call, told>>

(* cas returned false: the loop reads again.                               *)
Retry(c) ==
    /\ ~ Unmoved(c)
    /\ phase' = [phase EXCEPT ![c] = "read"]
    /\ seen' = [seen EXCEPT ![c] = None]
    /\ UNCHANGED <<rec, net, call, told>>

----------------------------------------------------------------------------
(* prepare_task_handoff: an optional seed_owned, then prepare_handoff.     *)

SeedRecord(t, a) ==
    [task |-> t, owner |-> a, target |-> None, hid |-> None, generation |-> 0,
     custody |-> "Owned", exec |-> "Open", worker |-> None, token |-> None,
     reason |-> None, result |-> None, digest |-> None]

(* The verb starts by seeding when its parameters carry the whole task.    *)
PrepareCall(c, q) == Start(c, q, IF q.seeds THEN "seed" ELSE "read")

(* cas with nothing expected; a task already there makes it a no-op, and   *)
(* the verb ignores what seed_owned answers.                               *)
SeedOwned(c) ==
    /\ At(c, "prepare", "seed")
    /\ IF Current(c) = None
       THEN Write(c, SeedRecord(call[c].task, call[c].source))
       ELSE UNCHANGED rec
    /\ phase' = [phase EXCEPT ![c] = "read"]
    /\ UNCHANGED <<net, call, seen, told>>

(* The same export again: the envelope is issued again.                    *)
PrepareReplay(q, r) ==
    /\ q.source # q.target
    /\ r # None
    /\ r.custody = "TransferPending"
    /\ r.owner = q.source /\ r.target = q.target /\ r.hid = q.hid
    /\ r.generation = q.generation + 1

(* Mutant: exports a task that a worker has claimed.                       *)
PrepareClaimed(q, r) ==
    /\ q.source # q.target
    /\ r # None
    /\ r.custody # "TransferPending"
    /\ r.owner = q.source /\ r.generation = q.generation

PrepareAllowed(q, r) ==
    /\ q.source # q.target
    /\ r # None
    /\ r.custody # "TransferPending"
    /\ r.exec = "Open" /\ r.owner = q.source /\ r.generation = q.generation

(* Mutant: the generation is not advanced.                                 *)
OfferedSameGeneration(q, r) ==
    LET pending == [r EXCEPT !.custody = "TransferPending", !.target = q.target,
                             !.hid = q.hid, !.digest = None]
    IN [pending EXCEPT !.digest = DigestOf(pending)]

Offered(q, r) ==
    LET pending == [r EXCEPT !.custody = "TransferPending", !.target = q.target,
                             !.hid = q.hid, !.generation = @ + 1, !.digest = None]
    IN [pending EXCEPT !.digest = DigestOf(pending)]

Envelope(r) == [record |-> r, digest |-> DigestOf(r)]

PrepareRead(c) ==
    /\ At(c, "prepare", "read")
    /\ LET q == call[c]
           r == Current(c)
       IN \/ /\ PrepareReplay(q, r)
             /\ net' = net \cup {Envelope(r)}
             /\ Return(c)
             /\ UNCHANGED <<rec, told>>
          \/ PrepareAllowed(q, r) /\ GoSwap(c)
          \/ /\ ~ PrepareReplay(q, r) /\ ~ PrepareAllowed(q, r)   \* an error
             /\ Return(c)
             /\ UNCHANGED <<rec, net, told>>

PrepareSwap(c) ==
    /\ At(c, "prepare", "swap")
    /\ \/ /\ Unmoved(c)
          /\ Write(c, Offered(call[c], seen[c]))
          /\ net' = net \cup {Envelope(Offered(call[c], seen[c]))}
          /\ Return(c)
          /\ UNCHANGED told
       \/ Retry(c)

----------------------------------------------------------------------------
(* accept_task_handoff.                                                    *)

AcceptCall(c, q) ==
    /\ Verified(q.env)
    /\ q.env.record.custody = "TransferPending"
    /\ q.env.record.target = q.target
    /\ Start(c, q, "swap")

Accepted(q) ==
    [q.env.record EXCEPT !.owner = q.target, !.target = None, !.custody = "Owned"]

(* Insert-only: there must be no record.                                   *)
AcceptInsert(c) ==
    /\ At(c, "accept", "swap")
    /\ \/ /\ Current(c) = None
          /\ Write(c, Accepted(call[c]))
          /\ imports' = imports \cup {<<call[c].env, "ok">>}
          /\ Return(c)
          /\ UNCHANGED <<net, claims, outcomes>>
       \/ /\ Current(c) # None
          /\ phase' = [phase EXCEPT ![c] = "inspect"]
          /\ UNCHANGED <<rec, net, call, seen, told>>

(* The insert failed: a second, unlocked read tells a replay of this very  *)
(* import from a conflict.                                                 *)
AcceptInspect(c) ==
    /\ At(c, "accept", "inspect")
    /\ LET answer == IF Current(c) = Accepted(call[c]) THEN "ok" ELSE "conflict"
       IN imports' = imports \cup {<<call[c].env, answer>>}
    /\ Return(c)
    /\ UNCHANGED <<rec, net, claims, outcomes>>

----------------------------------------------------------------------------
(* conditional_claim_task.                                                 *)

Claim(q, r) == [task |-> q.task, worker |-> q.worker, token |-> r.token]

ClaimReplay(q, r) ==
    /\ r # None
    /\ r.exec = "InProgress"
    /\ r.owner = q.agent /\ r.worker = q.worker /\ r.generation = q.generation
    /\ r.token # None

(* Mutant: claims a task whatever its execution state.                     *)
ClaimAnyState(q, r) ==
    /\ r # None
    /\ r.custody = "Owned"
    /\ r.owner = q.agent /\ r.generation = q.generation

ClaimAllowed(q, r) ==
    /\ r # None
    /\ r.custody = "Owned" /\ r.exec = "Open"
    /\ r.owner = q.agent /\ r.generation = q.generation

ClaimCall(c, q) == Start(c, q, "read")

ClaimRead(c) ==
    /\ At(c, "claim", "read")
    /\ LET q == call[c]
           r == Current(c)
       IN \/ /\ ClaimReplay(q, r)
             /\ claims' = claims \cup {Claim(q, r)}
             /\ Return(c)
             /\ UNCHANGED <<rec, net, outcomes, imports>>
          \/ ClaimAllowed(q, r) /\ GoSwap(c)
          \/ /\ ~ ClaimReplay(q, r) /\ ~ ClaimAllowed(q, r)
             /\ Return(c)
             /\ UNCHANGED <<rec, net, told>>

(* A fresh token differs from every token in a store.                      *)
Fresh(tok) == \A h \in Hosts, t \in Tasks : rec[h][t] # None => rec[h][t].token # tok

Claimed(q, r, tok) == [r EXCEPT !.exec = "InProgress", !.worker = q.worker, !.token = tok]

ClaimSwap(c) ==
    /\ At(c, "claim", "swap")
    /\ \/ \E tok \in Tokens :
            /\ Fresh(tok)
            /\ Unmoved(c)
            /\ Write(c, Claimed(call[c], seen[c], tok))
            /\ claims' = claims \cup {Claim(call[c], Claimed(call[c], seen[c], tok))}
            /\ Return(c)
            /\ UNCHANGED <<net, outcomes, imports>>
       \/ Retry(c)

----------------------------------------------------------------------------
(* set_blocked, complete_claimed, fail_claimed: update_claimed.            *)

Outcome(q) == [task |-> q.task, exec |-> q.exec, reason |-> q.reason, result |-> q.result]

UpdateReplay(q, r) ==
    /\ r # None
    /\ r.token = q.token
    /\ r.exec \in Terminal
    /\ r.exec = q.exec /\ r.reason = q.reason /\ r.result = q.result

(* Mutant: a terminal record can be updated again.                         *)
UpdateAgain(q, r) == r # None /\ r.token = q.token /\ r.exec # "Open"

UpdateAllowed(q, r) == r # None /\ r.token = q.token /\ r.exec = "InProgress"

Updated(q, r) == [r EXCEPT !.exec = q.exec, !.reason = q.reason, !.result = q.result]

UpdateCall(c, q) == Start(c, q, "read")

UpdateRead(c) ==
    /\ At(c, "update", "read")
    /\ LET q == call[c]
           r == Current(c)
       IN \/ /\ UpdateReplay(q, r)
             /\ outcomes' = outcomes \cup {Outcome(q)}
             /\ Return(c)
             /\ UNCHANGED <<rec, net, claims, imports>>
          \/ UpdateAllowed(q, r) /\ GoSwap(c)
          \/ /\ ~ UpdateReplay(q, r) /\ ~ UpdateAllowed(q, r)
             /\ Return(c)
             /\ UNCHANGED <<rec, net, told>>

UpdateSwap(c) ==
    /\ At(c, "update", "swap")
    /\ \/ /\ Unmoved(c)
          /\ Write(c, Updated(call[c], seen[c]))
          /\ outcomes' = outcomes \cup {Outcome(call[c])}
          /\ Return(c)
          /\ UNCHANGED <<net, claims, imports>>
       \/ Retry(c)

----------------------------------------------------------------------------
(* The environment.                                                        *)

(* A copy of an envelope arrives with another target in it.                *)
Damage(e, a) ==
    /\ Verified(e)
    /\ e.record.target # a
    /\ net' = net \cup {[e EXCEPT !.record.target = a]}
    /\ UNCHANGED <<rec, phase, call, seen, told>>

(* A host stops and restarts: its calls are gone, its store is not.        *)
Crash(h) ==
    LET lost == {c \in Callers : phase[c] # "idle" /\ call[c].host = h}
    IN /\ lost # {}
       /\ phase' = [c \in Callers |-> IF c \in lost THEN "idle" ELSE phase[c]]
       /\ call' = [c \in Callers |-> IF c \in lost THEN None ELSE call[c]]
       /\ seen' = [c \in Callers |-> IF c \in lost THEN None ELSE seen[c]]
       /\ UNCHANGED <<rec, net, told>>

Issue(c) ==
    \/ \E q \in PrepareRequest : PrepareCall(c, q)
    \/ \E q \in AcceptRequest : AcceptCall(c, q)
    \/ \E q \in ClaimRequest : ClaimCall(c, q)
    \/ \E q \in UpdateRequest : UpdateCall(c, q)

Serve(c) ==
    \/ SeedOwned(c)
    \/ PrepareRead(c)
    \/ PrepareSwap(c)
    \/ AcceptInsert(c)
    \/ AcceptInspect(c)
    \/ ClaimRead(c)
    \/ ClaimSwap(c)
    \/ UpdateRead(c)
    \/ UpdateSwap(c)

Next ==
    \/ \E c \in Callers : Issue(c) \/ Serve(c)
    \/ \E e \in net, a \in Damaged : Damage(e, a)
    \/ \E h \in Hosts : Crash(h)

Spec == Init /\ [][Next]_vars

(* A thread that has entered an operation keeps being scheduled; nobody is *)
(* obliged to call.                                                        *)
FairSpec == Spec /\ \A c \in Callers : WF_vars(Serve(c))
----------------------------------------------------------------------------
(* Properties.                                                             *)

Requests ==
    PrepareRequest \cup ClaimRequest \cup UpdateRequest
    \cup [op : {"accept"}, host : Hosts, task : Tasks, target : Agents, env : HandoffEnvelope]

(* Every variable keeps its shape, a caller has a request while, and only  *)
(* while, it is in an operation, and nobody compares against no snapshot.  *)
TypeOK ==
    /\ rec \in [Hosts -> [Tasks -> CustodyRecord \cup {None}]]
    /\ net \subseteq HandoffEnvelope
    /\ phase \in [Callers -> {"idle", "seed", "read", "swap", "inspect"}]
    /\ call \in [Callers -> Requests \cup {None}]
    /\ \A c \in Callers : IF phase[c] = "idle" THEN call[c] = None ELSE call[c] \in Requests
    /\ seen \in [Callers -> CustodyRecord \cup {None}]
    /\ \A c \in Callers : phase[c] = "swap" /\ call[c].op # "accept" => seen[c] # None
    /\ claims \subseteq [task : Tasks, worker : Workers, token : Tokens]
    /\ outcomes \subseteq [task : Tasks, exec : {"Blocked", "Completed", "Failed"},
                           reason : Details \cup {None}, result : Details \cup {None}]
    /\ imports \subseteq HandoffEnvelope \X {"ok", "conflict"}

Holds(h, t) == rec[h][t] # None /\ rec[h][t].custody = "Owned"

(* However envelopes are duplicated, reordered, lost or damaged, and       *)
(* whichever calls race or die, no two hosts hold a task at once: so no    *)
(* two hosts can select and run it (task_handoff.rs accept_handoff,        *)
(* prepare_handoff; ADR-0036 "Context").                                   *)
SingleCustodian ==
    \A t \in Tasks, h1, h2 \in Hosts : Holds(h1, t) /\ Holds(h2, t) => h1 = h2

(* Two callers that were told they hold the claim of one task, on whatever *)
(* hosts and however often they asked, are one worker with one token       *)
(* (claim_task).                                                           *)
OneRunner ==
    \A k1, k2 \in claims : k1.task = k2.task => k1 = k2

(* An outcome a caller was told was recorded is still the record's outcome *)
(* on the host that holds the task: no later call, retry, re-import or     *)
(* restart loses or replaces it (update_claimed).                          *)
OutcomeStands ==
    \A o \in outcomes : \E h \in Hosts :
        /\ Holds(h, o.task)
        /\ LET r == rec[h][o.task]
           IN r.exec = o.exec /\ r.reason = o.reason /\ r.result = o.result

(* Of the exports of one task that compete under different handoff ids or  *)
(* for different targets, one wins: intact envelopes of the same           *)
(* generation are identical (prepare_handoff).                             *)
OneExport ==
    \A e1, e2 \in {e \in net : Verified(e)} :
        /\ e1.record.task = e2.record.task
        /\ e1.record.generation = e2.record.generation
        => e1 = e2

(* What the arguments above rest on, as one inductive invariant.           *)

(* A stored record is filed under its own task; one under transfer names a *)
(* target and was never claimed.                                           *)
RecordsSound ==
    \A h \in Hosts, t \in Tasks : rec[h][t] # None =>
        LET r == rec[h][t]
        IN /\ r.task = t
           /\ r.custody = "TransferPending" => r.target \in Agents /\ r.exec = "Open"

Importable(q) ==
    /\ q.env \in net /\ Verified(q.env)
    /\ q.env.record.custody = "TransferPending"
    /\ q.env.record.target = q.target
    /\ q.host = Host[q.target] /\ q.task = q.env.record.task

(* A caller about to swap decided on its snapshot by the operation's own   *)
(* conditions.                                                             *)
CallsSound ==
    \A c \in Callers :
        /\ phase[c] = "seed" => call[c].op = "prepare" /\ call[c].seeds
        /\ phase[c] = "swap" =>
            /\ call[c].op = "prepare" => PrepareAllowed(call[c], seen[c])
            /\ call[c].op = "claim" => ClaimAllowed(call[c], seen[c])
            /\ call[c].op = "update" => UpdateAllowed(call[c], seen[c])
        /\ phase[c] # "idle" /\ call[c].op = "accept" => Importable(call[c])

(* An intact envelope is the record of a transfer still pending in the     *)
(* store that issued it.                                                   *)
EnvelopesIssued ==
    \A e \in net : Verified(e) =>
        /\ \E h \in Hosts : rec[h][e.record.task] = e.record
        /\ e.record.custody = "TransferPending"

(* A store speaks for a task if it holds it, or offers it to an agent      *)
(* whose store has never seen it.                                          *)
Speaks(h, t) ==
    /\ rec[h][t] # None
    /\ \/ rec[h][t].custody = "Owned"
       \/ rec[Host[rec[h][t].target]][t] = None

OneSpeaker ==
    \A t \in Tasks, h1, h2 \in Hosts : Speaks(h1, t) /\ Speaks(h2, t) => h1 = h2

(* No store learns of a task before the one it was created on.             *)
OriginFirst ==
    \A h \in Hosts, t \in Tasks : rec[h][t] # None => rec[Host[Origin[t]]][t] # None

(* The store that speaks for a task has its newest generation, and no two  *)
(* transfers of a task have the same.                                      *)
GenerationsOrdered ==
    \A t \in Tasks, g, h \in Hosts :
        rec[g][t] # None /\ rec[h][t] # None =>
            /\ Speaks(h, t) => rec[g][t].generation <= rec[h][t].generation
            /\ /\ g # h
               /\ rec[g][t].custody = "TransferPending" /\ rec[h][t].custody = "TransferPending"
               => rec[g][t].generation # rec[h][t].generation

(* A claim told to a caller is the claim in the store that holds the task. *)
ClaimsRecorded ==
    \A k \in claims : \E h \in Hosts :
        /\ Holds(h, k.task)
        /\ LET r == rec[h][k.task]
           IN r.exec # "Open" /\ r.worker = k.worker /\ r.token = k.token

CustodyInv ==
    RecordsSound /\ CallsSound /\ EnvelopesIssued /\ OneSpeaker /\ OriginFirst
    /\ GenerationsOrdered /\ ClaimsRecorded /\ OutcomeStands

Stage(r) ==
    CASE r = None -> 0
      [] r # None /\ r.custody = "Owned" /\ r.exec = "Open" -> 1
      [] r # None /\ (r.custody = "TransferPending" \/ r.exec = "InProgress") -> 2
      [] OTHER -> 3

(* A store's record of a task only moves on, and never returns to a value  *)
(* it had: the retry loops compare whole records, so a value that came     *)
(* back would let a stale decision through (cas).                          *)
MovesOn ==
    [][\A h \in Hosts, t \in Tasks :
        rec'[h][t] # rec[h][t] => Stage(rec'[h][t]) > Stage(rec[h][t])]_vars

(* A caller starts its loop over only because the record has left the      *)
(* stage it decided on.  Each operation swaps from one stage only: so none *)
(* starts over twice, whatever the others do (the loops of                 *)
(* prepare_handoff, claim_task and update_claimed have no bound of their   *)
(* own).                                                                   *)
RetriesPay ==
    [][\A c \in Callers :
        phase[c] = "swap" /\ phase'[c] = "read" =>
            Stage(Current(c)) > Stage(seen[c])]_vars

(* The retry loops end: every call that is not cut off by a crash returns, *)
(* however the others interfere (the loops of prepare_handoff, claim_task  *)
(* and update_claimed have no bound of their own).                         *)
CallsReturn == \A c \in Callers : phase[c] # "idle" ~> phase[c] = "idle"

(* The host of the newest record of a task: of the one held, or else of    *)
(* the last offer.                                                         *)
IsNewest(h, t) ==
    /\ rec[h][t] # None
    /\ \A g \in Hosts : rec[g][t] # None => rec[g][t].generation <= rec[h][t].generation
    /\ Holds(h, t) \/ \A g \in Hosts : ~ Holds(g, t)

Newest(t) ==
    IF \A h \in Hosts : rec[h][t] = None THEN None
    ELSE rec[CHOOSE h \in Hosts : IsNewest(h, t)][t]

CustodianIn(r) == IF r = None THEN None ELSE r.owner
OfferedToIn(r) == IF r = None THEN None ELSE r.target
GenerationIn(r) == IF r = None THEN 0 ELSE r.generation
RunnerIn(r) == IF r = None THEN None ELSE IF r.worker = None THEN None ELSE <<r.worker, r.token>>
ReportIn(r) ==
    IF r = None THEN None
    ELSE IF r.exec \in {"Open", "InProgress"} THEN None ELSE <<r.exec, r.reason, r.result>>

Ledger == INSTANCE CustodyLedger WITH
    custodian <- [t \in Tasks |-> CustodianIn(Newest(t))],
    offeredTo <- [t \in Tasks |-> OfferedToIn(Newest(t))],
    generation <- [t \in Tasks |-> GenerationIn(Newest(t))],
    runner <- [t \in Tasks |-> RunnerIn(Newest(t))],
    report <- [t \in Tasks |-> ReportIn(Newest(t))]

(* The stores of all hosts together behave as one ledger: each task moves  *)
(* through register, offer, take, run and report, one entry at a time.     *)
ImplementsLedger == Ledger!Spec

(* "Duplicate identical operations are idempotent" (ADR-0036): an import   *)
(* that succeeded is not refused when the same envelope is imported again. *)
DuplicateImportIdempotent ==
    \A e \in net : ~ (<<e, "ok">> \in imports /\ <<e, "conflict">> \in imports)
=============================================================================
