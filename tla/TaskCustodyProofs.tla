------------------------- MODULE TaskCustodyProofs -------------------------
(***************************************************************************)
(* Proofs about the components that span machines: TaskCustody, for any    *)
(* number of agents, hosts, tasks, workers, callers and generations, that  *)
(* it implements CustodyLedger, and, at the end, SyncReplica.              *)
(***************************************************************************)
EXTENDS TaskCustody, SyncReplica, TLAPS

----------------------------------------------------------------------------
(* Types.                                                                  *)

LEMMA DigestType == \A r \in CustodyRecord : DigestOf(r) \in Unsigned
  BY DEF CustodyRecord, Unsigned, DigestOf

LEMMA SeedType == \A t \in Tasks, a \in Agents : SeedRecord(t, a) \in CustodyRecord
  BY DEF CustodyRecord, SeedRecord, ExecutionState

LEMMA OfferedType ==
  \A q \in PrepareRequest, r \in CustodyRecord : Offered(q, r) \in CustodyRecord
<1> SUFFICES ASSUME NEW q \in PrepareRequest, NEW r \in CustodyRecord
             PROVE  Offered(q, r) \in CustodyRecord
  OBVIOUS
<1> DEFINE pending == [r EXCEPT !.custody = "TransferPending", !.target = q.target,
                                !.hid = q.hid, !.generation = @ + 1, !.digest = None]
<1>a. q.target \in Agents /\ q.hid \in HandoffIds
  BY DEF PrepareRequest
<1>b. r.generation + 1 \in Nat
  BY DEF CustodyRecord
<1>1. pending \in CustodyRecord
  BY <1>a, <1>b DEF CustodyRecord
<1>2. DigestOf(pending) \in Unsigned
  BY <1>1, DigestType
<1> QED
  BY ZenonT(40), <1>1, <1>2 DEF Offered, CustodyRecord

LEMMA AcceptedType ==
  \A q \in Requests : q.op = "accept" => Accepted(q) \in CustodyRecord
<1> SUFFICES ASSUME NEW q \in Requests, q.op = "accept"
             PROVE  Accepted(q) \in CustodyRecord
  OBVIOUS
<1>1. q.env \in HandoffEnvelope /\ q.target \in Agents
  BY DEF Requests, PrepareRequest, ClaimRequest, UpdateRequest
<1>2. q.env.record \in CustodyRecord
  BY <1>1 DEF HandoffEnvelope
<1> QED
  BY <1>1, <1>2 DEF Accepted, CustodyRecord

LEMMA ClaimedType ==
  \A q \in ClaimRequest, r \in CustodyRecord, tok \in Tokens : Claimed(q, r, tok) \in CustodyRecord
  BY ZenonT(40) DEF ClaimRequest, Claimed, CustodyRecord, ExecutionState

LEMMA UpdatedType ==
  \A q \in UpdateRequest, r \in CustodyRecord : Updated(q, r) \in CustodyRecord
<1> SUFFICES ASSUME NEW q \in UpdateRequest, NEW r \in CustodyRecord
             PROVE  Updated(q, r) \in CustodyRecord
  OBVIOUS
<1>1. /\ q.exec \in ExecutionState
      /\ q.reason \in Details \cup {None}
      /\ q.result \in Details \cup {None}
  BY DEF UpdateRequest, ExecutionState
<1> QED
  BY <1>1 DEF Updated, CustodyRecord

LEMMA OutcomeType ==
  \A q \in UpdateRequest :
    Outcome(q) \in [task : Tasks, exec : {"Blocked", "Completed", "Failed"},
                   reason : Details \cup {None}, result : Details \cup {None}]
  BY DEF UpdateRequest, Outcome

LEMMA EnvelopeType == \A r \in CustodyRecord : Envelope(r) \in HandoffEnvelope
  BY DigestType DEF HandoffEnvelope, Envelope

(* Which request a caller serves, by its op.                               *)
LEMMA RequestOp ==
  \A q \in Requests :
    /\ q.host \in Hosts /\ q.task \in Tasks
    /\ q.op = "prepare" => q \in PrepareRequest
    /\ q.op = "claim" => q \in ClaimRequest
    /\ q.op = "update" => q \in UpdateRequest
    /\ q.op = "accept" => q.env \in HandoffEnvelope /\ q.target \in Agents
  BY DEF Requests, PrepareRequest, ClaimRequest, UpdateRequest

LEMMA StartTypes ==
  ASSUME TypeOK, NEW c \in Callers, NEW q \in Requests, NEW p \in {"seed", "read", "swap"},
         Start(c, q, p), p = "swap" => q.op = "accept"
  PROVE  TypeOK'
  BY DEF TypeOK, Start, told

(* The types of what a caller keeps.                                       *)
CallerTypes ==
    /\ phase \in [Callers -> {"idle", "seed", "read", "swap", "inspect"}]
    /\ call \in [Callers -> Requests \cup {None}]
    /\ \A c \in Callers : IF phase[c] = "idle" THEN call[c] = None ELSE call[c] \in Requests
    /\ seen \in [Callers -> CustodyRecord \cup {None}]
    /\ \A c \in Callers : phase[c] = "swap" /\ call[c].op # "accept" => seen[c] # None

(* The types of what the stores, the network and the callers know.         *)
SharedTypes ==
    /\ rec \in [Hosts -> [Tasks -> CustodyRecord \cup {None}]]
    /\ net \subseteq HandoffEnvelope
    /\ claims \subseteq [task : Tasks, worker : Workers, token : Tokens]
    /\ outcomes \subseteq [task : Tasks, exec : {"Blocked", "Completed", "Failed"},
                           reason : Details \cup {None}, result : Details \cup {None}]
    /\ imports \subseteq HandoffEnvelope \X {"ok", "conflict"}

LEMMA TypeParts == TypeOK <=> CallerTypes /\ SharedTypes
  BY DEF TypeOK, CallerTypes, SharedTypes

LEMMA ReturnTypes ==
  ASSUME TypeOK, NEW c \in Callers, Return(c)
  PROVE  CallerTypes'
  BY DEF TypeOK, CallerTypes, Return

LEMMA GoSwapTypes ==
  ASSUME TypeOK, NEW c \in Callers, GoSwap(c), phase[c] # "idle", Current(c) # None
  PROVE  TypeOK'
<1>1. Current(c) \in CustodyRecord \cup {None}
  BY RequestOp DEF TypeOK, Current
<1> QED
  BY <1>1 DEF TypeOK, GoSwap, told

LEMMA RetryTypes ==
  ASSUME TypeOK, NEW c \in Callers, Retry(c), phase[c] # "idle"
  PROVE  TypeOK'
  BY DEF TypeOK, Retry, told

LEMMA WriteTypes ==
  ASSUME TypeOK, NEW c \in Callers, phase[c] # "idle", NEW r \in CustodyRecord, Write(c, r)
  PROVE  rec' \in [Hosts -> [Tasks -> CustodyRecord \cup {None}]]
  BY RequestOp DEF TypeOK, Write

LEMMA TypesStep ==
  ASSUME TypeOK, [Next]_vars
  PROVE  TypeOK'
<1>1. ASSUME NEW c \in Callers, Issue(c)
      PROVE  TypeOK'
  <2>1. ASSUME NEW q \in PrepareRequest, PrepareCall(c, q) PROVE TypeOK'
    <3>1. q \in Requests
      BY DEF Requests
    <3> QED
      BY <2>1, <3>1, StartTypes DEF PrepareCall
  <2>2. ASSUME NEW q \in AcceptRequest, AcceptCall(c, q) PROVE TypeOK'
    <3>1. q \in Requests
      BY <2>2 DEF AcceptRequest, Requests, TypeOK
    <3> QED
      BY <2>2, <3>1, StartTypes DEF AcceptCall, AcceptRequest
  <2>3. ASSUME NEW q \in ClaimRequest, ClaimCall(c, q) PROVE TypeOK'
    <3>1. q \in Requests
      BY DEF Requests
    <3> QED
      BY <2>3, <3>1, StartTypes DEF ClaimCall
  <2>4. ASSUME NEW q \in UpdateRequest, UpdateCall(c, q) PROVE TypeOK'
    <3>1. q \in Requests
      BY DEF Requests
    <3> QED
      BY <2>4, <3>1, StartTypes DEF UpdateCall
  <2> QED
    BY <1>1, <2>1, <2>2, <2>3, <2>4 DEF Issue
<1>2. ASSUME NEW c \in Callers, Serve(c)
      PROVE  TypeOK'
  <2> phase[c] # "idle" => call[c] \in Requests /\ Current(c) \in CustodyRecord \cup {None}
    BY RequestOp DEF TypeOK, Current
  <2>1. CASE SeedOwned(c)
    <3>1. call[c].task \in Tasks /\ call[c].source \in Agents
      BY <2>1, RequestOp DEF SeedOwned, At, PrepareRequest
    <3>2. rec' \in [Hosts -> [Tasks -> CustodyRecord \cup {None}]]
      BY <2>1, <3>1, SeedType, WriteTypes DEF SeedOwned, At, TypeOK
    <3> QED
      BY <2>1, <3>2 DEF SeedOwned, At, TypeOK, told
  <2>2. CASE PrepareRead(c)
    <3>1. CASE PrepareAllowed(call[c], Current(c)) /\ GoSwap(c)
      BY <2>2, <3>1, GoSwapTypes DEF PrepareRead, At, PrepareAllowed
    <3>2. CASE /\ PrepareReplay(call[c], Current(c))
               /\ net' = net \cup {Envelope(Current(c))}
               /\ Return(c) /\ UNCHANGED <<rec, told>>
      <4>1. Envelope(Current(c)) \in HandoffEnvelope
        BY <2>2, <3>2, EnvelopeType DEF PrepareRead, At, PrepareReplay
      <4>2. CallerTypes'
        BY <3>2, ReturnTypes
      <4>3. SharedTypes'
        BY <3>2, <4>1 DEF TypeOK, SharedTypes, told
      <4> QED
        BY <4>2, <4>3, TypeParts DEF TypeOK, CallerTypes, SharedTypes
    <3>3. CASE Return(c) /\ UNCHANGED <<rec, net, told>>
      BY <3>3, ReturnTypes DEF TypeOK, CallerTypes, told
    <3> QED
      BY <2>2, <3>1, <3>2, <3>3 DEF PrepareRead
  <2>3. CASE PrepareSwap(c)
    <3>1. CASE Retry(c)
      BY <2>3, <3>1, RetryTypes DEF PrepareSwap, At
    <3>2. CASE /\ Write(c, Offered(call[c], seen[c]))
               /\ net' = net \cup {Envelope(Offered(call[c], seen[c]))}
               /\ Return(c) /\ UNCHANGED told
      <4>1. call[c] \in PrepareRequest /\ seen[c] \in CustodyRecord
        BY <2>3, RequestOp DEF PrepareSwap, At, TypeOK
      <4>2. Offered(call[c], seen[c]) \in CustodyRecord
        BY <4>1, OfferedType
      <4>3. Envelope(Offered(call[c], seen[c])) \in HandoffEnvelope
        BY <4>2, EnvelopeType
      <4>4. rec' \in [Hosts -> [Tasks -> CustodyRecord \cup {None}]]
        BY <2>3, <3>2, <4>2, WriteTypes DEF PrepareSwap, At
      <4>5. CallerTypes'
        BY <3>2, ReturnTypes
      <4> QED
        BY <3>2, <4>3, <4>4, <4>5 DEF TypeOK, CallerTypes, told
    <3> QED
      BY <2>3, <3>1, <3>2 DEF PrepareSwap
  <2>4. CASE AcceptInsert(c)
    <3>1. CASE /\ Write(c, Accepted(call[c]))
               /\ imports' = imports \cup {<<call[c].env, "ok">>}
               /\ Return(c)
               /\ UNCHANGED <<net, claims, outcomes>>
      <4>1. Accepted(call[c]) \in CustodyRecord /\ call[c].env \in HandoffEnvelope
        BY <2>4, AcceptedType, RequestOp DEF AcceptInsert, At
      <4>2. rec' \in [Hosts -> [Tasks -> CustodyRecord \cup {None}]]
        BY <2>4, <3>1, <4>1, WriteTypes DEF AcceptInsert, At
      <4>3. CallerTypes'
        BY <3>1, ReturnTypes
      <4> QED
        BY <3>1, <4>1, <4>2, <4>3 DEF TypeOK, CallerTypes
    <3>2. CASE /\ phase' = [phase EXCEPT ![c] = "inspect"]
               /\ UNCHANGED <<rec, net, call, seen, told>>
      BY <2>4, <3>2 DEF AcceptInsert, At, TypeOK, told
    <3> QED
      BY <2>4, <3>1, <3>2 DEF AcceptInsert
  <2>5. CASE AcceptInspect(c)
    <3>1. call[c].env \in HandoffEnvelope
      BY <2>5, RequestOp DEF AcceptInspect, At
    <3>2. CallerTypes'
      BY <2>5, ReturnTypes DEF AcceptInspect
    <3> QED
      BY <2>5, <3>1, <3>2 DEF AcceptInspect, TypeOK, CallerTypes
  <2>6. CASE ClaimRead(c)
    <3>1. CASE ClaimAllowed(call[c], Current(c)) /\ GoSwap(c)
      BY <2>6, <3>1, GoSwapTypes DEF ClaimRead, At, ClaimAllowed
    <3>2. CASE /\ ClaimReplay(call[c], Current(c))
               /\ claims' = claims \cup {Claim(call[c], Current(c))}
               /\ Return(c) /\ UNCHANGED <<rec, net, outcomes, imports>>
      <4>1. call[c] \in ClaimRequest /\ Current(c) \in CustodyRecord
        BY <2>6, <3>2, RequestOp DEF ClaimRead, At, ClaimReplay
      <4>2. Claim(call[c], Current(c)) \in [task : Tasks, worker : Workers, token : Tokens]
        BY <3>2, <4>1 DEF Claim, ClaimReplay, ClaimRequest, CustodyRecord
      <4>3. CallerTypes'
        BY <3>2, ReturnTypes
      <4> QED
        BY <3>2, <4>2, <4>3 DEF TypeOK, CallerTypes
    <3>3. CASE Return(c) /\ UNCHANGED <<rec, net, told>>
      BY <3>3, ReturnTypes DEF TypeOK, CallerTypes, told
    <3> QED
      BY <2>6, <3>1, <3>2, <3>3 DEF ClaimRead
  <2>7. CASE ClaimSwap(c)
    <3>1. CASE Retry(c)
      BY <2>7, <3>1, RetryTypes DEF ClaimSwap, At
    <3>2. ASSUME NEW tok \in Tokens,
                 Write(c, Claimed(call[c], seen[c], tok)),
                 claims' = claims \cup {Claim(call[c], Claimed(call[c], seen[c], tok))},
                 Return(c), UNCHANGED <<net, outcomes, imports>>
          PROVE  TypeOK'
      <4>1. call[c] \in ClaimRequest /\ seen[c] \in CustodyRecord
        BY <2>7, RequestOp DEF ClaimSwap, At, TypeOK
      <4>2. Claimed(call[c], seen[c], tok) \in CustodyRecord
        BY <4>1, ClaimedType
      <4>3. Claim(call[c], Claimed(call[c], seen[c], tok))
              \in [task : Tasks, worker : Workers, token : Tokens]
        BY <4>1 DEF Claim, Claimed, ClaimRequest, CustodyRecord
      <4>4. rec' \in [Hosts -> [Tasks -> CustodyRecord \cup {None}]]
        BY <2>7, <3>2, <4>2, WriteTypes DEF ClaimSwap, At
      <4>5. CallerTypes'
        BY <3>2, ReturnTypes
      <4> QED
        BY <3>2, <4>3, <4>4, <4>5 DEF TypeOK, CallerTypes
    <3> QED
      BY <2>7, <3>1, <3>2 DEF ClaimSwap
  <2>8. CASE UpdateRead(c)
    <3>1. CASE UpdateAllowed(call[c], Current(c)) /\ GoSwap(c)
      BY <2>8, <3>1, GoSwapTypes DEF UpdateRead, At, UpdateAllowed
    <3>2. CASE /\ outcomes' = outcomes \cup {Outcome(call[c])}
               /\ Return(c) /\ UNCHANGED <<rec, net, claims, imports>>
      BY <2>8, <3>2, RequestOp, OutcomeType, ReturnTypes
         DEF UpdateRead, At, TypeOK, CallerTypes
    <3>3. CASE Return(c) /\ UNCHANGED <<rec, net, told>>
      BY <3>3, ReturnTypes DEF TypeOK, CallerTypes, told
    <3> QED
      BY <2>8, <3>1, <3>2, <3>3 DEF UpdateRead
  <2>9. CASE UpdateSwap(c)
    <3>1. CASE Retry(c)
      BY <2>9, <3>1, RetryTypes DEF UpdateSwap, At
    <3>2. CASE /\ Write(c, Updated(call[c], seen[c]))
               /\ outcomes' = outcomes \cup {Outcome(call[c])}
               /\ Return(c) /\ UNCHANGED <<net, claims, imports>>
      <4>1. call[c] \in UpdateRequest /\ seen[c] \in CustodyRecord
        BY <2>9, RequestOp DEF UpdateSwap, At, TypeOK
      <4>2. rec' \in [Hosts -> [Tasks -> CustodyRecord \cup {None}]]
        BY <2>9, <3>2, <4>1, UpdatedType, WriteTypes DEF UpdateSwap, At
      <4> QED
        BY <3>2, <4>1, <4>2, OutcomeType, ReturnTypes DEF TypeOK, CallerTypes
    <3> QED
      BY <2>9, <3>1, <3>2 DEF UpdateSwap
  <2> QED
    BY <1>2, <2>1, <2>2, <2>3, <2>4, <2>5, <2>6, <2>7, <2>8, <2>9 DEF Serve
<1>3. ASSUME NEW e \in net, NEW a \in Damaged, Damage(e, a)
      PROVE  TypeOK'
  <2>1. a \in Agents /\ e \in HandoffEnvelope
    BY <1>3, CustodyConstants DEF TypeOK
  <2>2. [e EXCEPT !.record.target = a] \in HandoffEnvelope
    BY <2>1 DEF HandoffEnvelope, CustodyRecord
  <2> QED
    BY <1>3, <2>2 DEF Damage, TypeOK, told
<1>4. ASSUME NEW h \in Hosts, Crash(h)
      PROVE  TypeOK'
  BY <1>4 DEF Crash, TypeOK, told
<1>5. CASE UNCHANGED vars
  BY <1>5 DEF vars, TypeOK
<1> QED
  BY <1>1, <1>2, <1>3, <1>4, <1>5 DEF Next

(* Every reachable state is well typed.                                    *)
THEOREM TypeCorrect == Spec => []TypeOK
<1>1. Init => TypeOK
  BY DEF Init, TypeOK
<1>2. TypeOK /\ [Next]_vars => TypeOK'
  BY TypesStep
<1> QED
  BY <1>1, <1>2, PTL DEF Spec

----------------------------------------------------------------------------
(* What a step does to the stores: nothing, or one of the five writes, on  *)
(* a record that satisfies the operation's condition NOW: cas carries the  *)
(* condition from the snapshot over to the moment of the write.            *)

Files(h, t, r) == rec' = [rec EXCEPT ![h][t] = r]

Seeds(h, t) ==
    /\ rec[h][t] = None /\ h = Host[Origin[t]]
    /\ Files(h, t, SeedRecord(t, Origin[t]))

Offers(h, t) ==
    \E q \in PrepareRequest :
        PrepareAllowed(q, rec[h][t]) /\ Files(h, t, Offered(q, rec[h][t]))

Takes(h, t) ==
    /\ rec[h][t] = None
    /\ \E q \in Requests :
        /\ q.op = "accept" /\ Importable(q) /\ h = q.host /\ t = q.task
        /\ Files(h, t, Accepted(q))

GivesOut(h, t) ==
    \E q \in ClaimRequest, tok \in Tokens :
        Fresh(tok) /\ ClaimAllowed(q, rec[h][t]) /\ Files(h, t, Claimed(q, rec[h][t], tok))

Records(h, t) ==
    \E q \in UpdateRequest :
        UpdateAllowed(q, rec[h][t]) /\ Files(h, t, Updated(q, rec[h][t]))

Writes(h, t) == Seeds(h, t) \/ Offers(h, t) \/ Takes(h, t) \/ GivesOut(h, t) \/ Records(h, t)

LEMMA StoreEffect ==
  ASSUME TypeOK, CallsSound, [Next]_vars
  PROVE  UNCHANGED rec \/ \E h \in Hosts, t \in Tasks : Writes(h, t)
<1>1. ASSUME NEW c \in Callers, Serve(c)
      PROVE  UNCHANGED rec \/ \E h \in Hosts, t \in Tasks : Writes(h, t)
  <2> phase[c] # "idle" => /\ call[c] \in Requests
                           /\ call[c].host \in Hosts /\ call[c].task \in Tasks
    BY RequestOp DEF TypeOK
  <2> DEFINE h == call[c].host
             t == call[c].task
  <2>1. CASE SeedOwned(c)
    <3>1. /\ call[c].source = Origin[t]
          /\ h = Host[Origin[t]]
      BY <2>1, RequestOp DEF SeedOwned, At, CallsSound, PrepareRequest
    <3> QED
      BY <2>1, <3>1 DEF SeedOwned, At, Writes, Seeds, Files, Write, Current
  <2>2. CASE PrepareRead(c)
    BY <2>2 DEF PrepareRead, GoSwap
  <2>3. CASE PrepareSwap(c)
    <3>1. CASE Retry(c)
      BY <3>1 DEF Retry
    <3>2. CASE Unmoved(c) /\ Write(c, Offered(call[c], seen[c]))
      <4>1. call[c] \in PrepareRequest /\ PrepareAllowed(call[c], seen[c])
        BY <2>3, RequestOp DEF PrepareSwap, At, CallsSound
      <4>2. Offers(h, t)
        BY <3>2, <4>1 DEF Offers, Files, Write, Unmoved, Current
      <4> QED
        BY <2>3, <4>2 DEF Writes, PrepareSwap, At
    <3> QED
      BY <2>3, <3>1, <3>2 DEF PrepareSwap
  <2>4. CASE AcceptInsert(c)
    <3>1. CASE UNCHANGED rec
      BY <3>1
    <3>2. CASE Current(c) = None /\ Write(c, Accepted(call[c]))
      <4>1. Importable(call[c])
        BY <2>4 DEF AcceptInsert, At, CallsSound
      <4>2. Takes(h, t)
        BY <2>4, <3>2, <4>1 DEF Takes, Files, Write, Current, AcceptInsert, At
      <4> QED
        BY <2>4, <4>2 DEF Writes, AcceptInsert, At
    <3> QED
      BY <2>4, <3>1, <3>2 DEF AcceptInsert
  <2>5. CASE AcceptInspect(c)
    BY <2>5 DEF AcceptInspect
  <2>6. CASE ClaimRead(c)
    BY <2>6 DEF ClaimRead, GoSwap
  <2>7. CASE ClaimSwap(c)
    <3>1. CASE Retry(c)
      BY <3>1 DEF Retry
    <3>2. ASSUME NEW tok \in Tokens, Fresh(tok), Unmoved(c),
                 Write(c, Claimed(call[c], seen[c], tok))
          PROVE  \E g \in Hosts, u \in Tasks : Writes(g, u)
      <4>1. call[c] \in ClaimRequest /\ ClaimAllowed(call[c], seen[c])
        BY <2>7, RequestOp DEF ClaimSwap, At, CallsSound
      <4>2. GivesOut(h, t)
        BY <3>2, <4>1 DEF GivesOut, Files, Write, Unmoved, Current
      <4> QED
        BY <2>7, <4>2 DEF Writes, ClaimSwap, At
    <3> QED
      BY <2>7, <3>1, <3>2 DEF ClaimSwap
  <2>8. CASE UpdateRead(c)
    BY <2>8 DEF UpdateRead, GoSwap
  <2>9. CASE UpdateSwap(c)
    <3>1. CASE Retry(c)
      BY <3>1 DEF Retry
    <3>2. CASE Unmoved(c) /\ Write(c, Updated(call[c], seen[c]))
      <4>1. call[c] \in UpdateRequest /\ UpdateAllowed(call[c], seen[c])
        BY <2>9, RequestOp DEF UpdateSwap, At, CallsSound
      <4>2. Records(h, t)
        BY <3>2, <4>1 DEF Records, Files, Write, Unmoved, Current
      <4> QED
        BY <2>9, <4>2 DEF Writes, UpdateSwap, At
    <3> QED
      BY <2>9, <3>1, <3>2 DEF UpdateSwap
  <2> QED
    BY <1>1, <2>1, <2>2, <2>3, <2>4, <2>5, <2>6, <2>7, <2>8, <2>9 DEF Serve
<1>2. ASSUME NEW c \in Callers, Issue(c)
      PROVE  UNCHANGED rec
  BY <1>2 DEF Issue, PrepareCall, AcceptCall, ClaimCall, UpdateCall, Start
<1>3. ASSUME NEW e \in net, NEW a \in Damaged, Damage(e, a)
      PROVE  UNCHANGED rec
  BY <1>3 DEF Damage
<1>4. ASSUME NEW h \in Hosts, Crash(h)
      PROVE  UNCHANGED rec
  BY <1>4 DEF Crash
<1>5. CASE UNCHANGED vars
  BY <1>5 DEF vars
<1> QED
  BY <1>1, <1>2, <1>3, <1>4, <1>5 DEF Next

(* A write changes one record of one store.                                *)
LEMMA FilesOne ==
  ASSUME TypeOK, NEW h \in Hosts, NEW t \in Tasks, NEW r, Files(h, t, r),
         NEW g \in Hosts, NEW u \in Tasks
  PROVE  rec'[g][u] = IF g = h /\ u = t THEN r ELSE rec[g][u]
  BY DEF TypeOK, Files

(* A record under transfer is never written again, nor is one whose claim  *)
(* was reported on; a claimed record stays claimed by the same worker.     *)
LEMMA Frozen ==
  ASSUME TypeOK, RecordsSound, CallsSound, [Next]_vars, NEW h \in Hosts, NEW t \in Tasks,
         rec[h][t] # None
  PROVE  /\ rec'[h][t] # None
         /\ rec[h][t].custody = "TransferPending" => rec'[h][t] = rec[h][t]
         /\ rec[h][t].exec \notin {"Open", "InProgress"} => rec'[h][t] = rec[h][t]
         /\ rec[h][t].exec # "Open" /\ Holds(h, t) =>
              /\ Holds(h, t)' /\ rec'[h][t].exec # "Open"
              /\ rec'[h][t].worker = rec[h][t].worker /\ rec'[h][t].token = rec[h][t].token
<1> DEFINE r == rec[h][t]
<1>0. r \in CustodyRecord
  BY DEF TypeOK
<1>1. CASE UNCHANGED rec
  BY <1>1 DEF Holds
<1>2. ASSUME NEW g \in Hosts, NEW u \in Tasks, Writes(g, u), ~ (g = h /\ u = t)
      PROVE  rec'[h][t] = rec[h][t]
  BY <1>2, FilesOne DEF Writes, Seeds, Offers, Takes, GivesOut, Records
<1>3. CASE Seeds(h, t) \/ Takes(h, t)
  BY <1>3 DEF Seeds, Takes
<1>4. CASE Offers(h, t)
  <2>1. PICK q \in PrepareRequest : PrepareAllowed(q, r) /\ Files(h, t, Offered(q, r))
    BY <1>4 DEF Offers
  <2>2. rec'[h][t] = Offered(q, r) /\ Offered(q, r) \in CustodyRecord
    BY <2>1, <1>0, FilesOne, OfferedType
  <2> QED
    BY <2>1, <2>2, <1>0, NoneIsNoRecord DEF PrepareAllowed, CustodyRecord
<1>5. CASE GivesOut(h, t)
  <2>1. PICK q \in ClaimRequest, tok \in Tokens :
          ClaimAllowed(q, r) /\ Files(h, t, Claimed(q, r, tok))
    BY <1>5 DEF GivesOut
  <2>2. rec'[h][t] = Claimed(q, r, tok) /\ Claimed(q, r, tok) \in CustodyRecord
    BY <2>1, <1>0, FilesOne, ClaimedType
  <2> QED
    BY <2>1, <2>2, NoneIsNoRecord DEF ClaimAllowed
<1>6. CASE Records(h, t)
  <2>1. PICK q \in UpdateRequest : UpdateAllowed(q, r) /\ Files(h, t, Updated(q, r))
    BY <1>6 DEF Records
  <2>2. rec'[h][t] = Updated(q, r) /\ Updated(q, r) \in CustodyRecord
    BY <2>1, <1>0, FilesOne, UpdatedType
  <2>3. r.custody = "Owned"
    BY <2>1, <1>0 DEF UpdateAllowed, RecordsSound, CustodyRecord
  <2>4. q.exec # "Open" /\ q.exec # "InProgress"
    BY DEF UpdateRequest
  <2>5. rec'[h][t] = [r EXCEPT !.exec = q.exec, !.reason = q.reason, !.result = q.result]
    BY <2>2 DEF Updated
  <2> QED
    BY <1>0, <2>1, <2>2, <2>3, <2>4, <2>5, NoneIsNoRecord
       DEF UpdateAllowed, Holds, CustodyRecord
<1> QED
  BY <1>1, <1>2, <1>3, <1>4, <1>5, <1>6, StoreEffect DEF Writes, Holds

----------------------------------------------------------------------------
(* The parts of CustodyInv, one lemma each.                                *)

LEMMA RecordsSoundStep ==
  ASSUME TypeOK, CustodyInv, [Next]_vars
  PROVE  RecordsSound'
<1> USE DEF CustodyInv
<1>1. CASE UNCHANGED rec
  BY <1>1 DEF RecordsSound
<1>2. ASSUME NEW h \in Hosts, NEW t \in Tasks, Writes(h, t)
      PROVE  RecordsSound'
  <2>1. SUFFICES ASSUME NEW r, Files(h, t, r), r.task = t,
                        r.custody = "TransferPending" => r.target \in Agents /\ r.exec = "Open"
                 PROVE  RecordsSound'
    <3>1. CASE Seeds(h, t)
      BY <2>1, <3>1, CustodyConstants DEF Seeds, SeedRecord
    <3>2. CASE Offers(h, t)
      <4>1. PICK q \in PrepareRequest : PrepareAllowed(q, rec[h][t])
                                        /\ Files(h, t, Offered(q, rec[h][t]))
        BY <3>2 DEF Offers
      <4>2. rec[h][t] \in CustodyRecord /\ rec[h][t].task = t
        BY <4>1 DEF PrepareAllowed, TypeOK, RecordsSound
      <4> QED
        BY <2>1, <4>1, <4>2 DEF PrepareAllowed, Offered, PrepareRequest, CustodyRecord
    <3>3. CASE Takes(h, t)
      <4>1. PICK q \in Requests : /\ q.op = "accept" /\ Importable(q) /\ t = q.task
                                  /\ Files(h, t, Accepted(q))
        BY <3>3 DEF Takes
      <4>2. q.env.record \in CustodyRecord
        BY <4>1, RequestOp DEF HandoffEnvelope
      <4> QED
        BY <2>1, <4>1, <4>2 DEF Importable, Accepted, CustodyRecord
    <3>4. CASE GivesOut(h, t)
      <4>1. PICK q \in ClaimRequest, tok \in Tokens : ClaimAllowed(q, rec[h][t])
                                        /\ Files(h, t, Claimed(q, rec[h][t], tok))
        BY <3>4 DEF GivesOut
      <4>2. rec[h][t] \in CustodyRecord /\ rec[h][t].task = t
        BY <4>1 DEF ClaimAllowed, TypeOK, RecordsSound
      <4> QED
        BY <2>1, <4>1, <4>2 DEF ClaimAllowed, Claimed, CustodyRecord
    <3>5. CASE Records(h, t)
      <4>1. PICK q \in UpdateRequest : UpdateAllowed(q, rec[h][t])
                                       /\ Files(h, t, Updated(q, rec[h][t]))
        BY <3>5 DEF Records
      <4>2. /\ rec[h][t] \in CustodyRecord /\ rec[h][t].task = t
            /\ rec[h][t].custody = "Owned"
        BY <4>1 DEF UpdateAllowed, TypeOK, RecordsSound, CustodyRecord
      <4> QED
        BY <2>1, <4>1, <4>2 DEF Updated, CustodyRecord
    <3> QED
      BY <1>2, <3>1, <3>2, <3>3, <3>4, <3>5 DEF Writes
  <2> QED
    BY <2>1, FilesOne DEF RecordsSound
<1> QED
  BY <1>1, <1>2, StoreEffect

LEMMA OriginFirstStep ==
  ASSUME TypeOK, CustodyInv, [Next]_vars
  PROVE  OriginFirst'
<1> USE DEF CustodyInv
<1>0. \A t \in Tasks : Host[Origin[t]] \in Hosts
  BY CustodyConstants
<1>1. CASE UNCHANGED rec
  BY <1>1 DEF OriginFirst
<1>2. ASSUME NEW h \in Hosts, NEW t \in Tasks, Writes(h, t)
      PROVE  OriginFirst'
  \* whoever writes a record of t, the origin has one: it writes it itself or had it
  <2>1. rec'[Host[Origin[t]]][t] # None
    <3>1. CASE Seeds(h, t)
      BY <3>1, <1>0, FilesOne, SeedType, CustodyConstants, NoneIsNoRecord DEF Seeds
    <3>2. CASE rec[h][t] # None
      BY <3>2, <1>0, Frozen DEF OriginFirst
    <3>3. CASE Takes(h, t)
      <4>1. PICK q \in Requests : Importable(q) /\ t = q.task
        BY <3>3 DEF Takes
      <4>2. PICK g \in Hosts : rec[g][t] = q.env.record
        BY <4>1 DEF Importable, EnvelopesIssued
      <4>3. rec[g][t] # None
        BY <4>1, <4>2, NoneIsNoRecord DEF Importable, TypeOK, HandoffEnvelope
      <4> QED
        BY <1>0, <4>3, Frozen DEF OriginFirst
    <3> QED
      BY <1>2, <3>1, <3>2, <3>3
         DEF Writes, Offers, GivesOut, Records, PrepareAllowed, ClaimAllowed, UpdateAllowed
  <2>2. \A g \in Hosts, u \in Tasks : u # t => rec'[g][u] = rec[g][u]
    BY <1>2, FilesOne DEF Writes, Seeds, Offers, Takes, GivesOut, Records
  <2> QED
    BY <1>0, <2>1, <2>2 DEF OriginFirst
<1> QED
  BY <1>1, <1>2, StoreEffect

LEMMA OneSpeakerStep ==
  ASSUME TypeOK, CustodyInv, [Next]_vars
  PROVE  OneSpeaker'
<1> USE DEF CustodyInv
<1>1. CASE UNCHANGED rec
  BY <1>1 DEF OneSpeaker, Speaks
<1>2. ASSUME NEW h \in Hosts, NEW t \in Tasks, Writes(h, t)
      PROVE  OneSpeaker'
  <2>1. \A g \in Hosts, u \in Tasks : ~ (g = h /\ u = t) => rec'[g][u] = rec[g][u]
    BY <1>2, FilesOne DEF Writes, Seeds, Offers, Takes, GivesOut, Records
  \* a store that was not written and speaks now spoke before
  <2>2. ASSUME NEW g \in Hosts, NEW u \in Tasks, ~ (g = h /\ u = t), Speaks(g, u)'
        PROVE  Speaks(g, u)
    <3>1. rec'[g][u] = rec[g][u]
      BY <2>1, <2>2
    <3>2. CASE rec[g][u].custody = "Owned"
      BY <2>2, <3>1, <3>2 DEF Speaks
    <3>3. CASE rec[g][u].custody # "Owned"
      <4> DEFINE k == Host[rec[g][u].target]
      <4>1. k \in Hosts /\ rec'[k][u] = None
        BY <2>2, <3>1, <3>3, CustodyConstants DEF Speaks, TypeOK, CustodyRecord, RecordsSound
      <4>2. rec[k][u] = None
        BY <4>1, Frozen
      <4> QED
        BY <2>2, <3>1, <4>2 DEF Speaks
    <3> QED
      BY <3>2, <3>3
  \* the written store speaks only if nobody else does
  <2>3. ASSUME NEW g \in Hosts, g # h, Speaks(g, t)', Speaks(h, t)'
        PROVE  FALSE
    <3>0. Speaks(g, t) /\ rec[g][t] # None
      BY <2>2, <2>3 DEF Speaks
    <3>1. CASE Seeds(h, t)
      BY <3>0, <3>1, CustodyConstants DEF Seeds, OriginFirst
    <3>2. CASE Takes(h, t)
      <4>1. PICK q \in Requests : /\ Importable(q) /\ t = q.task /\ h = q.host
                                  /\ Files(h, t, Accepted(q))
        BY <3>2 DEF Takes
      <4>2. PICK k \in Hosts : rec[k][t] = q.env.record
        BY <4>1 DEF Importable, EnvelopesIssued
      <4>3. /\ rec[k][t] # None /\ rec[k][t].custody = "TransferPending"
            /\ Host[rec[k][t].target] = h /\ rec[h][t] = None
        BY <3>2, <4>1, <4>2, NoneIsNoRecord DEF Importable, TypeOK, HandoffEnvelope, Takes
      <4>4. g = k
        BY <3>0, <4>3 DEF Speaks, OneSpeaker
      <4>5. rec'[h][t] # None
        BY <2>3 DEF Speaks
      <4> QED
        BY <2>1, <2>3, <4>3, <4>4, <4>5 DEF Speaks
    <3>3. CASE rec[h][t] # None /\ rec[h][t].custody = "Owned"
      BY <2>3, <3>0, <3>3 DEF Speaks, OneSpeaker
    <3>4. CASE Offers(h, t) \/ GivesOut(h, t) \/ Records(h, t)
      BY <3>3, <3>4 DEF Offers, GivesOut, Records, PrepareAllowed, ClaimAllowed, UpdateAllowed,
                        RecordsSound, TypeOK, CustodyRecord
    <3> QED
      BY <1>2, <3>1, <3>2, <3>4 DEF Writes
  <2> SUFFICES ASSUME NEW u \in Tasks, NEW g1 \in Hosts, NEW g2 \in Hosts,
                      Speaks(g1, u)', Speaks(g2, u)'
               PROVE  g1 = g2
    BY DEF OneSpeaker
  <2>4. CASE u # t \/ (g1 # h /\ g2 # h)
    BY <2>2, <2>4 DEF OneSpeaker
  <2>5. CASE u = t /\ (g1 = h \/ g2 = h)
    BY <2>3, <2>5
  <2> QED
    BY <2>4, <2>5
<1> QED
  BY <1>1, <1>2, StoreEffect

LEMMA GenerationsOrderedStep ==
  ASSUME TypeOK, CustodyInv, [Next]_vars
  PROVE  GenerationsOrdered'
<1> USE DEF CustodyInv
<1>1. CASE UNCHANGED rec
  BY <1>1 DEF GenerationsOrdered, Speaks
<1>2. ASSUME NEW h \in Hosts, NEW t \in Tasks, Writes(h, t)
      PROVE  GenerationsOrdered'
  <2>0. rec \in [Hosts -> [Tasks -> CustodyRecord \cup {None}]]
    BY DEF TypeOK
  <2>1. \A g \in Hosts, u \in Tasks : ~ (g = h /\ u = t) => rec'[g][u] = rec[g][u]
    BY <1>2, FilesOne DEF Writes, Seeds, Offers, Takes, GivesOut, Records
  <2>2. ASSUME NEW g \in Hosts, NEW u \in Tasks, ~ (g = h /\ u = t), Speaks(g, u)'
        PROVE  Speaks(g, u)
    <3>1. rec'[g][u] = rec[g][u]
      BY <2>1, <2>2
    <3>2. CASE rec[g][u].custody = "Owned"
      BY <2>2, <3>1, <3>2 DEF Speaks
    <3>3. CASE rec[g][u].custody # "Owned"
      <4> DEFINE k == Host[rec[g][u].target]
      <4>1. k \in Hosts /\ rec'[k][u] = None
        BY <2>2, <3>1, <3>3, CustodyConstants DEF Speaks, TypeOK, CustodyRecord, RecordsSound
      <4>2. rec[k][u] = None
        BY <4>1, Frozen
      <4> QED
        BY <2>2, <3>1, <4>2 DEF Speaks
    <3> QED
      BY <3>2, <3>3
  <2>3. CASE rec[h][t] = None
    \* a new record: the first of all, or a copy of the transfer that speaks
    <3>1. /\ rec'[h][t] # None /\ rec'[h][t].custody = "Owned"
          /\ \A g \in Hosts : g # h /\ rec[g][t] # None =>
                 rec[g][t].generation <= rec'[h][t].generation
      <4>1. CASE Seeds(h, t)
        <5>1. rec'[h][t] = SeedRecord(t, Origin[t])
          BY <4>1, FilesOne DEF Seeds
        <5> QED
          BY <4>1, <5>1, SeedType, CustodyConstants, NoneIsNoRecord
             DEF Seeds, OriginFirst, SeedRecord
      <4>2. CASE Takes(h, t)
        <5>1. PICK q \in Requests : /\ q.op = "accept" /\ Importable(q) /\ t = q.task
                                    /\ h = q.host /\ Files(h, t, Accepted(q))
          BY <4>2 DEF Takes
        <5>2. PICK k \in Hosts : rec[k][t] = q.env.record
          BY <5>1 DEF Importable, EnvelopesIssued
        <5>3. q.env.record \in CustodyRecord /\ q.env.record # None
          BY <5>1, RequestOp, NoneIsNoRecord DEF HandoffEnvelope
        <5>4. Speaks(k, t)
          BY <4>2, <5>1, <5>2, <5>3 DEF Takes, Speaks, Importable
        <5>5. rec'[h][t] = Accepted(q) /\ Accepted(q) \in CustodyRecord
          BY <5>1, FilesOne, AcceptedType
        <5>6. /\ Accepted(q).generation = rec[k][t].generation
              /\ Accepted(q).custody = "Owned"
          BY <5>2, <5>3 DEF Accepted, CustodyRecord
        <5> QED
          BY <5>2, <5>3, <5>4, <5>5, <5>6, NoneIsNoRecord DEF GenerationsOrdered
      <4> QED
        BY <1>2, <2>3, <4>1, <4>2
           DEF Writes, Offers, GivesOut, Records, PrepareAllowed, ClaimAllowed, UpdateAllowed
    <3>2. \A g \in Hosts : g # h /\ rec[g][t] # None => ~ Speaks(g, t)'
      <4>1. Speaks(h, t)'
        BY <3>1 DEF Speaks
      <4> QED
        BY <4>1, OneSpeakerStep DEF OneSpeaker
    <3>3. rec'[h][t].generation \in Nat
      BY <3>1, TypesStep DEF TypeOK, CustodyRecord
    <3> QED
      BY <2>0, <2>1, <2>2, <2>3, <3>1, <3>2, <3>3 DEF GenerationsOrdered
  <2>4. CASE rec[h][t] # None
    \* the store held the task, so it spoke for it; the generation stays or grows
    <3>1. /\ Speaks(h, t) /\ rec[h][t] \in CustodyRecord
      BY <1>2, <2>0, <2>4
         DEF Writes, Seeds, Offers, Takes, GivesOut, Records, PrepareAllowed, ClaimAllowed,
             UpdateAllowed, Speaks, RecordsSound, CustodyRecord
    <3>2. /\ rec'[h][t] # None
          /\ \/ /\ rec'[h][t].generation = rec[h][t].generation
                /\ rec'[h][t].custody = "Owned"
             \/ rec'[h][t].generation = rec[h][t].generation + 1
      <4>1. CASE Offers(h, t)
        <5>1. PICK q \in PrepareRequest : Files(h, t, Offered(q, rec[h][t]))
          BY <4>1 DEF Offers
        <5>2. rec'[h][t] = Offered(q, rec[h][t])
          BY <5>1, FilesOne
        <5>3. Offered(q, rec[h][t]) \in CustodyRecord
          BY <3>1, OfferedType
        <5>4. Offered(q, rec[h][t]).generation = rec[h][t].generation + 1
          BY <3>1 DEF Offered, CustodyRecord
        <5> QED
          BY <5>2, <5>3, <5>4, NoneIsNoRecord
      <4>2. CASE GivesOut(h, t)
        <5>1. PICK q \in ClaimRequest, tok \in Tokens :
                ClaimAllowed(q, rec[h][t]) /\ Files(h, t, Claimed(q, rec[h][t], tok))
          BY <4>2 DEF GivesOut
        <5>2. rec'[h][t] = Claimed(q, rec[h][t], tok)
          BY <5>1, FilesOne
        <5>3. Claimed(q, rec[h][t], tok) \in CustodyRecord
          BY <3>1, ClaimedType
        <5>4. /\ Claimed(q, rec[h][t], tok).generation = rec[h][t].generation
              /\ Claimed(q, rec[h][t], tok).custody = "Owned"
          BY <3>1, <5>1 DEF Claimed, ClaimAllowed, CustodyRecord
        <5> QED
          BY <5>2, <5>3, <5>4, NoneIsNoRecord
      <4>3. CASE Records(h, t)
        <5>1. PICK q \in UpdateRequest :
                UpdateAllowed(q, rec[h][t]) /\ Files(h, t, Updated(q, rec[h][t]))
          BY <4>3 DEF Records
        <5>2. rec'[h][t] = Updated(q, rec[h][t])
          BY <5>1, FilesOne
        <5>3. Updated(q, rec[h][t]) \in CustodyRecord
          BY <3>1, UpdatedType
        <5>4. rec[h][t].custody = "Owned"
          BY <3>1, <5>1 DEF UpdateAllowed, RecordsSound, CustodyRecord
        <5>5. /\ Updated(q, rec[h][t]).generation = rec[h][t].generation
              /\ Updated(q, rec[h][t]).custody = "Owned"
          BY <3>1, <5>4 DEF Updated, CustodyRecord
        <5> QED
          BY <5>2, <5>3, <5>5, NoneIsNoRecord
      <4> QED
        BY <1>2, <2>4, <4>1, <4>2, <4>3 DEF Writes, Seeds, Takes
    <3>3. \A g \in Hosts : rec[g][t] # None =>
            rec[g][t].generation \in Nat /\ rec[g][t].generation <= rec[h][t].generation
      BY <2>0, <2>4, <3>1 DEF GenerationsOrdered, CustodyRecord
    <3>4. \A g \in Hosts : g # h => ~ Speaks(g, t)'
      BY <2>2, <3>1 DEF OneSpeaker
    <3>5. rec[h][t].generation \in Nat
      BY <3>1 DEF CustodyRecord
    <3> QED
      BY <2>1, <2>2, <2>4, <3>2, <3>3, <3>4, <3>5 DEF GenerationsOrdered
  <2> QED
    BY <2>3, <2>4
<1> QED
  BY <1>1, <1>2, StoreEffect

(* An envelope enters the network damaged, or as a copy of a record then   *)
(* pending in the store that issues it.                                    *)
LEMMA NetEffect ==
  ASSUME TypeOK, CustodyInv, [Next]_vars, NEW e \in net', e \notin net, Verified(e)
  PROVE  \E h \in Hosts, t \in Tasks :
           /\ e.record = rec'[h][t] /\ e.record.task = t
           /\ e.record.custody = "TransferPending"
<1> USE DEF CustodyInv
<1>1. ASSUME NEW c \in Callers, PrepareRead(c)
      PROVE  \E h \in Hosts, t \in Tasks :
               /\ e.record = rec'[h][t] /\ e.record.task = t
               /\ e.record.custody = "TransferPending"
  <2> DEFINE h == call[c].host
             t == call[c].task
  <2>1. h \in Hosts /\ t \in Tasks
    BY <1>1, RequestOp DEF PrepareRead, At, TypeOK
  <2>2. /\ PrepareReplay(call[c], Current(c))
        /\ e = Envelope(Current(c)) /\ UNCHANGED rec
    BY <1>1 DEF PrepareRead, GoSwap
  <2> QED
    BY <2>1, <2>2 DEF PrepareReplay, Envelope, Current, RecordsSound
<1>2. ASSUME NEW c \in Callers, PrepareSwap(c)
      PROVE  \E h \in Hosts, t \in Tasks :
               /\ e.record = rec'[h][t] /\ e.record.task = t
               /\ e.record.custody = "TransferPending"
  <2> DEFINE h == call[c].host
             t == call[c].task
             r == Offered(call[c], seen[c])
  <2>1. h \in Hosts /\ t \in Tasks /\ call[c] \in PrepareRequest
    BY <1>2, RequestOp DEF PrepareSwap, At, TypeOK
  <2>2. Unmoved(c) /\ Write(c, r) /\ e = Envelope(r)
    BY <1>2 DEF PrepareSwap, Retry
  <2>3. rec'[h][t] = r
    <3>1. Files(h, t, r)
      BY <2>2 DEF Write, Files
    <3> HIDE DEF r, h, t
    <3> QED
      BY <2>1, <3>1, FilesOne
  <2>4. seen[c] \in CustodyRecord /\ seen[c].task = t
    BY <1>2, <2>1, <2>2 DEF PrepareSwap, At, TypeOK, Unmoved, Current, RecordsSound
  <2>5. r.task = t /\ r.custody = "TransferPending"
    BY <2>4 DEF Offered, CustodyRecord
  <2> QED
    BY <2>1, <2>2, <2>3, <2>5 DEF Envelope
<1>3. ASSUME NEW d \in net, NEW a \in Damaged, Damage(d, a)
      PROVE  FALSE
  <2>1. e = [d EXCEPT !.record.target = a] /\ Verified(d) /\ d.record.target # a
    BY <1>3 DEF Damage
  <2>2. d \in HandoffEnvelope
    BY DEF TypeOK
  <2>3. /\ e.digest = d.digest
        /\ DigestOf(d.record).target = d.record.target
        /\ DigestOf(e.record).target = a
    BY <2>1, <2>2 DEF HandoffEnvelope, CustodyRecord, DigestOf
  <2> QED
    BY <2>1, <2>3 DEF Verified
<1>4. ASSUME NEW c \in Callers, Issue(c)
      PROVE  FALSE
  BY <1>4 DEF Issue, PrepareCall, AcceptCall, ClaimCall, UpdateCall, Start
<1>5. ASSUME NEW c \in Callers, Serve(c), ~ PrepareRead(c), ~ PrepareSwap(c)
      PROVE  FALSE
  BY <1>5 DEF Serve, SeedOwned, AcceptInsert, AcceptInspect, ClaimRead, ClaimSwap, UpdateRead,
              UpdateSwap, GoSwap, Retry
<1>6. ASSUME NEW h \in Hosts, Crash(h)
      PROVE  FALSE
  BY <1>6 DEF Crash
<1>7. CASE UNCHANGED vars
  BY <1>7 DEF vars
<1> QED
  BY <1>1, <1>2, <1>3, <1>4, <1>5, <1>6, <1>7 DEF Next

LEMMA EnvelopesIssuedStep ==
  ASSUME TypeOK, CustodyInv, [Next]_vars
  PROVE  EnvelopesIssued'
<1> USE DEF CustodyInv
<1> SUFFICES ASSUME NEW e \in net', Verified(e)
             PROVE  /\ \E h \in Hosts : rec'[h][e.record.task] = e.record
                    /\ e.record.custody = "TransferPending"
  BY DEF EnvelopesIssued, Verified, DigestOf
<1>1. CASE e \in net
  <2>1. e.record.custody = "TransferPending" /\ e.record.task \in Tasks
    BY <1>1 DEF EnvelopesIssued, TypeOK, HandoffEnvelope, CustodyRecord
  <2>2. PICK h \in Hosts : rec[h][e.record.task] = e.record
    BY <1>1 DEF EnvelopesIssued
  <2>3. rec[h][e.record.task] # None
    BY <1>1, <2>2, NoneIsNoRecord DEF TypeOK, HandoffEnvelope
  <2>4. rec'[h][e.record.task] = e.record
    BY <2>1, <2>2, <2>3, Frozen
  <2> QED
    BY <2>1, <2>4
<1>2. CASE e \notin net
  BY <1>2, NetEffect
<1> QED
  BY <1>1, <1>2

LEMMA NetGrows ==
  ASSUME [Next]_vars
  PROVE  net \subseteq net'
  BY DEF Next, vars, Issue, Serve, PrepareCall, AcceptCall, ClaimCall, UpdateCall, Start,
         SeedOwned, PrepareRead, PrepareSwap, AcceptInsert, AcceptInspect, ClaimRead, ClaimSwap,
         UpdateRead, UpdateSwap, GoSwap, Retry, Damage, Crash

(* What one caller's record says of it.                                    *)
CallSound(c) ==
    /\ phase[c] = "seed" => call[c].op = "prepare" /\ call[c].seeds
    /\ phase[c] = "swap" =>
        /\ call[c].op = "prepare" => PrepareAllowed(call[c], seen[c])
        /\ call[c].op = "claim" => ClaimAllowed(call[c], seen[c])
        /\ call[c].op = "update" => UpdateAllowed(call[c], seen[c])
    /\ phase[c] # "idle" /\ call[c].op = "accept" => Importable(call[c])

LEMMA CallsSoundStep ==
  ASSUME TypeOK, CustodyInv, [Next]_vars
  PROVE  CallsSound'
<1> USE DEF CustodyInv
<1>a. \A q : Importable(q) => Importable(q)'
  BY NetGrows DEF Importable, Verified, DigestOf
<1>b. ASSUME NEW d \in Callers, phase'[d] = "idle" \/ UNCHANGED <<phase[d], call[d], seen[d]>>
      PROVE  CallSound(d)'
  BY <1>a, <1>b DEF CallsSound, CallSound, PrepareAllowed, ClaimAllowed, UpdateAllowed
<1>1. ASSUME NEW c \in Callers, Issue(c)
      PROVE  CallsSound'
  <2>1. ASSUME NEW q, NEW p \in {"seed", "read", "swap"}, Start(c, q, p),
               p = "seed" => q.op = "prepare" /\ q.seeds,
               p = "swap" => q.op = "accept" /\ Importable(q),
               q.op = "accept" => p = "swap"
        PROVE  CallsSound'
    <3>1. CallSound(c)'
      BY <2>1, <1>a DEF Start, TypeOK, CallSound
    <3>2. \A d \in Callers : d # c => UNCHANGED <<phase[d], call[d], seen[d]>>
      BY <2>1 DEF Start, TypeOK
    <3> QED
      BY <3>1, <3>2, <1>b DEF CallsSound, CallSound
  <2>2. ASSUME NEW q \in PrepareRequest, PrepareCall(c, q) PROVE CallsSound'
    BY <2>1, <2>2 DEF PrepareCall, PrepareRequest
  <2>3. ASSUME NEW q \in AcceptRequest, AcceptCall(c, q) PROVE CallsSound'
    BY <2>1, <2>3 DEF AcceptCall, AcceptRequest, Importable
  <2>4. ASSUME NEW q \in ClaimRequest, ClaimCall(c, q) PROVE CallsSound'
    BY <2>1, <2>4 DEF ClaimCall, ClaimRequest
  <2>5. ASSUME NEW q \in UpdateRequest, UpdateCall(c, q) PROVE CallsSound'
    BY <2>1, <2>5 DEF UpdateCall, UpdateRequest
  <2> QED
    BY <1>1, <2>2, <2>3, <2>4, <2>5 DEF Issue
<1>2. ASSUME NEW c \in Callers, Serve(c)
      PROVE  CallsSound'
  <2>1. CASE Return(c)
    <3>1. \A d \in Callers : phase'[d] = "idle" \/ UNCHANGED <<phase[d], call[d], seen[d]>>
      BY <2>1 DEF Return, TypeOK
    <3> QED
      BY <3>1, <1>b DEF CallsSound, CallSound
  <2>2. ASSUME phase' = [phase EXCEPT ![c] = "read"] \/ phase' = [phase EXCEPT ![c] = "inspect"],
               UNCHANGED call, UNCHANGED seen \/ seen' = [seen EXCEPT ![c] = None],
               phase[c] # "idle"
        PROVE  CallsSound'
    <3>1. CallSound(c)'
      BY <2>2, <1>a DEF TypeOK, CallsSound, CallSound
    <3>2. \A d \in Callers : d # c => UNCHANGED <<phase[d], call[d], seen[d]>>
      BY <2>2 DEF TypeOK
    <3> QED
      BY <3>1, <3>2, <1>b DEF CallsSound, CallSound
  <2>3. ASSUME GoSwap(c),
               call[c].op = "prepare" => PrepareAllowed(call[c], Current(c)),
               call[c].op = "claim" => ClaimAllowed(call[c], Current(c)),
               call[c].op = "update" => UpdateAllowed(call[c], Current(c)),
               call[c].op # "accept"
        PROVE  CallsSound'
    <3>1. /\ phase'[c] = "swap" /\ call'[c] = call[c] /\ seen'[c] = Current(c)
      BY <2>3 DEF GoSwap, TypeOK
    <3>2. CallSound(c)'
      BY <2>3, <3>1 DEF CallSound, PrepareAllowed, ClaimAllowed, UpdateAllowed
    <3>3. \A d \in Callers : d # c => UNCHANGED <<phase[d], call[d], seen[d]>>
      BY <2>3 DEF GoSwap, TypeOK
    <3> QED
      BY <3>2, <3>3, <1>b DEF CallsSound, CallSound
  <2>4. CASE SeedOwned(c) \/ AcceptInsert(c) \/ AcceptInspect(c)
    BY <2>1, <2>2, <2>4 DEF SeedOwned, AcceptInsert, AcceptInspect, At
  <2>5. CASE PrepareRead(c)
    BY <2>1, <2>3, <2>5 DEF PrepareRead, At
  <2>6. CASE ClaimRead(c)
    BY <2>1, <2>3, <2>6 DEF ClaimRead, At
  <2>7. CASE UpdateRead(c)
    BY <2>1, <2>3, <2>7 DEF UpdateRead, At
  <2>8. CASE PrepareSwap(c) \/ ClaimSwap(c) \/ UpdateSwap(c)
    BY <2>1, <2>2, <2>8 DEF PrepareSwap, ClaimSwap, UpdateSwap, Retry, At
  <2> QED
    BY <1>2, <2>4, <2>5, <2>6, <2>7, <2>8 DEF Serve
<1>3. ASSUME NEW e \in net, NEW a \in Damaged, Damage(e, a)
      PROVE  CallsSound'
  BY <1>3, <1>b DEF Damage, CallsSound, CallSound
<1>4. ASSUME NEW h \in Hosts, Crash(h)
      PROVE  CallsSound'
  <2>1. \A d \in Callers : phase'[d] = "idle" \/ UNCHANGED <<phase[d], call[d], seen[d]>>
    BY <1>4 DEF Crash
  <2> QED
    BY <2>1, <1>b DEF CallsSound, CallSound
<1>5. CASE UNCHANGED vars
  BY <1>5, <1>b DEF vars, CallsSound, CallSound
<1> QED
  BY <1>1, <1>2, <1>3, <1>4, <1>5 DEF Next

(* A claim is told to a caller when it is in the record.                   *)
LEMMA ClaimEffect ==
  ASSUME TypeOK, CustodyInv, [Next]_vars, NEW k \in claims', k \notin claims
  PROVE  \E h \in Hosts, t \in Tasks :
           /\ k.task = t /\ rec'[h][t] # None /\ rec'[h][t].custody = "Owned"
           /\ rec'[h][t].exec # "Open"
           /\ rec'[h][t].worker = k.worker /\ rec'[h][t].token = k.token
<1> USE DEF CustodyInv
<1>1. ASSUME NEW c \in Callers, ClaimRead(c)
      PROVE  \E h \in Hosts, t \in Tasks :
               /\ k.task = t /\ rec'[h][t] # None /\ rec'[h][t].custody = "Owned"
               /\ rec'[h][t].exec # "Open"
               /\ rec'[h][t].worker = k.worker /\ rec'[h][t].token = k.token
  <2> DEFINE h == call[c].host
             t == call[c].task
  <2>1. h \in Hosts /\ t \in Tasks
    BY <1>1, RequestOp DEF ClaimRead, At, TypeOK
  <2>2. /\ ClaimReplay(call[c], rec[h][t])
        /\ k = Claim(call[c], rec[h][t]) /\ UNCHANGED rec
    BY <1>1 DEF ClaimRead, GoSwap, told, Current
  <2>3. rec[h][t].custody = "Owned"
    <3>1. PICK r : r = rec[h][t]
      OBVIOUS
    <3>2. r # None /\ r.exec = "InProgress" /\ r.token # None
      BY <2>2, <3>1 DEF ClaimReplay
    <3>3. r \in CustodyRecord
      BY <2>1, <3>1, <3>2 DEF TypeOK
    <3>4. /\ r.custody = "TransferPending" => r.exec = "Open"
          /\ r.custody \in {"Owned", "TransferPending"}
      <4> HIDE DEF h, t
      <4>1. RecordsSound
        OBVIOUS
      <4>2. r.custody = "TransferPending" => r.exec = "Open"
        BY <2>1, <3>1, <3>2, <4>1 DEF RecordsSound
      <4> QED BY <3>3, <4>2 DEF CustodyRecord
    <3> QED BY <3>1, <3>2, <3>4
  <2> QED
    BY <2>1, <2>2, <2>3 DEF ClaimReplay, Claim
<1>2. ASSUME NEW c \in Callers, ClaimSwap(c)
      PROVE  \E h \in Hosts, t \in Tasks :
               /\ k.task = t /\ rec'[h][t] # None /\ rec'[h][t].custody = "Owned"
               /\ rec'[h][t].exec # "Open"
               /\ rec'[h][t].worker = k.worker /\ rec'[h][t].token = k.token
  <2> DEFINE h == call[c].host
             t == call[c].task
  <2>1. /\ h \in Hosts /\ t \in Tasks /\ call[c] \in ClaimRequest
        /\ ClaimAllowed(call[c], seen[c]) /\ seen[c] \in CustodyRecord
    BY <1>2, RequestOp DEF ClaimSwap, At, TypeOK, CallsSound
  <2>2. PICK tok \in Tokens : /\ Write(c, Claimed(call[c], seen[c], tok))
                              /\ k = Claim(call[c], Claimed(call[c], seen[c], tok))
    BY <1>2 DEF ClaimSwap, Retry, told
  <2> DEFINE r == Claimed(call[c], seen[c], tok)
  <2>3. rec'[h][t] = r
    <3>1. Files(h, t, r)
      BY <2>2 DEF Write, Files
    <3> HIDE DEF r, h, t
    <3> QED
      BY <2>1, <3>1, FilesOne
  <2>4. r \in CustodyRecord
    BY <2>1, <2>2, ClaimedType
  <2>5. r.custody = "Owned" /\ r.exec = "InProgress" /\ r.worker = call[c].worker
    BY <2>1 DEF Claimed, ClaimAllowed, CustodyRecord
  <2>6. k.task = t /\ k.worker = call[c].worker /\ k.token = r.token
    BY <2>2 DEF Claim
  <2> HIDE DEF r, h, t
  <2> QED
    BY <2>1, <2>3, <2>4, <2>5, <2>6, NoneIsNoRecord
<1>3. ASSUME NEW c \in Callers, Issue(c)
      PROVE  FALSE
  BY <1>3 DEF Issue, PrepareCall, AcceptCall, ClaimCall, UpdateCall, Start, told
<1>4. ASSUME NEW c \in Callers, Serve(c), ~ ClaimRead(c), ~ ClaimSwap(c)
      PROVE  FALSE
  BY <1>4 DEF Serve, SeedOwned, AcceptInsert, AcceptInspect, PrepareRead, PrepareSwap, UpdateRead,
              UpdateSwap, GoSwap, Retry, told
<1>5. ASSUME NEW e \in net, NEW a \in Damaged, Damage(e, a)
      PROVE  FALSE
  BY <1>5 DEF Damage, told
<1>6. ASSUME NEW h \in Hosts, Crash(h)
      PROVE  FALSE
  BY <1>6 DEF Crash, told
<1>7. CASE UNCHANGED vars
  BY <1>7 DEF vars
<1> QED
  BY <1>1, <1>2, <1>3, <1>4, <1>5, <1>6, <1>7 DEF Next

LEMMA ClaimsRecordedStep ==
  ASSUME TypeOK, CustodyInv, [Next]_vars
  PROVE  ClaimsRecorded'
<1> USE DEF CustodyInv
<1> SUFFICES ASSUME NEW k \in claims'
             PROVE  \E h \in Hosts :
                      /\ Holds(h, k.task)' /\ rec'[h][k.task].exec # "Open"
                      /\ rec'[h][k.task].worker = k.worker
                      /\ rec'[h][k.task].token = k.token
  BY DEF ClaimsRecorded
<1>1. CASE k \in claims
  <2>1. PICK h \in Hosts :
          /\ Holds(h, k.task) /\ rec[h][k.task].exec # "Open"
          /\ rec[h][k.task].worker = k.worker /\ rec[h][k.task].token = k.token
    BY <1>1 DEF ClaimsRecorded
  <2>2. k.task \in Tasks /\ rec[h][k.task] # None
    BY <1>1, <2>1 DEF TypeOK, Holds
  <2> QED
    BY <2>1, <2>2, Frozen
<1>2. CASE k \notin claims
  BY <1>2, ClaimEffect DEF Holds
<1> QED
  BY <1>1, <1>2

(* An outcome is told to a caller when it is in the record.                *)
LEMMA OutcomeEffect ==
  ASSUME TypeOK, CustodyInv, [Next]_vars, NEW o \in outcomes', o \notin outcomes
  PROVE  /\ o.exec \notin {"Open", "InProgress"}
         /\ \E h \in Hosts, t \in Tasks :
              /\ o.task = t /\ rec'[h][t] # None /\ rec'[h][t].custody = "Owned"
              /\ rec'[h][t].exec = o.exec
              /\ rec'[h][t].reason = o.reason /\ rec'[h][t].result = o.result
<1> USE DEF CustodyInv
<1>1. ASSUME NEW c \in Callers, UpdateRead(c)
      PROVE  /\ o.exec \notin {"Open", "InProgress"}
             /\ \E h \in Hosts, t \in Tasks :
                  /\ o.task = t /\ rec'[h][t] # None /\ rec'[h][t].custody = "Owned"
                  /\ rec'[h][t].exec = o.exec
                  /\ rec'[h][t].reason = o.reason /\ rec'[h][t].result = o.result
  <2> DEFINE h == call[c].host
             t == call[c].task
  <2>1. h \in Hosts /\ t \in Tasks
    BY <1>1, RequestOp DEF UpdateRead, At, TypeOK
  <2>2. /\ UpdateReplay(call[c], rec[h][t])
        /\ o = Outcome(call[c]) /\ UNCHANGED rec
    BY <1>1 DEF UpdateRead, GoSwap, told, Current
  <2>3. rec[h][t].custody = "Owned"
    BY <2>1, <2>2 DEF UpdateReplay, Terminal, RecordsSound, TypeOK, CustodyRecord
  <2> QED
    BY <2>1, <2>2, <2>3 DEF UpdateReplay, Terminal, Outcome
<1>2. ASSUME NEW c \in Callers, UpdateSwap(c)
      PROVE  /\ o.exec \notin {"Open", "InProgress"}
             /\ \E h \in Hosts, t \in Tasks :
                  /\ o.task = t /\ rec'[h][t] # None /\ rec'[h][t].custody = "Owned"
                  /\ rec'[h][t].exec = o.exec
                  /\ rec'[h][t].reason = o.reason /\ rec'[h][t].result = o.result
  <2> DEFINE h == call[c].host
             t == call[c].task
             r == Updated(call[c], seen[c])
  <2>1. /\ h \in Hosts /\ t \in Tasks /\ call[c] \in UpdateRequest
        /\ UpdateAllowed(call[c], seen[c]) /\ seen[c] \in CustodyRecord
    BY <1>2, RequestOp DEF UpdateSwap, At, TypeOK, CallsSound
  <2>2. Unmoved(c) /\ Write(c, r) /\ o = Outcome(call[c])
    BY <1>2 DEF UpdateSwap, Retry, told
  <2>3. rec'[h][t] = r
    <3>1. Files(h, t, r)
      BY <2>2 DEF Write, Files
    <3> HIDE DEF r, h, t
    <3> QED
      BY <2>1, <3>1, FilesOne
  <2>4. r \in CustodyRecord
    BY <2>1, UpdatedType
  <2>5. seen[c].custody = "Owned"
    BY <2>1, <2>2 DEF Unmoved, Current, UpdateAllowed, RecordsSound, CustodyRecord
  <2>6. /\ r.custody = "Owned" /\ r.exec = o.exec /\ r.reason = o.reason /\ r.result = o.result
        /\ o.task = t
    BY <2>1, <2>2, <2>5 DEF Updated, Outcome, CustodyRecord
  <2>7. o.exec \notin {"Open", "InProgress"}
    BY <2>1, <2>2 DEF Outcome, UpdateRequest
  <2> HIDE DEF r, h, t
  <2> QED
    BY <2>1, <2>3, <2>4, <2>6, <2>7, NoneIsNoRecord
<1>3. ASSUME NEW c \in Callers, Issue(c)
      PROVE  FALSE
  BY <1>3 DEF Issue, PrepareCall, AcceptCall, ClaimCall, UpdateCall, Start, told
<1>4. ASSUME NEW c \in Callers, Serve(c), ~ UpdateRead(c), ~ UpdateSwap(c)
      PROVE  FALSE
  BY <1>4 DEF Serve, SeedOwned, AcceptInsert, AcceptInspect, PrepareRead, PrepareSwap, ClaimRead,
              ClaimSwap, GoSwap, Retry, told
<1>5. ASSUME NEW e \in net, NEW a \in Damaged, Damage(e, a)
      PROVE  FALSE
  BY <1>5 DEF Damage, told
<1>6. ASSUME NEW h \in Hosts, Crash(h)
      PROVE  FALSE
  BY <1>6 DEF Crash, told
<1>7. CASE UNCHANGED vars
  BY <1>7 DEF vars
<1> QED
  BY <1>1, <1>2, <1>3, <1>4, <1>5, <1>6, <1>7 DEF Next

LEMMA OutcomeStandsStep ==
  ASSUME TypeOK, CustodyInv, [Next]_vars
  PROVE  OutcomeStands'
<1> USE DEF CustodyInv
<1> SUFFICES ASSUME NEW o \in outcomes'
             PROVE  \E h \in Hosts :
                      /\ Holds(h, o.task)' /\ rec'[h][o.task].exec = o.exec
                      /\ rec'[h][o.task].reason = o.reason
                      /\ rec'[h][o.task].result = o.result
  BY DEF OutcomeStands
<1>1. CASE o \in outcomes
  <2>1. PICK h \in Hosts :
          /\ Holds(h, o.task) /\ rec[h][o.task].exec = o.exec
          /\ rec[h][o.task].reason = o.reason /\ rec[h][o.task].result = o.result
    BY <1>1 DEF OutcomeStands
  <2>2. /\ o.task \in Tasks /\ rec[h][o.task] # None
        /\ o.exec \notin {"Open", "InProgress"}
    BY <1>1, <2>1 DEF TypeOK, Holds
  <2>3. rec'[h][o.task] = rec[h][o.task]
    BY <2>1, <2>2, Frozen
  <2> QED
    BY <2>1, <2>3 DEF Holds
<1>2. CASE o \notin outcomes
  BY <1>2, OutcomeEffect DEF Holds
<1> QED
  BY <1>1, <1>2

----------------------------------------------------------------------------
(* The theorems.                                                           *)

(* The inductive invariant holds initially and is kept by every step.      *)
LEMMA CustodyInvInit == Init => CustodyInv
  BY DEF Init, CustodyInv, RecordsSound, CallsSound, EnvelopesIssued, OneSpeaker, Speaks,
         OriginFirst, GenerationsOrdered, ClaimsRecorded, OutcomeStands, CustodyConstants

LEMMA CustodyInvStep == TypeOK /\ CustodyInv /\ [Next]_vars => CustodyInv'
  BY RecordsSoundStep, CallsSoundStep, EnvelopesIssuedStep, OneSpeakerStep, OriginFirstStep,
     GenerationsOrderedStep,     ClaimsRecordedStep, OutcomeStandsStep DEF CustodyInv

THEOREM CustodyInvariant == Spec => []CustodyInv
<1>1. TypeOK /\ CustodyInv /\ [Next]_vars => CustodyInv'
  BY CustodyInvStep
<1> QED
  BY <1>1, CustodyInvInit, TypeCorrect, PTL DEF Spec

(* No two hosts ever hold one task, whatever happens to the envelopes and  *)
(* the calls.                                                              *)
THEOREM SingleCustody == Spec => []SingleCustodian
<1>1. CustodyInv => SingleCustodian
  BY DEF CustodyInv, SingleCustodian, OneSpeaker, Speaks, Holds
<1> QED
  BY <1>1, CustodyInvariant, PTL

(* All callers that were told they hold the claim of a task are one worker *)
(* with one token.                                                         *)
THEOREM SingleRunner == Spec => []OneRunner
<1>1. TypeOK /\ CustodyInv => OneRunner
  <2> SUFFICES ASSUME TypeOK, CustodyInv, NEW k1 \in claims, NEW k2 \in claims,
                      k1.task = k2.task
               PROVE  k1 = k2
    BY DEF OneRunner
  <2>1. PICK g1 \in Hosts : /\ Holds(g1, k1.task)
                            /\ rec[g1][k1.task].worker = k1.worker
                            /\ rec[g1][k1.task].token = k1.token
    BY DEF CustodyInv, ClaimsRecorded
  <2>2. PICK g2 \in Hosts : /\ Holds(g2, k2.task)
                            /\ rec[g2][k2.task].worker = k2.worker
                            /\ rec[g2][k2.task].token = k2.token
    BY DEF CustodyInv, ClaimsRecorded
  <2>3. k1.task \in Tasks
    BY DEF TypeOK
  <2>4. g1 = g2
    BY <2>1, <2>2, <2>3 DEF CustodyInv, OneSpeaker, Speaks, Holds
  <2> QED
    BY <2>1, <2>2, <2>4 DEF TypeOK
<1> QED
  BY <1>1, CustodyInvariant, TypeCorrect, PTL

(* An outcome a caller was told was recorded is never lost or replaced.    *)
THEOREM OutcomesStand == Spec => []OutcomeStands
<1>1. CustodyInv => OutcomeStands
  BY DEF CustodyInv
<1> QED
  BY <1>1, CustodyInvariant, PTL

(* Of competing exports of a task one wins: intact envelopes of one        *)
(* generation are identical.                                               *)
THEOREM SingleExport == Spec => []OneExport
<1>1. TypeOK /\ CustodyInv => OneExport
  <2> SUFFICES ASSUME TypeOK, CustodyInv, NEW e1 \in net, NEW e2 \in net,
                      Verified(e1), Verified(e2), e1.record.task = e2.record.task,
                      e1.record.generation = e2.record.generation
               PROVE  e1 = e2
    BY DEF OneExport
  <2> DEFINE t == e1.record.task
  <2>1. /\ e1 \in HandoffEnvelope /\ e2 \in HandoffEnvelope
        /\ e1.record # None /\ e2.record # None /\ t \in Tasks
    BY NoneIsNoRecord DEF TypeOK, HandoffEnvelope, CustodyRecord
  <2>2. PICK g1 \in Hosts : rec[g1][t] = e1.record
    BY DEF CustodyInv, EnvelopesIssued
  <2>3. PICK g2 \in Hosts : rec[g2][t] = e2.record
    BY DEF CustodyInv, EnvelopesIssued
  <2>4. /\ e1.record.custody = "TransferPending" /\ e2.record.custody = "TransferPending"
    BY DEF CustodyInv, EnvelopesIssued
  <2>5. g1 = g2
    BY <2>1, <2>2, <2>3, <2>4 DEF CustodyInv, GenerationsOrdered
  <2>6. e1.record = e2.record /\ e1.digest = e2.digest
    BY <2>2, <2>3, <2>5 DEF Verified
  <2> QED
    BY <2>1, <2>6 DEF HandoffEnvelope
<1> QED
  BY <1>1, CustodyInvariant, TypeCorrect, PTL

(* A record that changes moves on to a later stage.                        *)
LEMMA MovesStep ==
  ASSUME TypeOK, CustodyInv, [Next]_vars, NEW h \in Hosts, NEW t \in Tasks,
         rec'[h][t] # rec[h][t]
  PROVE  Stage(rec'[h][t]) > Stage(rec[h][t])
<1>0. CallsSound /\ RecordsSound
  BY DEF CustodyInv
<1>1. Writes(h, t)
  BY <1>0, StoreEffect, FilesOne DEF Writes, Seeds, Offers, Takes, GivesOut, Records
<1>2. rec[h][t] \in CustodyRecord \cup {None}
  BY DEF TypeOK
<1>3. CASE Seeds(h, t) \/ Takes(h, t)
  <2>1. rec[h][t] = None /\ Stage(rec[h][t]) = 0
    BY <1>3 DEF Seeds, Takes, Stage
  <2>2. Stage(rec'[h][t]) \in {1, 2, 3}
    BY <1>3, <2>1 DEF Stage
  <2> QED
    BY <2>1, <2>2
<1>4. CASE Offers(h, t)
  <2>1. PICK q \in PrepareRequest : /\ PrepareAllowed(q, rec[h][t])
                                    /\ Files(h, t, Offered(q, rec[h][t]))
    BY <1>4 DEF Offers
  <2>2. rec[h][t] \in CustodyRecord
    BY <1>2, <2>1 DEF PrepareAllowed
  <2>3. rec'[h][t] = Offered(q, rec[h][t]) /\ rec'[h][t] \in CustodyRecord
    BY <2>1, <2>2, FilesOne, OfferedType
  <2>4. rec'[h][t].custody = "TransferPending"
    BY <2>2, <2>3 DEF Offered, CustodyRecord
  <2> QED
    BY <2>1, <2>2, <2>3, <2>4, NoneIsNoRecord DEF Stage, PrepareAllowed, CustodyRecord
<1>5. CASE GivesOut(h, t)
  <2>1. PICK q \in ClaimRequest, tok \in Tokens :
          ClaimAllowed(q, rec[h][t]) /\ Files(h, t, Claimed(q, rec[h][t], tok))
    BY <1>5 DEF GivesOut
  <2>2. rec[h][t] \in CustodyRecord
    BY <1>2, <2>1 DEF ClaimAllowed
  <2>3. rec'[h][t] = Claimed(q, rec[h][t], tok) /\ rec'[h][t] \in CustodyRecord
    BY <2>1, <2>2, FilesOne, ClaimedType
  <2>4. rec'[h][t].exec = "InProgress"
    BY <2>2, <2>3 DEF Claimed, CustodyRecord
  <2> QED
    BY <2>1, <2>2, <2>3, <2>4, NoneIsNoRecord DEF Stage, ClaimAllowed
<1>6. CASE Records(h, t)
  <2>1. PICK q \in UpdateRequest :
          UpdateAllowed(q, rec[h][t]) /\ Files(h, t, Updated(q, rec[h][t]))
    BY <1>6 DEF Records
  <2>2. rec[h][t] \in CustodyRecord /\ rec[h][t].custody = "Owned"
    BY <1>0, <1>2, <2>1 DEF UpdateAllowed, RecordsSound, CustodyRecord
  <2>3. rec'[h][t] = Updated(q, rec[h][t]) /\ rec'[h][t] \in CustodyRecord
    BY <2>1, <2>2, FilesOne, UpdatedType
  <2>4. /\ rec'[h][t].exec = q.exec /\ rec'[h][t].custody = "Owned"
        /\ q.exec \notin {"Open", "InProgress"}
    BY <2>2, <2>3 DEF Updated, CustodyRecord, UpdateRequest
  <2> QED
    BY <2>1, <2>2, <2>3, <2>4, NoneIsNoRecord DEF Stage, UpdateAllowed
<1> QED
  BY <1>1, <1>3, <1>4, <1>5, <1>6 DEF Writes

(* A store's record of a task only moves on through its stages.            *)
THEOREM RecordsMoveOn == Spec => MovesOn
<1>1. TypeOK /\ CustodyInv /\ [Next]_vars =>
        [\A h \in Hosts, t \in Tasks :
            rec'[h][t] # rec[h][t] => Stage(rec'[h][t]) > Stage(rec[h][t])]_vars
  BY MovesStep
<1> QED
  BY <1>1, CustodyInvariant, TypeCorrect, PTL DEF Spec, MovesOn

(* What a caller is about to swap from is the record or behind it.         *)
BehindBy(c) ==
    phase[c] = "swap" /\ call[c].op # "accept" =>
        Current(c) = seen[c] \/ Stage(Current(c)) > Stage(seen[c])

SnapshotsBehind == \A c \in Callers : BehindBy(c)

LEMMA StageNumber == \A r : Stage(r) \in 0..3
  BY DEF Stage

LEMMA SnapshotsStep ==
  ASSUME TypeOK, CustodyInv, SnapshotsBehind, [Next]_vars
  PROVE  SnapshotsBehind'
<1>a. ASSUME NEW d \in Callers, phase'[d] # "swap" \/ call'[d].op = "accept"
      PROVE  BehindBy(d)'
  BY <1>a DEF BehindBy
<1>b. ASSUME NEW d \in Callers, UNCHANGED <<phase[d], call[d], seen[d]>>
      PROVE  BehindBy(d)'
  <2> SUFFICES ASSUME phase[d] = "swap", call[d].op # "accept"
               PROVE  Current(d)' = seen[d] \/ Stage(Current(d)') > Stage(seen[d])
    BY <1>b DEF BehindBy
  <2>1. Current(d) = seen[d] \/ Stage(Current(d)) > Stage(seen[d])
    BY DEF SnapshotsBehind, BehindBy
  <2>2. call[d].host \in Hosts /\ call[d].task \in Tasks
    BY DEF TypeOK, Requests, PrepareRequest, ClaimRequest, UpdateRequest
  <2>3. Current(d)' = Current(d) \/ Stage(Current(d)') > Stage(Current(d))
    BY <1>b, <2>2, MovesStep DEF Current
  <2> QED
    BY <2>1, <2>3, StageNumber
<1>1. ASSUME NEW c \in Callers, Issue(c)
      PROVE  SnapshotsBehind'
  <2>1. \A d \in Callers : d # c => UNCHANGED <<phase[d], call[d], seen[d]>>
    BY <1>1 DEF Issue, PrepareCall, AcceptCall, ClaimCall, UpdateCall, Start, TypeOK
  <2>2. phase'[c] # "swap" \/ call'[c].op = "accept"
    BY <1>1 DEF Issue, PrepareCall, AcceptCall, ClaimCall, UpdateCall, Start, TypeOK,
                AcceptRequest
  <2> QED
    BY <2>1, <2>2, <1>a, <1>b DEF SnapshotsBehind
<1>2. ASSUME NEW c \in Callers, Serve(c)
      PROVE  SnapshotsBehind'
  <2>1. \A d \in Callers : d # c => UNCHANGED <<phase[d], call[d], seen[d]>>
    BY <1>2 DEF Serve, SeedOwned, PrepareRead, PrepareSwap, AcceptInsert, AcceptInspect,
                ClaimRead, ClaimSwap, UpdateRead, UpdateSwap, Return, GoSwap, Retry, TypeOK
  <2>2. phase'[c] # "swap" \/ GoSwap(c)
    BY <1>2 DEF Serve, SeedOwned, PrepareRead, PrepareSwap, AcceptInsert, AcceptInspect,
                ClaimRead, ClaimSwap, UpdateRead, UpdateSwap, Return, Retry, TypeOK
  <2>3. CASE GoSwap(c)
    <3>1. /\ call'[c] = call[c] /\ rec' = rec
          /\ seen'[c] = Current(c)
      BY <2>3 DEF GoSwap, TypeOK
    <3>2. BehindBy(c)'
      BY <3>1 DEF BehindBy, Current
    <3> QED
      BY <2>1, <3>2, <1>b DEF SnapshotsBehind
  <2> QED
    BY <2>1, <2>2, <2>3, <1>a, <1>b DEF SnapshotsBehind
<1>3. ASSUME NEW e \in net, NEW a \in Damaged, Damage(e, a)
      PROVE  SnapshotsBehind'
  BY <1>3, <1>b DEF Damage, SnapshotsBehind
<1>4. ASSUME NEW h \in Hosts, Crash(h)
      PROVE  SnapshotsBehind'
  <2>1. \A d \in Callers : phase'[d] = "idle" \/ UNCHANGED <<phase[d], call[d], seen[d]>>
    BY <1>4 DEF Crash
  <2> QED
    BY <2>1, <1>a, <1>b DEF SnapshotsBehind
<1>5. CASE UNCHANGED vars
  BY <1>5, <1>b DEF vars, SnapshotsBehind
<1> QED
  BY <1>1, <1>2, <1>3, <1>4, <1>5 DEF Next

(* A caller that starts over finds the record past the stage it decided    *)
(* on.                                                                     *)
THEOREM RetriesAreProgress == Spec => RetriesPay
<1>1. Init => SnapshotsBehind
  BY DEF Init, SnapshotsBehind, BehindBy
<1>2. TypeOK /\ CustodyInv /\ SnapshotsBehind /\ [Next]_vars => SnapshotsBehind'
  BY SnapshotsStep
<1>3. TypeOK /\ SnapshotsBehind /\ [Next]_vars =>
        [\A c \in Callers :
            phase[c] = "swap" /\ phase'[c] = "read" =>
                Stage(Current(c)) > Stage(seen[c])]_vars
  <2> SUFFICES ASSUME TypeOK, SnapshotsBehind, Next, NEW c \in Callers,
                      phase[c] = "swap", phase'[c] = "read"
               PROVE  Stage(Current(c)) > Stage(seen[c])
    BY DEF vars
  <2>1. \E d \in Callers : d = c /\ Serve(d)
    <3>1. ASSUME NEW d \in Callers, d # c, Issue(d) \/ Serve(d)
          PROVE  FALSE
      BY <3>1 DEF Issue, PrepareCall, AcceptCall, ClaimCall, UpdateCall, Start,
                  Serve, SeedOwned, PrepareRead, PrepareSwap, AcceptInsert, AcceptInspect,
                  ClaimRead, ClaimSwap, UpdateRead, UpdateSwap, Return, GoSwap, Retry, TypeOK
    <3>2. ~Issue(c)
      BY DEF Issue, PrepareCall, AcceptCall, ClaimCall, UpdateCall, Start
    <3>3. ASSUME NEW h \in Hosts, Crash(h)
          PROVE  FALSE
      BY <3>3 DEF Crash
    <3>4. ASSUME NEW e \in net, NEW a \in Damaged, Damage(e, a)
          PROVE  FALSE
      BY <3>4 DEF Damage
    <3> QED
      BY <3>1, <3>2, <3>3, <3>4 DEF Next
  <2>2. Retry(c) /\ call[c].op # "accept"
    BY <2>1 DEF Serve, SeedOwned, PrepareRead, PrepareSwap, AcceptInsert, AcceptInspect,
                ClaimRead, ClaimSwap, UpdateRead, UpdateSwap, Return, GoSwap, At, TypeOK
  <2> QED
    BY <2>2 DEF SnapshotsBehind, BehindBy, Retry, Unmoved
<1> QED
  BY <1>1, <1>2, <1>3, CustodyInvariant, TypeCorrect, PTL DEF Spec, RetriesPay

----------------------------------------------------------------------------
(***************************************************************************)
(* TaskCustody implements CustodyLedger: the stores of all hosts together  *)
(* behave as one ledger, for any number of hosts, tasks and callers.       *)
(***************************************************************************)

(* Unclaimed is the same as open, and what is held is not offered.         *)
FieldsSound ==
    \A h \in Hosts, t \in Tasks : rec[h][t] # None =>
        /\ rec[h][t].custody = "Owned" => rec[h][t].target = None
        /\ rec[h][t].exec = "Open" <=> rec[h][t].worker = None

(* A task that is on record somewhere has a newest record.                 *)
NewestExists ==
    \A t \in Tasks :
        (\E h \in Hosts : rec[h][t] # None) => \E h \in Hosts : IsNewest(h, t)

NewestPicks == \A t \in Tasks, h \in Hosts : IsNewest(h, t) => Newest(t) = rec[h][t]

AllInv == TypeOK /\ CustodyInv /\ FieldsSound /\ NewestExists

----------------------------------------------------------------------------
(* The newest record.                                                      *)

(* There is one newest record at most, so it is what Newest chooses.       *)
LEMMA NewestIs == TypeOK /\ CustodyInv => NewestPicks
<1> SUFFICES ASSUME TypeOK, CustodyInv, NEW t \in Tasks, NEW h \in Hosts, IsNewest(h, t)
             PROVE  Newest(t) = rec[h][t]
  BY DEF NewestPicks
<1>1. ASSUME NEW g \in Hosts, IsNewest(g, t) PROVE g = h
  <2>1. CASE Holds(g, t) \/ Holds(h, t)
    <3>1. Holds(g, t) /\ Holds(h, t)
      BY <1>1, <2>1 DEF IsNewest
    <3> QED BY <3>1 DEF CustodyInv, OneSpeaker, Speaks, Holds
  <2>2. CASE ~ Holds(g, t) /\ ~ Holds(h, t)
    <3>1. /\ rec[g][t] \in CustodyRecord /\ rec[h][t] \in CustodyRecord
          /\ rec[g][t].custody = "TransferPending" /\ rec[h][t].custody = "TransferPending"
      BY <1>1, <2>2 DEF TypeOK, IsNewest, Holds, CustodyRecord
    <3>2. rec[g][t].generation = rec[h][t].generation
      BY <1>1, <3>1 DEF IsNewest, CustodyRecord
    <3> QED BY <1>1, <3>1, <3>2 DEF CustodyInv, GenerationsOrdered, IsNewest
  <2> QED BY <2>1, <2>2
<1>2. PICK g \in Hosts : g = CHOOSE x \in Hosts : IsNewest(x, t)
  OBVIOUS
<1>3. IsNewest(g, t)
  BY <1>2
<1> QED BY <1>1, <1>2, <1>3 DEF Newest, IsNewest

(* A store that speaks for a task has its newest record.                   *)
LEMMA SpeakerNewest ==
  ASSUME TypeOK, CustodyInv, NEW t \in Tasks, NEW h \in Hosts, Speaks(h, t)
  PROVE  IsNewest(h, t)
<1>1. ASSUME NEW g \in Hosts, Holds(g, t) PROVE Holds(h, t)
  <2>1. Speaks(g, t)
    BY <1>1 DEF Holds, Speaks
  <2> QED BY <1>1, <2>1 DEF CustodyInv, OneSpeaker
<1> QED BY <1>1 DEF IsNewest, Speaks, CustodyInv, GenerationsOrdered

(* A write about one task leaves the newest records of the others.         *)
LEMMA OthersStay ==
  ASSUME AllInv, NewestPicks, NewestPicks', NEW u \in Tasks,
         \A g \in Hosts : rec'[g][u] = rec[g][u]
  PROVE  Newest(u)' = Newest(u)
<1>1. CASE \A g \in Hosts : rec[g][u] = None
  BY <1>1 DEF Newest
<1>2. CASE \E g \in Hosts : rec[g][u] # None
  <2>1. PICK h \in Hosts : IsNewest(h, u)
    BY <1>2 DEF AllInv, NewestExists
  <2>2. IsNewest(h, u)'
    BY <2>1 DEF IsNewest, Holds
  <2> QED BY <2>1, <2>2 DEF NewestPicks
<1> QED BY <1>1, <1>2

----------------------------------------------------------------------------
(* What each write does to the newest record of its task.                  *)

(* The store that wrote holds the task now, or it alone could have.        *)
LEMMA WriterNewest ==
  ASSUME TypeOK, NEW h \in Hosts, NEW t \in Tasks, NEW r \in CustodyRecord, Files(h, t, r),
         \A g \in Hosts : g # h /\ rec[g][t] # None => rec[g][t].generation <= r.generation,
         \A g \in Hosts : g # h => ~ Holds(g, t)
  PROVE  rec'[h][t] = r /\ IsNewest(h, t)'
<1>1. \A g \in Hosts : rec'[g][t] = IF g = h THEN r ELSE rec[g][t]
  BY FilesOne
<1>2. r # None /\ r.generation <= r.generation
  BY NoneIsNoRecord DEF CustodyRecord
<1> QED BY <1>1, <1>2 DEF IsNewest, Holds

(* What the newest record was and what it is now.                          *)
Moved(t, was, is) ==
    /\ \E h \in Hosts : IsNewest(h, t)'
    /\ NewestPicks /\ NewestPicks' => Newest(t) = was /\ Newest(t)' = is

(* The record that is held is the newest one, before and after it changes. *)
LEMMA HolderMoves ==
  ASSUME AllInv, NEW h \in Hosts, NEW t \in Tasks, Holds(h, t),
         NEW r \in CustodyRecord, Files(h, t, r), rec[h][t].generation <= r.generation
  PROVE  Moved(t, rec[h][t], r)
<1> USE DEF AllInv
<1>1. Speaks(h, t) /\ IsNewest(h, t)
  BY SpeakerNewest DEF Holds, Speaks
<1>2. ASSUME NEW g \in Hosts, g # h PROVE ~ Holds(g, t)
  BY <1>1, <1>2 DEF CustodyInv, OneSpeaker, Speaks, Holds
<1>3. ASSUME NEW g \in Hosts, rec[g][t] # None PROVE rec[g][t].generation <= r.generation
  <2>1. rec[g][t].generation <= rec[h][t].generation
    BY <1>1, <1>3 DEF IsNewest
  <2>2. rec[g][t] \in CustodyRecord /\ rec[h][t] \in CustodyRecord
    BY <1>1, <1>3 DEF TypeOK, IsNewest
  <2> QED BY <2>1, <2>2 DEF CustodyRecord
<1>4. rec'[h][t] = r /\ IsNewest(h, t)'
  BY <1>2, <1>3, WriterNewest
<1> QED BY <1>1, <1>4 DEF Moved, NewestPicks

(* The first record of a task is the newest one.                           *)
LEMMA SeedMoves ==
  ASSUME AllInv, NEW h \in Hosts, NEW t \in Tasks, Seeds(h, t)
  PROVE  Moved(t, None, SeedRecord(t, Origin[t]))
<1> USE DEF AllInv
<1>1. \A g \in Hosts : rec[g][t] = None
  BY DEF Seeds, CustodyInv, OriginFirst
<1>2. SeedRecord(t, Origin[t]) \in CustodyRecord
  BY SeedType, CustodyConstants
<1>3. rec'[h][t] = SeedRecord(t, Origin[t]) /\ IsNewest(h, t)'
  BY <1>1, <1>2, WriterNewest DEF Seeds, Holds
<1> QED BY <1>1, <1>3 DEF Moved, NewestPicks, Newest

(* What an import finds: the offer it was made from, the newest record of  *)
(* the task.                                                               *)
LEMMA TakeMoves ==
  ASSUME AllInv, NEW h \in Hosts, NEW t \in Tasks, Takes(h, t)
  PROVE  \E g \in Hosts, q \in Requests :
           /\ q.op = "accept" /\ q.env.record = rec[g][t] /\ rec[g][t] # None
           /\ rec[g][t].custody = "TransferPending" /\ rec[g][t].target = q.target
           /\ Files(h, t, Accepted(q)) /\ Moved(t, rec[g][t], Accepted(q))
<1> USE DEF AllInv
<1>1. PICK q \in Requests : /\ q.op = "accept" /\ Importable(q) /\ h = q.host /\ t = q.task
                            /\ Files(h, t, Accepted(q))
  BY DEF Takes
<1>2. PICK g \in Hosts : rec[g][t] = q.env.record
  BY <1>1 DEF Importable, CustodyInv, EnvelopesIssued
<1>3. rec[g][t] \in CustodyRecord /\ rec[g][t] # None
  BY <1>1, <1>2, RequestOp, NoneIsNoRecord DEF HandoffEnvelope
<1>4. rec[g][t].custody = "TransferPending" /\ rec[g][t].target = q.target /\ g # h
  BY <1>1, <1>2, <1>3 DEF Importable, Takes
<1>5. IsNewest(g, t)
  BY <1>1, <1>2, <1>3, <1>4, SpeakerNewest DEF Importable, Speaks, Takes
<1>6. \A f \in Hosts : ~ Holds(f, t)
  BY <1>4, <1>5 DEF IsNewest, Holds
<1>7. Accepted(q) \in CustodyRecord
  BY <1>1, AcceptedType
<1>8. Accepted(q).generation = rec[g][t].generation
  BY <1>2, <1>3 DEF Accepted, CustodyRecord
<1>9. rec'[h][t] = Accepted(q) /\ IsNewest(h, t)'
  BY <1>1, <1>5, <1>6, <1>7, <1>8, WriterNewest DEF IsNewest
<1> QED BY <1>1, <1>2, <1>3, <1>4, <1>5, <1>9 DEF Moved, NewestPicks

----------------------------------------------------------------------------
(* FieldsSound and NewestExists are kept.                                  *)

LEMMA FieldsWritten ==
  ASSUME AllInv, NEW h \in Hosts, NEW t \in Tasks, NEW r, Files(h, t, r),
         r.custody = "Owned" => r.target = None, r.exec = "Open" <=> r.worker = None
  PROVE  FieldsSound'
<1>1. \A g \in Hosts, u \in Tasks : rec'[g][u] = IF g = h /\ u = t THEN r ELSE rec[g][u]
  BY FilesOne DEF AllInv
<1> QED BY <1>1 DEF AllInv, FieldsSound

LEMMA ExistsWritten ==
  ASSUME AllInv, NEW h \in Hosts, NEW t \in Tasks, NEW r, Files(h, t, r),
         \E g \in Hosts : IsNewest(g, t)'
  PROVE  NewestExists'
<1>1. \A g \in Hosts, u \in Tasks : u # t => rec'[g][u] = rec[g][u]
  BY FilesOne DEF AllInv
<1>2. ASSUME NEW u \in Tasks, u # t, NEW g \in Hosts, IsNewest(g, u) PROVE IsNewest(g, u)'
  BY <1>1, <1>2 DEF IsNewest, Holds
<1>3. ASSUME NEW u \in Tasks, u # t, NEW g \in Hosts, rec'[g][u] # None
      PROVE  \E f \in Hosts : IsNewest(f, u)'
  BY <1>1, <1>2, <1>3 DEF AllInv, NewestExists
<1> QED BY <1>3 DEF NewestExists

----------------------------------------------------------------------------
(* One lemma per write: what is kept, and the step of the ledger.          *)

Kept == FieldsSound' /\ NewestExists'

(* The ledger's step, when the newest records are known to be unique now   *)
(* and afterwards.                                                         *)
Steps(A) == NewestPicks /\ NewestPicks' => A

LEMMA Others ==
  ASSUME AllInv, NewestPicks, NewestPicks', NEW h \in Hosts, NEW t \in Tasks, NEW r, Files(h, t, r)
  PROVE  \A u \in Tasks : u # t => Newest(u)' = Newest(u)
<1>1. \A g \in Hosts, u \in Tasks : u # t => rec'[g][u] = rec[g][u]
  BY FilesOne DEF AllInv
<1> QED BY <1>1, OthersStay

LEMMA SeedStep ==
  ASSUME AllInv, NEW h \in Hosts, NEW t \in Tasks, Seeds(h, t)
  PROVE  Kept /\ Steps(Ledger!Next)
<1> DEFINE r == SeedRecord(t, Origin[t])
<1>1. Files(h, t, r) /\ Moved(t, None, r)
  BY SeedMoves DEF Seeds
<1>2. /\ r.owner = Origin[t] /\ r.target = None /\ r.generation = 0 /\ r.exec = "Open"
      /\ r.worker = None
  BY DEF SeedRecord
<1>3. r # None /\ Origin[t] \in Agents
  BY SeedType, NoneIsNoRecord, CustodyConstants
<1> HIDE DEF r
<1>4. Kept
  BY <1>1, <1>2, FieldsWritten, ExistsWritten DEF Kept, Moved
<1>5. ASSUME NewestPicks, NewestPicks' PROVE Ledger!Next
  <2>1. Newest(t) = None /\ Newest(t)' = r
    BY <1>1, <1>5 DEF Moved
  <2>2. \A u \in Tasks : u # t => Newest(u)' = Newest(u)
    BY <1>1, <1>5, Others
  <2>3. Ledger!Register(t, Origin[t])
    BY <1>2, <1>3, <2>1, <2>2
       DEF Ledger!Register, CustodianIn, OfferedToIn, GenerationIn, RunnerIn, ReportIn
  <2> QED BY <1>3, <2>3 DEF Ledger!Next
<1> QED BY <1>4, <1>5 DEF Steps

LEMMA OfferStep ==
  ASSUME AllInv, NEW h \in Hosts, NEW t \in Tasks, Offers(h, t)
  PROVE  Kept /\ Steps(Ledger!Next)
<1>1. PICK q \in PrepareRequest :
        PrepareAllowed(q, rec[h][t]) /\ Files(h, t, Offered(q, rec[h][t]))
  BY DEF Offers
<1> DEFINE old == rec[h][t]
           r == Offered(q, old)
<1>2. old \in CustodyRecord /\ old # None /\ r \in CustodyRecord /\ q.target \in Agents
  BY <1>1, OfferedType DEF AllInv, TypeOK, PrepareAllowed, PrepareRequest
<1>3. /\ old.custody = "Owned" /\ old.exec = "Open" /\ old.target = None /\ old.worker = None
      /\ old.owner \in Agents /\ old.owner # q.target /\ q.target # None /\ old.generation \in Nat
  BY <1>1, <1>2, CustodyConstants DEF AllInv, FieldsSound, PrepareAllowed, CustodyRecord
<1>4. /\ r.custody = "TransferPending" /\ r.owner = old.owner /\ r.target = q.target
      /\ r.generation = old.generation + 1 /\ r.exec = old.exec /\ r.worker = old.worker
  BY <1>2 DEF Offered, CustodyRecord
<1>5. r # None
  BY <1>2, NoneIsNoRecord
<1>6. Holds(h, t) /\ Files(h, t, r)
  BY <1>1, <1>2, <1>3 DEF Holds
<1>7. Moved(t, old, r)
  <2> HIDE DEF r
  <2> QED BY <1>2, <1>3, <1>4, <1>6, HolderMoves
<1> HIDE DEF r, old
<1>8. Kept
  BY <1>3, <1>4, <1>6, <1>7, FieldsWritten, ExistsWritten DEF Kept, Moved
<1>9. ASSUME NewestPicks, NewestPicks' PROVE Ledger!Next
  <2>1. Newest(t) = old /\ Newest(t)' = r
    BY <1>7, <1>9 DEF Moved
  <2>2. \A u \in Tasks : u # t => Newest(u)' = Newest(u)
    BY <1>6, <1>9, Others
  <2>3. old.owner # None
    BY <1>3, CustodyConstants
  <2>4. Ledger!Offer(t, q.target)
    BY <1>2, <1>3, <1>4, <1>5, <2>1, <2>2, <2>3
       DEF Ledger!Offer, CustodianIn, OfferedToIn, GenerationIn, RunnerIn, ReportIn
  <2> QED BY <1>2, <2>4 DEF Ledger!Next
<1> QED BY <1>8, <1>9 DEF Steps

LEMMA TakeStep ==
  ASSUME AllInv, NEW h \in Hosts, NEW t \in Tasks, Takes(h, t)
  PROVE  Kept /\ Steps(Ledger!Next)
<1>1. PICK g \in Hosts, q \in Requests :
        /\ q.op = "accept" /\ q.env.record = rec[g][t] /\ rec[g][t] # None
        /\ rec[g][t].custody = "TransferPending" /\ rec[g][t].target = q.target
        /\ Files(h, t, Accepted(q)) /\ Moved(t, rec[g][t], Accepted(q))
  BY TakeMoves
<1> DEFINE old == rec[g][t]
           r == Accepted(q)
<1>2. old \in CustodyRecord /\ r \in CustodyRecord /\ q.target \in Agents
  BY <1>1, AcceptedType, RequestOp DEF AllInv, TypeOK
<1>3. old.exec = "Open" /\ old.worker = None
  BY <1>1 DEF AllInv, CustodyInv, RecordsSound, FieldsSound
<1>4. /\ r.custody = "Owned" /\ r.owner = q.target /\ r.target = None
      /\ r.generation = old.generation /\ r.exec = old.exec /\ r.worker = old.worker
  BY <1>1, <1>2 DEF Accepted, CustodyRecord
<1>5. r # None /\ old # None /\ old.target = q.target /\ q.target # None
  BY <1>1, <1>2, NoneIsNoRecord, CustodyConstants
<1>6. Files(h, t, r) /\ Moved(t, old, r)
  BY <1>1
<1> HIDE DEF r, old
<1>7. Kept
  BY <1>3, <1>4, <1>6, FieldsWritten, ExistsWritten DEF Kept, Moved
<1>8. ASSUME NewestPicks, NewestPicks' PROVE Ledger!Next
  <2>1. Newest(t) = old /\ Newest(t)' = r
    BY <1>6, <1>8 DEF Moved
  <2>2. \A u \in Tasks : u # t => Newest(u)' = Newest(u)
    BY <1>6, <1>8, Others
  <2>3. Ledger!Take(t)
    BY <1>3, <1>4, <1>5, <2>1, <2>2
       DEF Ledger!Take, CustodianIn, OfferedToIn, GenerationIn, RunnerIn, ReportIn
  <2> QED BY <2>3 DEF Ledger!Next
<1> QED BY <1>7, <1>8 DEF Steps

LEMMA RunStep ==
  ASSUME AllInv, NEW h \in Hosts, NEW t \in Tasks, GivesOut(h, t)
  PROVE  Kept /\ Steps(Ledger!Next)
<1>1. PICK q \in ClaimRequest, tok \in Tokens :
        Fresh(tok) /\ ClaimAllowed(q, rec[h][t]) /\ Files(h, t, Claimed(q, rec[h][t], tok))
  BY DEF GivesOut
<1> DEFINE old == rec[h][t]
           r == Claimed(q, old, tok)
<1>2. old \in CustodyRecord /\ old # None /\ r \in CustodyRecord /\ q.worker \in Workers
  BY <1>1, ClaimedType DEF AllInv, TypeOK, ClaimAllowed, ClaimRequest
<1>3. /\ old.custody = "Owned" /\ old.exec = "Open" /\ old.target = None /\ old.worker = None
      /\ old.owner \in Agents /\ old.owner # None /\ q.worker # None /\ old.generation \in Nat
  BY <1>1, <1>2, CustodyConstants DEF AllInv, FieldsSound, ClaimAllowed, CustodyRecord
<1>4. /\ r.custody = "Owned" /\ r.owner = old.owner /\ r.target = None
      /\ r.generation = old.generation /\ r.exec = "InProgress" /\ r.worker = q.worker
      /\ r.token = tok
  BY <1>2, <1>3 DEF Claimed, CustodyRecord
<1>5. r # None
  BY <1>2, NoneIsNoRecord
<1>6. Holds(h, t) /\ Files(h, t, r)
  BY <1>1, <1>2, <1>3 DEF Holds
<1>7. Moved(t, old, r)
  <2> HIDE DEF r
  <2> QED BY <1>2, <1>3, <1>4, <1>6, HolderMoves
<1>8. \A u \in Tasks, g \in Hosts : rec[g][u] # None => rec[g][u].token # tok
  BY <1>1 DEF Fresh
<1> HIDE DEF r, old
<1>9. Kept
  BY <1>3, <1>4, <1>6, <1>7, FieldsWritten, ExistsWritten DEF Kept, Moved
<1>10. ASSUME NewestPicks, NewestPicks' PROVE Ledger!Next
  <2>1. Newest(t) = old /\ Newest(t)' = r
    BY <1>7, <1>10 DEF Moved
  <2>2. \A u \in Tasks : u # t => Newest(u)' = Newest(u)
    BY <1>6, <1>10, Others
  <2>3. ASSUME NEW u \in Tasks, Newest(u) # None PROVE Newest(u).token # tok
    <3>1. PICK g \in Hosts : rec[g][u] # None
      BY <2>3 DEF Newest
    <3>2. PICK f \in Hosts : IsNewest(f, u)
      BY <3>1 DEF AllInv, NewestExists
    <3> QED BY <1>8, <1>10, <3>2 DEF NewestPicks, IsNewest
  <2>4. Ledger!Run(t, q.worker, tok)
    BY <1>2, <1>3, <1>4, <1>5, <2>1, <2>2, <2>3
       DEF Ledger!Run, CustodianIn, OfferedToIn, GenerationIn, RunnerIn, ReportIn
  <2> QED BY <1>2, <2>4 DEF Ledger!Next
<1> QED BY <1>9, <1>10 DEF Steps

LEMMA ReportStep ==
  ASSUME AllInv, NEW h \in Hosts, NEW t \in Tasks, Records(h, t)
  PROVE  Kept /\ Steps(Ledger!Next)
<1>1. PICK q \in UpdateRequest :
        UpdateAllowed(q, rec[h][t]) /\ Files(h, t, Updated(q, rec[h][t]))
  BY DEF Records
<1> DEFINE old == rec[h][t]
           r == Updated(q, old)
           o == <<q.exec, q.reason, q.result>>
<1>2. old \in CustodyRecord /\ old # None /\ r \in CustodyRecord
  BY <1>1, UpdatedType DEF AllInv, TypeOK, UpdateAllowed
<1>3. /\ old.custody = "Owned" /\ old.exec = "InProgress" /\ old.target = None
      /\ old.worker # None /\ old.generation \in Nat
  BY <1>1, <1>2 DEF AllInv, CustodyInv, RecordsSound, FieldsSound, UpdateAllowed, CustodyRecord
<1>4. /\ r.custody = "Owned" /\ r.owner = old.owner /\ r.target = None
      /\ r.generation = old.generation /\ r.exec = q.exec /\ r.worker = old.worker
      /\ r.token = old.token /\ r.reason = q.reason /\ r.result = q.result
  BY <1>2, <1>3 DEF Updated, CustodyRecord
<1>5. r # None
  BY <1>2, NoneIsNoRecord
<1>6. Holds(h, t) /\ Files(h, t, r)
  BY <1>1, <1>2, <1>3 DEF Holds
<1>7. Moved(t, old, r)
  <2> HIDE DEF r
  <2> QED BY <1>2, <1>3, <1>4, <1>6, HolderMoves
<1>8. q.exec \notin {"Open", "InProgress"} /\ o \in Ledger!Outcomes
  BY DEF UpdateRequest, Ledger!Outcomes
<1> HIDE DEF r, old
<1>9. Kept
  BY <1>3, <1>4, <1>6, <1>7, <1>8, FieldsWritten, ExistsWritten DEF Kept, Moved
<1>10. ASSUME NewestPicks, NewestPicks' PROVE Ledger!Next
  <2>1. Newest(t) = old /\ Newest(t)' = r
    BY <1>7, <1>10 DEF Moved
  <2>2. \A u \in Tasks : u # t => Newest(u)' = Newest(u)
    BY <1>6, <1>10, Others
  <2>3. <<old.worker, old.token>> # None
    BY <1>2, <1>3, NoneIsNoPair DEF CustodyRecord
  <2>4. Ledger!Report(t, o)
    BY ZenonT(40), <1>2, <1>3, <1>4, <1>5, <1>8, <2>1, <2>2, <2>3
       DEF Ledger!Report, CustodianIn, OfferedToIn, GenerationIn, RunnerIn, ReportIn
  <2> QED BY <1>8, <2>4 DEF Ledger!Next
<1> QED BY <1>9, <1>10 DEF Steps

----------------------------------------------------------------------------
(* Every step of the stores is one of these, or none.                      *)

LEMMA AllStep ==
  ASSUME AllInv, [Next]_vars
  PROVE  Kept /\ Steps([Ledger!Next]_(Ledger!ledger))
<1>1. CASE UNCHANGED rec
  <2>1. Kept
    BY <1>1 DEF Kept, AllInv, FieldsSound, NewestExists, IsNewest, Holds
  <2>2. ASSUME NewestPicks, NewestPicks' PROVE UNCHANGED Ledger!ledger
    <3>1. \A u \in Tasks : Newest(u)' = Newest(u)
      BY <1>1, <2>2, OthersStay
    <3> QED BY <3>1 DEF Ledger!ledger
  <2> QED BY <2>1, <2>2 DEF Steps
<1>2. ASSUME NEW h \in Hosts, NEW t \in Tasks, Writes(h, t)
      PROVE  Kept /\ Steps(Ledger!Next)
  BY <1>2, SeedStep, OfferStep, TakeStep, RunStep, ReportStep DEF Writes
<1>3. Steps(Ledger!Next) => Steps([Ledger!Next]_(Ledger!ledger))
  BY DEF Steps
<1> QED BY <1>1, <1>2, <1>3, StoreEffect DEF AllInv, CustodyInv

(* The stores of all hosts together are one ledger: what prepare_handoff,  *)
(* accept_handoff, claim_task and update_claimed do, on whatever host and  *)
(* in whatever order, is what the ledger allows, one entry at a time.      *)
THEOREM StoresAreOneLedger == Spec => ImplementsLedger
<1>1. Init => FieldsSound /\ NewestExists /\ Ledger!Init
  BY DEF Init, FieldsSound, NewestExists, Ledger!Init, Newest, CustodianIn, OfferedToIn,
         GenerationIn, RunnerIn, ReportIn
<1>2. AllInv /\ [Next]_vars /\ TypeOK' /\ CustodyInv' =>
        (FieldsSound /\ NewestExists)' /\ [Ledger!Next]_(Ledger!ledger)
  <2>1. TypeOK /\ CustodyInv => NewestPicks
    BY NewestIs
  <2>2. (TypeOK /\ CustodyInv)' => NewestPicks'
    BY NewestIs, PTL
  <2> QED BY <2>1, <2>2, AllStep DEF AllInv, Kept, Steps
<1> QED
  BY <1>1, <1>2, TypeCorrect, CustodyInvariant, PTL DEF Spec, ImplementsLedger, Ledger!Spec, AllInv

----------------------------------------------------------------------------
(***************************************************************************)
(* SyncReplica, the other component that spans machines, for any number of *)
(* devices and changes.  Nothing of it is shared with custody.             *)
(*                                                                         *)
(* NewestEverywhere speaks of quiet states only; what carries it there is  *)
(* that every change a device has not seen is on its way to it or still in *)
(* some queue, and that nothing a device has seen is newer than what it    *)
(* holds, but what was there before its own last change.                   *)
(***************************************************************************)
OnItsWay(p, d) == p \in wire[d] \/ \E e \in Devices \ {d} : p \in queue[e]

NothingLost == \A d \in Devices \ deaf : \A p \in Written : p \in known[d] \/ OnItsWay(p, d)

SeenIsHeld == \A d \in Devices : \A p \in known[d] : p \in over[d] \/ p.at <= held[d].at

(* What travels was written.                                               *)
TravelsWritten == \A d \in Devices : wire[d] \subseteq Written /\ queue[d] \subseteq Written

SyncInv == SyncTypeOK /\ NothingLost /\ SeenIsHeld /\ TravelsWritten

LEMMA SyncInitKeeps == SyncInit => SyncInv
<1> SUFFICES ASSUME SyncInit PROVE SyncInv
  OBVIOUS
<1>1. Unwritten \in Payload /\ Unwritten.at = 0
  BY SyncBounds DEF Unwritten, Payload
<1>2. SyncTypeOK
  BY <1>1 DEF SyncInit, SyncTypeOK
<1>3. NothingLost /\ SeenIsHeld /\ TravelsWritten
  BY <1>1 DEF SyncInit, NothingLost, SeenIsHeld, TravelsWritten, Written
<1> QED BY <1>2, <1>3 DEF SyncInv

(* One device has seen one more payload.                                   *)
LEMMA SeenGrows ==
    ASSUME SyncTypeOK, NEW d \in Devices, NEW p, known' = [known EXCEPT ![d] = @ \cup {p}]
    PROVE  /\ Written' = Written \cup {p} /\ known'[d] = known[d] \cup {p}
           /\ \A e \in Devices \ {d} : known'[e] = known[e]
<1>1. known'[d] = known[d] \cup {p} /\ \A e \in Devices \ {d} : known'[e] = known[e]
  BY DEF SyncTypeOK
<1> QED BY <1>1 DEF Written

(* A change: the device has seen it, and it is on its way to the others.    *)
LEMMA SyncLocalChangeKeeps ==
    ASSUME SyncInv, NEW d \in Devices, LocalChange(d)
    PROVE  SyncInv'
<1>1. PICK p \in Payload :
        /\ held' = [held EXCEPT ![d] = p]
        /\ queue' = [queue EXCEPT ![d] = @ \cup {p}]
        /\ known' = [known EXCEPT ![d] = @ \cup {p}]
        /\ over' = [over EXCEPT ![d] = known[d]]
  <2>1. PICK id \in 1..MaxWrites, at \in 0..MaxTime :
          LET r == [id |-> id, at |-> at] IN
          /\ held' = [held EXCEPT ![d] = r]
          /\ queue' = [queue EXCEPT ![d] = @ \cup {r}]
          /\ known' = [known EXCEPT ![d] = @ \cup {r}]
          /\ over' = [over EXCEPT ![d] = known[d]]
    BY DEF LocalChange
  <2> DEFINE r == [id |-> id, at |-> at]
  <2>2. r \in Payload
    BY SyncBounds DEF Payload
  <2>3. /\ held' = [held EXCEPT ![d] = r]
        /\ queue' = [queue EXCEPT ![d] = @ \cup {r}]
        /\ known' = [known EXCEPT ![d] = @ \cup {r}]
        /\ over' = [over EXCEPT ![d] = known[d]]
    BY <2>1
  <2> HIDE DEF r
  <2> QED BY <2>2, <2>3
<1>2. SyncTypeOK /\ UNCHANGED <<wire, subscribed, deaf>>
  BY DEF SyncInv, LocalChange
<1>3. /\ Written' = Written \cup {p} /\ known'[d] = known[d] \cup {p}
      /\ \A e \in Devices \ {d} : known'[e] = known[e]
  BY <1>1, <1>2, SeenGrows
<1>4. SyncTypeOK'
  BY <1>1, <1>2 DEF SyncTypeOK
<1>5. NothingLost'
  <2> SUFFICES ASSUME NEW e \in Devices \ deaf, NEW q \in Written'
               PROVE  q \in known'[e] \/ OnItsWay(q, e)'
    BY <1>2 DEF NothingLost
  <2>1. CASE q = p
    BY <1>1, <1>2, <1>3, <2>1 DEF SyncTypeOK, OnItsWay
  <2>2. CASE q # p
    <3>1. q \in known[e] \/ OnItsWay(q, e)
      BY <1>3, <2>2 DEF SyncInv, NothingLost
    <3> QED BY <1>1, <1>2, <1>3, <3>1 DEF SyncTypeOK, OnItsWay
  <2> QED BY <2>1, <2>2
<1>6. SeenIsHeld'
  <2> SUFFICES ASSUME NEW e \in Devices, NEW q \in known'[e]
               PROVE  q \in over'[e] \/ q.at <= held'[e].at
    BY DEF SeenIsHeld
  <2>1. CASE e = d
    <3>1. p.at <= p.at
      BY <1>1, SyncBounds DEF Payload
    <3> QED BY <1>1, <1>2, <1>3, <2>1, <3>1 DEF SyncTypeOK
  <2>2. CASE e # d
    BY <1>1, <1>2, <1>3, <2>2 DEF SyncInv, SyncTypeOK, SeenIsHeld
  <2> QED BY <2>1, <2>2
<1>7. TravelsWritten'
  BY <1>1, <1>2, <1>3 DEF SyncInv, SyncTypeOK, TravelsWritten
<1> QED BY <1>4, <1>5, <1>6, <1>7 DEF SyncInv

(* Draining moves what reached everybody to the network and keeps the rest.*)
LEMMA SyncDrainKeeps ==
    ASSUME SyncInv, NEW d \in Devices, Drain(d)
    PROVE  SyncInv'
<1>1. PICK failed \in SUBSET queue[d], reached \in SUBSET (Devices \ {d}) :
        /\ wire' = [e \in Devices |->
                     IF e = d THEN wire[e]
                     ELSE wire[e] \cup (queue[d] \ failed) \cup (IF e \in reached THEN failed ELSE {})]
        /\ queue' = [queue EXCEPT ![d] = failed]
  BY DEF Drain, Requeued
<1>2. SyncTypeOK /\ UNCHANGED <<held, subscribed, known, over, deaf>>
  BY DEF SyncInv, Drain
<1>3. SyncTypeOK'
  <2>1. wire' \in [Devices -> SUBSET Payload]
    BY <1>1, <1>2 DEF SyncTypeOK
  <2>2. queue' \in [Devices -> SUBSET Payload]
    BY <1>1, <1>2 DEF SyncTypeOK
  <2> QED BY <1>2, <2>1, <2>2 DEF SyncTypeOK
<1>4. ASSUME NEW q, NEW e \in Devices, OnItsWay(q, e) PROVE OnItsWay(q, e)'
  <2>1. CASE q \in wire[e]
    BY <1>1, <2>1 DEF OnItsWay
  <2>2. ASSUME NEW f \in Devices \ {e}, q \in queue[f] PROVE OnItsWay(q, e)'
    <3>1. CASE f # d
      BY <1>1, <1>2, <2>2, <3>1 DEF OnItsWay, SyncTypeOK
    <3>2. CASE f = d /\ q \in failed
      BY <1>1, <1>2, <2>2, <3>2 DEF OnItsWay, SyncTypeOK
    <3>3. CASE f = d /\ q \notin failed
      BY <1>1, <2>2, <3>3 DEF OnItsWay
    <3> QED BY <3>1, <3>2, <3>3
  <2> QED BY <1>4, <2>1, <2>2 DEF OnItsWay
<1>5. NothingLost' /\ SeenIsHeld'
  BY <1>2, <1>4 DEF SyncInv, NothingLost, SeenIsHeld, Written
<1>6. TravelsWritten'
  <2>1. Written' = Written
    BY <1>2 DEF Written
  <2>2. \A e \in Devices : wire[e] \subseteq Written /\ queue[e] \subseteq Written
    BY DEF SyncInv, TravelsWritten
  <2>3. \A e \in Devices : wire'[e] \subseteq Written
    BY <1>1, <2>2
  <2>4. \A e \in Devices : queue'[e] \subseteq Written
    BY <1>1, <1>2, <2>2 DEF SyncTypeOK
  <2> QED BY <2>1, <2>3, <2>4 DEF TravelsWritten
<1> QED BY <1>3, <1>5, <1>6 DEF SyncInv

(* What is taken from the network is held, or something later is.          *)
LEMMA SyncApplyKeeps ==
    ASSUME SyncInv, NEW d \in Devices, Apply(d)
    PROVE  SyncInv'
<1>1. PICK p \in wire[d] :
        /\ held' = [held EXCEPT ![d] = Merge(@, p)]
        /\ known' = [known EXCEPT ![d] = @ \cup {p}]
        /\ wire' = wire \/ wire' = [wire EXCEPT ![d] = @ \ {p}]
  BY DEF Apply
<1>2. SyncTypeOK /\ UNCHANGED <<queue, subscribed, over, deaf>>
  BY DEF SyncInv, Apply
<1>3. p \in Payload /\ held[d] \in Payload /\ p.at \in Nat /\ held[d].at \in Nat
  BY <1>2, SyncBounds DEF SyncInv, SyncTypeOK, Payload
<1>4. held'[d] \in Payload /\ p.at <= held'[d].at /\ held[d].at <= held'[d].at
  BY <1>1, <1>2, <1>3 DEF SyncTypeOK, Merge
<1>5. SyncTypeOK'
  BY <1>1, <1>2, <1>3 DEF SyncTypeOK, Merge
<1>6. /\ Written' = Written /\ known'[d] = known[d] \cup {p}
      /\ \A e \in Devices \ {d} : known'[e] = known[e]
  <2>1. Written' = Written \cup {p} /\ p \in Written
    BY <1>1, <1>2, SeenGrows DEF SyncInv, TravelsWritten
  <2>2. known'[d] = known[d] \cup {p} /\ \A e \in Devices \ {d} : known'[e] = known[e]
    BY <1>1, <1>2, SeenGrows
  <2> QED BY <2>1, <2>2
<1>7. NothingLost'
  <2> SUFFICES ASSUME NEW e \in Devices \ deaf, NEW q \in Written
               PROVE  q \in known'[e] \/ OnItsWay(q, e)'
    BY <1>2, <1>6 DEF NothingLost
  <2>1. q \in known[e] \/ OnItsWay(q, e)
    BY DEF SyncInv, NothingLost
  <2> QED BY <1>1, <1>2, <1>6, <2>1 DEF SyncTypeOK, OnItsWay
<1>8. SeenIsHeld'
  <2> SUFFICES ASSUME NEW e \in Devices, NEW q \in known'[e]
               PROVE  q \in over'[e] \/ q.at <= held'[e].at
    BY DEF SeenIsHeld
  <2>1. CASE e # d
    BY <1>1, <1>2, <1>6, <2>1 DEF SyncInv, SyncTypeOK, SeenIsHeld
  <2>2. CASE e = d /\ q = p
    BY <1>4, <2>2
  <2>3. CASE e = d /\ q # p
    <3>1. q \in known[d] /\ (q \in over[d] \/ q.at <= held[d].at)
      BY <1>6, <2>3 DEF SyncInv, SeenIsHeld
    <3>2. q.at \in Nat /\ held'[d].at \in Nat
      BY <1>2, <1>4, <3>1, SyncBounds DEF SyncTypeOK, Payload
    <3> QED BY <1>2, <1>3, <1>4, <2>3, <3>1, <3>2
  <2> QED BY <2>1, <2>2, <2>3
<1>9. TravelsWritten'
  BY <1>1, <1>2, <1>6 DEF SyncInv, SyncTypeOK, TravelsWritten
<1> QED BY <1>5, <1>7, <1>8, <1>9 DEF SyncInv

(* The devices a change goes past are deaf from then on.                   *)
LEMMA SyncRefuseKeeps ==
    ASSUME SyncInv, NEW d \in Devices, Refuse(d)
    PROVE  SyncInv'
<1>1. PICK p \in wire[d] : wire' = [wire EXCEPT ![d] = @ \ {p}]
  BY DEF Refuse
<1>2. SyncTypeOK /\ UNCHANGED <<held, queue, subscribed, known, over>> /\ deaf' = deaf \cup {d}
  BY DEF SyncInv, Refuse
<1>3. SyncTypeOK' /\ Written' = Written
  BY <1>1, <1>2 DEF SyncTypeOK, Written
<1>4. NothingLost'
  BY <1>1, <1>2, <1>3 DEF SyncInv, SyncTypeOK, NothingLost, OnItsWay
<1>5. SeenIsHeld' /\ TravelsWritten'
  BY <1>1, <1>2, <1>3 DEF SyncInv, SyncTypeOK, SeenIsHeld, TravelsWritten
<1> QED BY <1>3, <1>4, <1>5 DEF SyncInv

LEMMA SyncRestartKeeps ==
    ASSUME SyncInv, NEW d \in Devices, Restart(d)
    PROVE  SyncInv'
<1>1. /\ SyncTypeOK /\ UNCHANGED <<held, wire, known, over>>
      /\ subscribed' = subscribed \ {d}
      /\ queue' = [queue EXCEPT ![d] = {}]
      /\ deaf' = IF queue[d] # {} THEN deaf \cup (Devices \ {d}) ELSE deaf
  BY DEF SyncInv, Restart
<1>2. SyncTypeOK' /\ Written' = Written
  BY <1>1 DEF SyncTypeOK, Written
<1>3. ASSUME NEW e \in Devices \ deaf', NEW q, OnItsWay(q, e) PROVE OnItsWay(q, e)'
  BY <1>1, <1>3 DEF SyncTypeOK, OnItsWay
<1>4. NothingLost'
  BY <1>1, <1>2, <1>3 DEF SyncInv, NothingLost
<1>5. SeenIsHeld' /\ TravelsWritten'
  BY <1>1, <1>2 DEF SyncInv, SyncTypeOK, SeenIsHeld, TravelsWritten
<1> QED BY <1>2, <1>4, <1>5 DEF SyncInv

LEMMA SyncNextKeeps == SyncInv /\ [SyncNext]_syncVars => SyncInv'
<1> SUFFICES ASSUME SyncInv, [SyncNext]_syncVars PROVE SyncInv'
  OBVIOUS
<1>1. ASSUME NEW d \in Devices, Subscribe(d) \/ Unsubscribe(d) PROVE SyncInv'
  BY <1>1 DEF Subscribe, Unsubscribe, SyncInv, SyncTypeOK, NothingLost, SeenIsHeld, TravelsWritten,
              OnItsWay, Written
<1>2. CASE UNCHANGED syncVars
  BY <1>2 DEF syncVars, SyncInv, SyncTypeOK, NothingLost, SeenIsHeld, TravelsWritten,
              OnItsWay, Written
<1> QED BY <1>1, <1>2, SyncLocalChangeKeeps, SyncDrainKeeps, SyncApplyKeeps, SyncRefuseKeeps,
           SyncRestartKeeps DEF SyncNext

----------------------------------------------------------------------------
(* Once everything is delivered, a device that no change went past holds   *)
(* one as new as every change, but those its user replaced there with an   *)
(* earlier stamp (drain_queue, apply_remote_change, CrdtMerge).            *)
THEOREM NewestArrives == SyncSpec => []NewestEverywhere
<1>1. SyncInv => NewestEverywhere
  BY DEF SyncInv, NothingLost, SeenIsHeld, NewestEverywhere, Quiet, OnItsWay
<1> QED BY <1>1, SyncInitKeeps, SyncNextKeeps, PTL DEF SyncSpec
=============================================================================
