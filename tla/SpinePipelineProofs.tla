------------------------ MODULE SpinePipelineProofs ------------------------
(***************************************************************************)
(* Proofs about SpinePipeline, for any number of messages, chats and       *)
(* triggers, any capacity and any limit on the tool rounds.                *)
(***************************************************************************)
EXTENDS SpinePipeline, SequenceTheorems, FiniteSetTheorems, TLAPS

Procedures == {"inbound_router", "history_recorder", "tool_executor",
               "model_invoker", "response_router"}

(* What the response router sends for a final answer.                      *)
Reply(response) ==
    DeliveryRequest(response.turn, IF response.text THEN "answer" ELSE "empty", "source")

LEMMA ReplyIs ==
    ASSUME NEW e
    PROVE  /\ Reply(e).type = "delivery_request" /\ Reply(e).turn = e.turn
           /\ Reply(e).what # "aborted"
           /\ Recordable(e) => e.calls = 0 /\ Reply(e).what = "answer"
           /\ e.calls = 0 /\ Reply(e).what = "answer" => Recordable(e)
BY DEF Reply, DeliveryRequest, Recordable

(* What the constructors build is an event, and what an event holds has    *)
(* its type (event.rs).                                                    *)
LEMMA EventsTyped ==
    /\ \A m \in Messages :
        /\ Inbound(m) \in SpineEvent
        /\ \A by \in {"inbound_router", "tool_executor"} : ModelRequest(m, by) \in SpineEvent
        /\ \A k \in 0..MaxCalls, t \in BOOLEAN : ModelResponse(m, k, t) \in SpineEvent
        /\ ToolResult(m) \in SpineEvent
        /\ \A w \in {"answer", "empty", "error", "aborted"}, c \in {"source", "system"} :
             DeliveryRequest(m, w, c) \in SpineEvent
    /\ \A e \in SpineEvent :
        /\ e.turn \in Messages
        /\ e.type = "model_response" => e.calls \in 0..MaxCalls /\ e.text \in BOOLEAN
<1>1. ASSUME NEW e \in SpineEvent
      PROVE  /\ e.turn \in Messages
             /\ e.type = "model_response" => e.calls \in 0..MaxCalls /\ e.text \in BOOLEAN
  <2>1. CASE \E m \in Messages : e = Inbound(m)
    BY <2>1 DEF Inbound
  <2>2. CASE \E m \in Messages, by \in {"inbound_router", "tool_executor"} : e = ModelRequest(m, by)
    BY <2>2 DEF ModelRequest
  <2>3. CASE \E m \in Messages, k \in 0..MaxCalls, t \in BOOLEAN : e = ModelResponse(m, k, t)
    BY <2>3 DEF ModelResponse
  <2>4. CASE \E m \in Messages : e = ToolResult(m)
    BY <2>4 DEF ToolResult
  <2>5. CASE \E m \in Messages, w \in {"answer", "empty", "error", "aborted"},
               c \in {"source", "system"} :
               e = DeliveryRequest(m, w, c)
    BY <2>5 DEF DeliveryRequest
  <2> QED
    BY <2>1, <2>2, <2>3, <2>4, <2>5 DEF SpineEvent
<1>2. ASSUME NEW m \in Messages
      PROVE  /\ Inbound(m) \in SpineEvent
             /\ \A by \in {"inbound_router", "tool_executor"} : ModelRequest(m, by) \in SpineEvent
             /\ \A k \in 0..MaxCalls, t \in BOOLEAN : ModelResponse(m, k, t) \in SpineEvent
             /\ ToolResult(m) \in SpineEvent
             /\ \A w \in {"answer", "empty", "error", "aborted"}, c \in {"source", "system"} :
                  DeliveryRequest(m, w, c) \in SpineEvent
  BY DEF SpineEvent
<1> QED
  BY <1>1, <1>2

(* Every event type has a list of procedures (runtime.rs).                 *)
LEMMA HandlersTyped == \A type : Handlers(type) \in Seq(Procedures)
<1> SUFFICES ASSUME NEW type PROVE Handlers(type) \in Seq(Procedures)
  OBVIOUS
<1>1. CASE type = "inbound"
  <2>1. Handlers(type) = <<"inbound_router", "history_recorder", "tool_executor">>
    BY <1>1 DEF Handlers
  <2> QED
    BY <2>1 DEF Procedures
<1>2. CASE type = "model_request"
  <2>1. Handlers(type) = <<"model_invoker">>
    BY <1>2 DEF Handlers
  <2> QED
    BY <2>1 DEF Procedures
<1>3. CASE type = "model_response"
  <2>1. Handlers(type) = <<"history_recorder", "tool_executor", "response_router">>
    BY <1>3 DEF Handlers
  <2> QED
    BY <2>1 DEF Procedures
<1>4. CASE type \notin {"inbound", "model_request", "model_response"}
  <2>1. Handlers(type) = <<>>
    BY <1>4 DEF Handlers
  <2> QED
    BY <2>1
<1> QED
  BY <1>1, <1>2, <1>3, <1>4

(* Any number of tool results and then a request form a list of events     *)
(* (tool_executor.rs).                                                     *)
LEMMA FollowUpTyped ==
    ASSUME NEW m \in Messages, NEW k \in Nat
    PROVE  [i \in 1..k |-> ToolResult(m)] \o <<ModelRequest(m, "tool_executor")>> \in Seq(SpineEvent)
<1>1. [i \in 1..k |-> ToolResult(m)] \in Seq(SpineEvent)
  BY EventsTyped, IsASeq
<1>2. <<ModelRequest(m, "tool_executor")>> \in Seq(SpineEvent)
  BY EventsTyped
<1> QED
  BY <1>1, <1>2, ConcatProperties

(* The loop's part of the type invariant.                                  *)
LoopTypes ==
    /\ queue \in Seq(SpineEvent) /\ Len(queue) <= Capacity
    /\ cur \in SpineEvent \cup {None}
    /\ todo \in Seq(Procedures)
    /\ out \in Seq(SpineEvent)
    /\ cur = None => todo = <<>> /\ out = <<>>

(* The router's and the `.px` executions' part.                            *)
RouterTypes ==
    /\ routing \in {"none", "subscribed", "waiting"}
    /\ routing # "none" => Turn("inbound_router", "inbound")
    /\ inbox \in {None, "conversation", "procedural"}
    /\ waiters \subseteq Messages
    /\ spawned \subseteq [proc : Triggers, turn : Messages, by : {"router", "loop"}]
    /\ decided \subseteq Messages /\ silent \subseteq Messages

(* The stores' part, and the history the properties speak of.              *)
StoreTypes ==
    /\ iterations \in [Chats -> 0..MaxIterations]
    /\ history \in [Chats -> Seq(Entries)]
    /\ sent \in Seq(Messages) /\ overlapped \subseteq Messages
    /\ delivered \in Seq(SpineEvent)
    /\ rounds \in [Messages -> Nat]

(* The three parts make the invariant, before and after a step.            *)
LEMMA TypeParts ==
    /\ TypeOK <=> LoopTypes /\ RouterTypes /\ StoreTypes
    /\ TypeOK' <=> LoopTypes' /\ RouterTypes' /\ StoreTypes'
BY DEF TypeOK, LoopTypes, RouterTypes, StoreTypes, Procedures

(* A procedure that is done leaves a well-typed loop behind, and is no     *)
(* longer the next.                                                        *)
LEMMA DoneTypes ==
    ASSUME TypeOK, NEW p, NEW type, Turn(p, type),
           NEW events \in Seq(SpineEvent), Done(events)
    PROVE  LoopTypes'
<1> USE DEF LoopTypes
<1>1. /\ cur # None /\ todo # <<>>
      /\ LoopTypes
  BY TypeParts DEF Turn
<1>2. Tail(todo) \in Seq(Procedures)
  BY <1>1, HeadTailProperties
<1> QED
  BY <1>1, <1>2 DEF Done

(* The message in dispatch and its chat.                                   *)
LEMMA TurnTyped ==
    ASSUME TypeOK, NEW p, NEW type, Turn(p, type)
    PROVE  /\ cur \in SpineEvent /\ cur.turn \in Messages /\ Chat[cur.turn] \in Chats
           /\ cur.type = type
BY EventsTyped, PipelineConstants DEF TypeOK, Turn

(* The empty loop is well typed.                                           *)
LEMMA TypesInit == Init => TypeOK
BY PipelineConstants DEF Init, TypeOK

(* Every step keeps the types (pipeline.rs and the procedures).            *)
LEMMA TypesStep == TypeOK /\ [Next]_vars => TypeOK'
<1> SUFFICES ASSUME TypeOK, [Next]_vars PROVE TypeOK'
  OBVIOUS
<1> USE PipelineConstants
<1>types. LoopTypes /\ RouterTypes /\ StoreTypes
  BY TypeParts
<1>1. ASSUME NEW m \in Messages, Send(m) PROVE TypeOK'
  <2>1. LoopTypes'
    <3>1. Append(queue, Inbound(m)) \in Seq(SpineEvent)
      BY <1>types, EventsTyped, AppendProperties DEF LoopTypes
    <3>2. Len(Append(queue, Inbound(m))) <= Capacity
      BY <1>1, <1>types, EventsTyped, AppendProperties DEF Send, Room, LoopTypes
    <3> QED
      BY <1>1, <1>types, <3>1, <3>2 DEF Send, LoopTypes
  <2>2. RouterTypes'
    BY <1>1, <1>types DEF Send, RouterTypes, routerVars, Turn
  <2>3. StoreTypes'
    <3>1. Sent \subseteq Messages
      BY <1>types DEF Sent, StoreTypes
    <3>2. overlapped' \subseteq Messages
      BY <1>1, <1>types, <3>1 DEF Send, StoreTypes
    <3>3. sent' \in Seq(Messages)
      BY <1>1, <1>types, AppendProperties DEF Send, StoreTypes
    <3> QED
      BY <1>1, <1>types, <3>2, <3>3 DEF Send, StoreTypes
  <2> QED
    BY <2>1, <2>2, <2>3, TypeParts
<1>2. CASE Receive
  <2>1. Head(queue) \in SpineEvent /\ Tail(queue) \in Seq(SpineEvent) /\ Len(Tail(queue)) <= Capacity
    BY <1>2, <1>types, HeadTailProperties, LenProperties DEF Receive, LoopTypes
  <2>2. LoopTypes'
    BY <1>2, <1>types, <2>1, HandlersTyped, NoneIsNoEvent DEF Receive, LoopTypes
  <2>3. RouterTypes'
    <3>1. routing = "none"
      BY <1>2, <1>types DEF Receive, RouterTypes, Turn
    <3> QED
      BY <1>2, <1>types, <3>1 DEF Receive, RouterTypes, routerVars
  <2>4. StoreTypes'
    BY <1>2, <1>types, <2>1, AppendProperties DEF Receive, StoreTypes
  <2> QED
    BY <2>2, <2>3, <2>4, TypeParts
<1>3. CASE Emit
  <2>1. Head(out) \in SpineEvent /\ Tail(out) \in Seq(SpineEvent)
    BY <1>3, <1>types, HeadTailProperties DEF Emit, LoopTypes
  <2>2. /\ Append(queue, Head(out)) \in Seq(SpineEvent)
        /\ Len(Append(queue, Head(out))) <= Capacity
    BY <1>3, <1>types, <2>1, AppendProperties DEF Emit, Room, LoopTypes
  <2>3. LoopTypes'
    BY <1>3, <1>types, <2>1, <2>2 DEF Emit, LoopTypes
  <2>4. RouterTypes'
    <3>1. routing = "none"
      BY <1>3, <1>types DEF Emit, RouterTypes, Turn
    <3> QED
      BY <1>3, <1>types, <3>1 DEF Emit, RouterTypes, routerVars
  <2>5. StoreTypes'
    BY <1>3, <1>types DEF Emit, StoreTypes, ghosts
  <2> QED
    BY <2>3, <2>4, <2>5, TypeParts
<1>4. CASE SubscribeThenFire
  <2>1. cur.turn \in Messages
    BY <1>4, TurnTyped DEF SubscribeThenFire
  <2>2. LoopTypes' /\ StoreTypes'
    BY <1>4, <1>types DEF SubscribeThenFire, loopVars, ghosts, LoopTypes, StoreTypes
  <2>3. Turn("inbound_router", "inbound")'
    BY <1>4 DEF SubscribeThenFire, Turn, loopVars
  <2>4. RouterTypes'
    BY <1>4, <1>types, <2>1, <2>3 DEF SubscribeThenFire, Fire, RouterTypes
  <2> QED
    BY <2>2, <2>4, TypeParts
<1>5. ASSUME routing = "waiting", NEW events \in Seq(SpineEvent), EndRouting(events),
             silent' \subseteq Messages
      PROVE  TypeOK'
  <2>1. LoopTypes'
    BY <1>5, <1>types, DoneTypes DEF EndRouting, RouterTypes
  <2>2. RouterTypes'
    BY <1>5, <1>types DEF EndRouting, RouterTypes
  <2>3. StoreTypes'
    BY <1>5, <1>types DEF EndRouting, StoreTypes, ghosts
  <2> QED
    BY <2>1, <2>2, <2>3, TypeParts
<1>6. ASSUME Route \/ FallBack PROVE TypeOK'
  <2>1. routing = "waiting" /\ cur.turn \in Messages
    BY <1>6, <1>types, TurnTyped DEF Route, FallBack, RouterTypes
  <2>2. <<ModelRequest(cur.turn, "inbound_router")>> \in Seq(SpineEvent) /\ <<>> \in Seq(SpineEvent)
    BY <2>1, EventsTyped
  <2>3. PICK events \in Seq(SpineEvent) : EndRouting(events)
    BY <1>6, <2>2 DEF Route, FallBack
  <2>4. silent' \subseteq Messages
    BY <1>6, <1>types, <2>1 DEF Route, FallBack, RouterTypes
  <2> QED
    BY <1>5, <2>1, <2>3, <2>4
<1>7. ASSUME NEW x \in spawned, Execute(x) PROVE TypeOK'
  <2>1. x.turn \in Messages
    BY <1>types DEF RouterTypes
  <2>2. LoopTypes' /\ StoreTypes'
    BY <1>7, <1>types DEF Execute, loopVars, ghosts, LoopTypes, StoreTypes
  <2>3. routing # "none" => Turn("inbound_router", "inbound")'
    BY <1>7, <1>types DEF Execute, RouterTypes, Turn, loopVars
  <2>4. RouterTypes'
    BY <1>7, <1>types, <2>1, <2>3 DEF Execute, RouterTypes
  <2> QED
    BY <2>2, <2>4, TypeParts
<1>8. ASSUME NEW p \in Procedures \ {"inbound_router"}, NEW type, Turn(p, type),
             NEW events \in Seq(SpineEvent), Done(events), UNCHANGED routerVars
      PROVE  LoopTypes' /\ RouterTypes'
  <2>1. routing = "none"
    BY <1>8, <1>types DEF RouterTypes, Turn
  <2> QED
    BY <1>8, <1>types, <2>1, DoneTypes DEF RouterTypes, routerVars
<1>9. ASSUME NEW e \in Entries, Chat[cur.turn] \in Chats, Remember(e)
      PROVE  history' \in [Chats -> Seq(Entries)]
  BY <1>9, <1>types, AppendProperties DEF Remember, StoreTypes
<1>10. CASE RecordInbound
  <2>1. LoopTypes' /\ RouterTypes'
    <3>1. Turn("history_recorder", "inbound") /\ Done(<<>>) /\ UNCHANGED routerVars
      BY <1>10 DEF RecordInbound
    <3>2. <<>> \in Seq(SpineEvent)
      OBVIOUS
    <3> QED
      BY <1>8, <3>1, <3>2 DEF Procedures
  <2>2. StoreTypes'
    BY <1>9, <1>10, <1>types, TurnTyped DEF RecordInbound, StoreTypes, Entries, ghosts
  <2> QED
    BY <2>1, <2>2, TypeParts
<1>11. CASE RecordResponse
  <2>1. LoopTypes' /\ RouterTypes'
    <3>1. Turn("history_recorder", "model_response") /\ Done(<<>>) /\ UNCHANGED routerVars
      BY <1>11 DEF RecordResponse
    <3>2. <<>> \in Seq(SpineEvent)
      OBVIOUS
    <3> QED
      BY <1>8, <3>1, <3>2 DEF Procedures
  <2>2. StoreTypes'
    BY <1>9, <1>11, <1>types, TurnTyped DEF RecordResponse, StoreTypes, Entries, ghosts
  <2> QED
    BY <2>1, <2>2, TypeParts
<1>12. CASE Invoke
  <2>1. cur.turn \in Messages
    BY <1>12, TurnTyped DEF Invoke
  <2>2. PICK reply \in SpineEvent : Done(<<reply>>)
    <3>1. PICK reply :
            /\ Done(<<reply>>)
            /\ \/ reply = DeliveryRequest(cur.turn, "error", "source")
               \/ \E k \in 0..MaxCalls, t \in BOOLEAN : reply = ModelResponse(cur.turn, k, t)
      BY SMTT(30), <1>12, PipelineConstants DEF Invoke
    <3>2. reply \in SpineEvent
      <4>1. CASE reply = DeliveryRequest(cur.turn, "error", "source")
        BY <2>1, <4>1, EventsTyped
      <4>2. CASE \E k \in 0..MaxCalls, t \in BOOLEAN : reply = ModelResponse(cur.turn, k, t)
        BY <2>1, <4>2, EventsTyped
      <4> QED BY <3>1, <4>1, <4>2
    <3> QED
      BY <3>1, <3>2
  <2>3. LoopTypes' /\ RouterTypes'
    <3>1. Turn("model_invoker", "model_request") /\ UNCHANGED routerVars
      BY <1>12 DEF Invoke
    <3>2. <<reply>> \in Seq(SpineEvent)
      BY <2>2
    <3> QED
      BY <1>8, <2>2, <3>1, <3>2 DEF Procedures
  <2>4. StoreTypes'
    BY <1>12, <1>types DEF Invoke, StoreTypes, ghosts
  <2> QED
    BY <2>3, <2>4, TypeParts
<1>13. CASE ResetOnInbound
  <2>1. LoopTypes' /\ RouterTypes'
    <3>1. Turn("tool_executor", "inbound") /\ Done(<<>>) /\ UNCHANGED routerVars
      BY <1>13 DEF ResetOnInbound
    <3>2. <<>> \in Seq(SpineEvent)
      OBVIOUS
    <3> QED
      BY <1>8, <3>1, <3>2 DEF Procedures
  <2>2. StoreTypes'
    BY <1>13, <1>types, TurnTyped DEF ResetOnInbound, StoreTypes, ghosts
  <2> QED
    BY <2>1, <2>2, TypeParts
<1>14. CASE RunTools
  <2> DEFINE m == cur.turn
             n == iterations[Chat[m]] + 1
  <2>1. m \in Messages /\ Chat[m] \in Chats /\ cur.calls \in 0..MaxCalls
    BY <1>14, TurnTyped, EventsTyped DEF RunTools
  <2>2. n \in Nat /\ 0 \in 0..MaxIterations /\ (~ Exceeded(n) => n \in 0..MaxIterations)
    BY <1>types, <2>1 DEF StoreTypes, Exceeded
  <2>3. /\ \E k \in 0..MaxIterations : iterations' = [iterations EXCEPT ![Chat[m]] = k]
        /\ UNCHANGED rounds \/ rounds' = [rounds EXCEPT ![m] = @ + 1]
    BY <1>14, <2>2 DEF RunTools
  <2>4. iterations' \in [Chats -> 0..MaxIterations] /\ rounds' \in [Messages -> Nat]
    <3> HIDE DEF m
    <3>1. iterations \in [Chats -> 0..MaxIterations] /\ rounds \in [Messages -> Nat]
      BY <1>types DEF StoreTypes
    <3>2. rounds' \in [Messages -> Nat]
      BY <2>1, <2>3, <3>1
    <3>3. iterations' \in [Chats -> 0..MaxIterations]
      BY <2>3, <3>1
    <3> QED
      BY <3>2, <3>3
  <2>5. PICK events \in Seq(SpineEvent) : Done(events)
    <3>1. /\ <<>> \in Seq(SpineEvent)
          /\ <<DeliveryRequest(m, "aborted", "system")>> \in Seq(SpineEvent)
      BY <2>1, EventsTyped
    <3>2. [i \in 1..cur.calls |-> ToolResult(m)] \o <<ModelRequest(m, "tool_executor")>>
            \in Seq(SpineEvent)
      <4>1. cur.calls \in Nat
        BY <2>1
      <4> HIDE DEF m
      <4> QED
        BY <2>1, <4>1, FollowUpTyped
    <3>3. \/ Done(<<>>)
          \/ Done(<<DeliveryRequest(m, "aborted", "system")>>)
          \/ Done([i \in 1..cur.calls |-> ToolResult(m)] \o <<ModelRequest(m, "tool_executor")>>)
      BY <1>14 DEF RunTools
    <3> QED
      BY <3>1, <3>2, <3>3
  <2>6. LoopTypes' /\ RouterTypes'
    BY <1>8, <1>14, <2>5 DEF RunTools, Procedures
  <2>7. StoreTypes'
    BY <1>14, <1>types, <2>4 DEF RunTools, StoreTypes
  <2> QED
    BY <2>6, <2>7, TypeParts
<1>15. CASE RouteResponse
  <2>1. cur.turn \in Messages
    BY <1>15, TurnTyped DEF RouteResponse
  <2>2. PICK events \in Seq(SpineEvent) : Done(events)
    <3>1. /\ <<>> \in Seq(SpineEvent)
          /\ <<Reply(cur)>> \in Seq(SpineEvent)
      BY <2>1, EventsTyped DEF Reply
    <3> QED
      BY <1>15, <3>1 DEF RouteResponse, Reply
  <2>3. LoopTypes' /\ RouterTypes'
    BY <1>8, <1>15, <2>2 DEF RouteResponse, Procedures
  <2>4. StoreTypes'
    BY <1>15, <1>types DEF RouteResponse, StoreTypes, ghosts
  <2> QED
    BY <2>3, <2>4, TypeParts
<1>16. CASE Finish
  <2>1. routing = "none"
    BY <1>16, <1>types DEF Finish, RouterTypes, Turn
  <2>2. LoopTypes'
    BY <1>16, <1>types DEF Finish, LoopTypes
  <2>3. spawned' \subseteq [proc : Triggers, turn : Messages, by : {"router", "loop"}]
    BY <1>16, <1>types, EventsTyped DEF Finish, Fire, RouterTypes, LoopTypes
  <2>4. RouterTypes'
    BY <1>16, <1>types, <2>1, <2>3 DEF Finish, RouterTypes
  <2>5. StoreTypes'
    BY <1>16, <1>types DEF Finish, StoreTypes, ghosts
  <2> QED
    BY <2>2, <2>4, <2>5, TypeParts
<1>17. CASE UNCHANGED vars
  BY <1>17, <1>types, TypeParts
     DEF vars, loopVars, routerVars, ghosts, LoopTypes, RouterTypes, StoreTypes, Turn
<1> QED
  BY <1>1, <1>2, <1>3, <1>4, <1>6, <1>7, <1>10, <1>11, <1>12, <1>13, <1>14, <1>15, <1>16, <1>17
     DEF Next, Loop

(* TypeOK holds for every number of messages, chats and triggers and every *)
(* capacity: among others, the channel keeps to its capacity, a chat's     *)
(* count to max_iterations, and the router decides only about the message  *)
(* the loop has in dispatch (pipeline.rs, tool_executor.rs,                *)
(* inbound_router.rs).                                                     *)
THEOREM PipelineTypes == Spec => []TypeOK
<1>1. Init => TypeOK
  BY TypesInit
<1>2. TypeOK /\ [Next]_vars => TypeOK'
  BY TypesStep
<1> QED
  BY <1>1, <1>2, PTL DEF Spec

----------------------------------------------------------------------------
(* Every message is answered once at most, and no decision of `.px` is     *)
(* missed.                                                                 *)
(*                                                                         *)
(* A turn is one token.  It is the message before it is sent, the event in *)
(* the channel that will be answered, the event in dispatch until the      *)
(* procedure that ends or continues the turn has seen it, the event that   *)
(* procedure is about to emit, the delivery, or the decision to leave the  *)
(* turn to `.px`.  Every step leaves the token where it is or moves it.    *)

(* What may be left of the procedures that handle an event.                *)
Rest(type) ==
    CASE type = "inbound" ->
            {<<"inbound_router", "history_recorder", "tool_executor">>,
             <<"history_recorder", "tool_executor">>, <<"tool_executor">>, <<>>}
      [] type = "model_request" -> {<<"model_invoker">>, <<>>}
      [] type = "model_response" ->
            {<<"history_recorder", "tool_executor", "response_router">>,
             <<"tool_executor", "response_router">>, <<"response_router">>, <<>>}
      [] OTHER -> {<<>>}

TodoSound == cur # None => todo \in Rest(cur.type)

(* The procedure that ends or continues the turn is still to see the event *)
(* in dispatch.                                                            *)
Live ==
    /\ cur # None
    /\ \/ cur.type = "inbound" /\ Len(todo) = 3
       \/ cur.type = "model_request" /\ Len(todo) = 1
       \/ cur.type = "model_response" /\ Len(todo) >= IF cur.calls = 0 THEN 1 ELSE 2

Carries(e, m) == e.turn = m /\ e.type # "tool_result"

InQueue(m, i) == i \in DOMAIN queue /\ Carries(queue[i], m)
InOut(m, i) == i \in DOMAIN out /\ Carries(out[i], m)
InDelivered(m, i) == i \in DOMAIN delivered /\ delivered[i].turn = m
InCur(m) == Live /\ cur.turn = m
Unsent(m) == m \notin Sent

(* No turn is in two places.                                               *)
OneToken ==
    \A m \in Messages :
        /\ \A i, j \in Nat : InQueue(m, i) /\ InQueue(m, j) => i = j
        /\ \A i, j \in Nat : InOut(m, i) /\ InOut(m, j) => i = j
        /\ \A i, j \in Nat : InDelivered(m, i) /\ InDelivered(m, j) => i = j
        /\ \A i \in Nat : InQueue(m, i) =>
             /\ \A j \in Nat : ~ InOut(m, j) /\ ~ InDelivered(m, j)
             /\ ~ InCur(m) /\ m \notin silent /\ ~ Unsent(m)
        /\ \A i \in Nat : InOut(m, i) =>
             /\ \A j \in Nat : ~ InDelivered(m, j)
             /\ ~ InCur(m) /\ m \notin silent /\ ~ Unsent(m)
        /\ \A i \in Nat : InDelivered(m, i) => ~ InCur(m) /\ m \notin silent /\ ~ Unsent(m)
        /\ InCur(m) => m \notin silent /\ ~ Unsent(m)
        /\ m \in silent => ~ Unsent(m)

(* The router has not been asked about the message yet.                    *)
Fresh(m) == Unsent(m) \/ \E i \in DOMAIN queue : queue[i].type = "inbound" /\ queue[i].turn = m

OutSound == \A i \in DOMAIN out : out[i].type # "inbound"

StartedOnce == cur # None /\ cur.type = "inbound" => ~ Fresh(cur.turn)

Unfired(m) ==
    \/ Fresh(m)
    \/ cur # None /\ cur.type = "inbound" /\ cur.turn = m /\ Len(todo) = 3 /\ routing # "waiting"

(* No execution is under way, or has decided, before the router's write.   *)
Undecided ==
    \A m \in Messages : Unfired(m) => m \notin decided /\ \A x \in spawned : x.turn # m

(* Whoever waits for a decision has a waiter, and has missed none.         *)
Waits ==
    routing # "none" /\ inbox = None =>
        cur.turn \in waiters /\ (routing = "waiting" => cur.turn \notin decided)

TurnInv ==
    TodoSound /\ OneToken /\ OutSound /\ StartedOnce /\ Undecided /\ Waits

----------------------------------------------------------------------------
(* The lists of procedures.                                                *)

LEMMA Lists ==
    /\ \A a, b, c : /\ Len(<<a, b, c>>) = 3 /\ Head(<<a, b, c>>) = a /\ Tail(<<a, b, c>>) = <<b, c>>
                    /\ Len(<<a, b>>) = 2 /\ Head(<<a, b>>) = a /\ Tail(<<a, b>>) = <<b>>
                    /\ Len(<<a>>) = 1 /\ Head(<<a>>) = a /\ Tail(<<a>>) = <<>>
    /\ Len(<<>>) = 0
  OBVIOUS

LEMMA HandlersRest == \A type : Handlers(type) \in Rest(type)
  BY DEF Handlers, Rest

(* The procedure to run and the type of the event say how much is left.    *)
LEMMA NextLeft ==
    ASSUME TypeOK, TodoSound, NEW p, NEW type, Turn(p, type)
    PROVE  /\ cur # None /\ cur.type = type /\ out = <<>>
           /\ Tail(todo) \in Rest(type) /\ Len(Tail(todo)) = Len(todo) - 1
           /\ Len(todo) \in 1..3
           /\ p = "inbound_router" /\ type = "inbound" => Len(todo) = 3
           /\ p = "history_recorder" /\ type = "inbound" => Len(todo) = 2
           /\ p = "tool_executor" /\ type = "inbound" => Len(todo) = 1
           /\ p = "model_invoker" /\ type = "model_request" => Len(todo) = 1
           /\ p = "history_recorder" /\ type = "model_response" => Len(todo) = 3
           /\ p = "tool_executor" /\ type = "model_response" => Len(todo) = 2
           /\ p = "response_router" /\ type = "model_response" => Len(todo) = 1
<1>1. cur # None /\ cur.type = type /\ out = <<>> /\ todo \in Rest(type) /\ todo # <<>> /\ Head(todo) = p
  BY DEF TodoSound, Turn
<1>2. CASE type = "inbound"
  <2>1. todo \in {<<"inbound_router", "history_recorder", "tool_executor">>,
                  <<"history_recorder", "tool_executor">>, <<"tool_executor">>}
    BY <1>1, <1>2 DEF Rest
  <2>2. CASE todo = <<"inbound_router", "history_recorder", "tool_executor">>
    <3>1. Len(todo) = 3 /\ p = "inbound_router" /\ Tail(todo) = <<"history_recorder", "tool_executor">>
      BY <1>1, <2>2, Lists
    <3>2. Len(Tail(todo)) = 2 /\ Tail(todo) \in Rest(type)
      BY <1>2, <3>1, Lists DEF Rest
    <3> QED BY <1>1, <1>2, <3>1, <3>2
  <2>3. CASE todo = <<"history_recorder", "tool_executor">>
    <3>1. Len(todo) = 2 /\ p = "history_recorder" /\ Tail(todo) = <<"tool_executor">>
      BY <1>1, <2>3, Lists
    <3>2. Len(Tail(todo)) = 1 /\ Tail(todo) \in Rest(type)
      BY <1>2, <3>1, Lists DEF Rest
    <3> QED BY <1>1, <1>2, <3>1, <3>2
  <2>4. CASE todo = <<"tool_executor">>
    <3>1. Len(todo) = 1 /\ p = "tool_executor" /\ Tail(todo) = <<>>
      BY <1>1, <2>4, Lists
    <3>2. Len(Tail(todo)) = 0 /\ Tail(todo) \in Rest(type)
      BY <1>2, <3>1, Lists DEF Rest
    <3> QED BY <1>1, <1>2, <3>1, <3>2
  <2> QED BY <2>1, <2>2, <2>3, <2>4
<1>3. CASE type = "model_request"
  <2>1. todo = <<"model_invoker">>
    BY <1>1, <1>3 DEF Rest
  <2> QED BY <1>1, <1>3, <2>1, Lists DEF Rest
<1>4. CASE type = "model_response"
  <2>1. todo \in {<<"history_recorder", "tool_executor", "response_router">>,
                  <<"tool_executor", "response_router">>, <<"response_router">>}
    BY <1>1, <1>4 DEF Rest
  <2>2. CASE todo = <<"history_recorder", "tool_executor", "response_router">>
    <3>1. Len(todo) = 3 /\ p = "history_recorder" /\ Tail(todo) = <<"tool_executor", "response_router">>
      BY <1>1, <2>2, Lists
    <3>2. Len(Tail(todo)) = 2 /\ Tail(todo) \in Rest(type)
      BY <1>4, <3>1, Lists DEF Rest
    <3> QED BY <1>1, <1>4, <3>1, <3>2
  <2>3. CASE todo = <<"tool_executor", "response_router">>
    <3>1. Len(todo) = 2 /\ p = "tool_executor" /\ Tail(todo) = <<"response_router">>
      BY <1>1, <2>3, Lists
    <3>2. Len(Tail(todo)) = 1 /\ Tail(todo) \in Rest(type)
      BY <1>4, <3>1, Lists DEF Rest
    <3> QED BY <1>1, <1>4, <3>1, <3>2
  <2>4. CASE todo = <<"response_router">>
    <3>1. Len(todo) = 1 /\ p = "response_router" /\ Tail(todo) = <<>>
      BY <1>1, <2>4, Lists
    <3>2. Len(Tail(todo)) = 0 /\ Tail(todo) \in Rest(type)
      BY <1>4, <3>1, Lists DEF Rest
    <3> QED BY <1>1, <1>4, <3>1, <3>2
  <2> QED BY <2>1, <2>2, <2>3, <2>4
<1>5. CASE type \notin {"inbound", "model_request", "model_response"}
  BY <1>1, <1>5 DEF Rest
<1> QED BY <1>1, <1>2, <1>3, <1>4, <1>5

----------------------------------------------------------------------------
(* The token.                                                              *)

(* A step that puts no turn anywhere it has not been keeps OneToken.       *)
LEMMA NothingNew ==
    ASSUME OneToken,
           \A m \in Messages :
             /\ \A i \in Nat : /\ InQueue(m, i)' => InQueue(m, i)
                               /\ InOut(m, i)' => InOut(m, i)
                               /\ InDelivered(m, i)' => InDelivered(m, i)
             /\ InCur(m)' => InCur(m)
             /\ m \in silent' => m \in silent
             /\ Unsent(m)' => Unsent(m)
    PROVE  OneToken'
  BY DEF OneToken

(* A procedure emits, at place k of what it emits, the event that carries  *)
(* the turn on.                                                            *)
LEMMA CurToOut ==
    ASSUME OneToken, out = <<>>, NEW n \in Messages, InCur(n), NEW k \in Nat,
           UNCHANGED <<queue, delivered, silent, sent>>,
           \A m \in Messages : ~ InCur(m)',
           \A m \in Messages, i \in Nat : InOut(m, i)' => m = n /\ i = k
    PROVE  OneToken'
<1>1. \A m \in Messages : Unsent(m)' <=> Unsent(m)
  BY DEF Unsent, Sent
<1>2. \A m \in Messages, i \in Nat : /\ InQueue(m, i)' <=> InQueue(m, i)
                                     /\ InDelivered(m, i)' <=> InDelivered(m, i)
  BY DEF InQueue, InDelivered
<1> QED BY <1>1, <1>2 DEF OneToken

(* The places of a sequence after Append and Tail.                         *)
LEMMA Shifts ==
    ASSUME NEW S, NEW s \in Seq(S)
    PROVE  /\ \A e : /\ DOMAIN Append(s, e) = 1..(Len(s) + 1)
                     /\ \A i \in DOMAIN s : Append(s, e)[i] = s[i]
                     /\ Append(s, e)[Len(s) + 1] = e
           /\ DOMAIN s = 1..Len(s) /\ Len(s) \in Nat
           /\ s # <<>> => /\ Head(s) = s[1] /\ 1 \in DOMAIN s /\ Head(s) \in S /\ Tail(s) \in Seq(S)
                          /\ \A i \in DOMAIN Tail(s) : i \in Nat /\ i + 1 \in DOMAIN s /\ Tail(s)[i] = s[i + 1]
  OBVIOUS

LEMMA Singles ==
    \A e : /\ DOMAIN <<e>> = {1} /\ <<e>>[1] = e /\ DOMAIN <<>> = {}
  OBVIOUS

----------------------------------------------------------------------------
(* The channel and the loop.                                               *)

LEMMA SendKeeps ==
    ASSUME TypeOK, TurnInv, NEW n \in Messages, Send(n)
    PROVE  TurnInv'
<1>1. /\ n \notin Sent /\ queue' = Append(queue, Inbound(n)) /\ sent' = Append(sent, n)
      /\ UNCHANGED <<cur, todo, out, routing, inbox, waiters, spawned, decided, silent, delivered>>
  BY DEF Send, routerVars
<1>2. \A m \in Messages : Unsent(m)' <=> Unsent(m) /\ m # n
  <2>1. /\ DOMAIN sent' = 1..(Len(sent) + 1) /\ DOMAIN sent = 1..Len(sent) /\ Len(sent) \in Nat
        /\ \A i \in DOMAIN sent : sent'[i] = sent[i]
        /\ sent'[Len(sent) + 1] = n
    BY <1>1, Shifts DEF TypeOK
  <2>2. \A i \in DOMAIN sent' : i \in DOMAIN sent \/ i = Len(sent) + 1
    BY <2>1
  <2>3. \A m \in Messages : m \in Sent' => m \in Sent \/ m = n
    BY <2>1, <2>2 DEF Sent
  <2>4. \A m \in Messages : m \in Sent \/ m = n => m \in Sent'
    BY <2>1 DEF Sent
  <2> QED BY <2>3, <2>4 DEF Unsent
<1>3. /\ DOMAIN queue' = 1..(Len(queue) + 1) /\ DOMAIN queue = 1..Len(queue) /\ Len(queue) \in Nat
      /\ \A i \in DOMAIN queue : queue'[i] = queue[i]
      /\ queue'[Len(queue) + 1] = Inbound(n)
  BY <1>1, Shifts DEF TypeOK
<1>4. Inbound(n).turn = n
  BY DEF Inbound
<1>5. \A m \in Messages, i \in Nat :
        /\ InQueue(m, i)' => InQueue(m, i) \/ (m = n /\ i = Len(queue) + 1)
        /\ InOut(m, i)' <=> InOut(m, i)
        /\ InDelivered(m, i)' <=> InDelivered(m, i)
        /\ InCur(m)' <=> InCur(m)
  BY <1>1, <1>3, <1>4 DEF InQueue, InOut, InDelivered, InCur, Live, Carries
<1>6. OneToken'
  BY <1>1, <1>2, <1>5 DEF TurnInv, OneToken, Unsent
<1>7. \A m \in Messages : Fresh(m)' => Fresh(m)
  BY <1>1, <1>2, <1>3, <1>4 DEF Fresh, Unsent
<1>8. TodoSound' /\ OutSound' /\ Waits'
  BY <1>1 DEF TurnInv, TodoSound, OutSound, Waits
<1>9. StartedOnce'
  BY <1>1, <1>7, EventsTyped DEF TypeOK, TurnInv, StartedOnce
<1>10. Undecided'
  BY <1>1, <1>7 DEF TurnInv, Undecided, Unfired
<1> QED BY <1>6, <1>8, <1>9, <1>10 DEF TurnInv

LEMMA ReceiveKeeps ==
    ASSUME TypeOK, TurnInv, Receive
    PROVE  TurnInv'
<1> DEFINE e == Head(queue)
<1>1. /\ cur = None /\ cur' = e /\ queue' = Tail(queue) /\ todo' = Handlers(e.type)
      /\ delivered' = IF e.type = "delivery_request" THEN Append(delivered, e) ELSE delivered
      /\ UNCHANGED <<out, routing, inbox, waiters, spawned, decided, silent, sent>>
  BY DEF Receive, routerVars
<1>2. /\ e = queue[1] /\ 1 \in DOMAIN queue /\ e \in SpineEvent /\ e.turn \in Messages
      /\ \A i \in DOMAIN queue' : i \in Nat /\ i # 0 /\ i + 1 \in DOMAIN queue /\ queue'[i] = queue[i + 1]
  <2>1. queue # <<>> /\ queue \in Seq(SpineEvent)
    BY DEF Receive, TypeOK
  <2>2. /\ e = queue[1] /\ 1 \in DOMAIN queue /\ e \in SpineEvent
        /\ \A i \in DOMAIN queue' : i \in Nat /\ i + 1 \in DOMAIN queue /\ queue'[i] = queue[i + 1]
    BY <1>1, <2>1, Shifts
  <2>3. \A i \in DOMAIN queue' : i # 0
    BY <1>1, <2>1
  <2> QED BY <2>2, <2>3, EventsTyped
<1>3. /\ DOMAIN Append(delivered, e) = 1..(Len(delivered) + 1)
      /\ DOMAIN delivered = 1..Len(delivered) /\ Len(delivered) \in Nat
      /\ \A i \in DOMAIN delivered : Append(delivered, e)[i] = delivered[i]
      /\ Append(delivered, e)[Len(delivered) + 1] = e
  BY Shifts DEF TypeOK
<1>4. routing = "none"
  BY <1>1 DEF TypeOK, Turn
<1> HIDE DEF e
<1>5. \A m \in Messages : InCur(m)' => InQueue(m, 1) /\ e.type # "delivery_request"
  BY <1>1, <1>2 DEF InCur, Live, InQueue, Carries
<1>6. \A m \in Messages, i \in Nat :
        InDelivered(m, i)' => \/ InDelivered(m, i)
                              \/ i = Len(delivered) + 1 /\ InQueue(m, 1) /\ e.type = "delivery_request"
  BY <1>1, <1>2, <1>3 DEF InDelivered, InQueue, Carries
<1>7. \A m \in Messages, i \in Nat : /\ InQueue(m, i)' => InQueue(m, i + 1) /\ i + 1 # 1 /\ i + 1 \in Nat
                                     /\ InOut(m, i)' => InOut(m, i)
  BY <1>1, <1>2 DEF InQueue, InOut, Carries
<1>8. \A m \in Messages : (Unsent(m)' <=> Unsent(m)) /\ ~ InCur(m)
  BY <1>1 DEF Unsent, Sent, InCur, Live
<1>9. OneToken'
  BY <1>1, <1>5, <1>6, <1>7, <1>8 DEF TurnInv, OneToken
<1>10. \A m \in Messages : Fresh(m)' => Fresh(m)
  BY <1>1, <1>2, <1>8 DEF Fresh
<1>11. StartedOnce'
  <2> SUFFICES ASSUME NEW n \in Messages, n = cur'.turn, cur'.type = "inbound", Fresh(n)' PROVE FALSE
    BY <1>1, <1>2 DEF StartedOnce
  <2>1. InQueue(n, 1)
    BY <1>1, <1>2 DEF InQueue, Carries
  <2>2. ~ Unsent(n)'
    BY <1>8, <2>1 DEF TurnInv, OneToken
  <2>3. PICK i \in DOMAIN queue' : queue'[i].type = "inbound" /\ queue'[i].turn = n
    BY <2>2 DEF Fresh
  <2>4. InQueue(n, i + 1) /\ i + 1 # 1 /\ i + 1 \in Nat
    BY <1>2, <2>3 DEF InQueue, Carries
  <2> QED BY <2>1, <2>4 DEF TurnInv, OneToken
<1>12. \A m \in Messages : Unfired(m)' => Unfired(m)
  BY <1>1, <1>2, <1>10 DEF Unfired, Fresh
<1>13. Undecided' /\ TodoSound' /\ OutSound' /\ Waits'
  BY <1>1, <1>4, <1>12, HandlersRest DEF TurnInv, Undecided, TodoSound, OutSound, Waits
<1> QED BY <1>9, <1>11, <1>13 DEF TurnInv

LEMMA EmitKeeps ==
    ASSUME TypeOK, TurnInv, Emit
    PROVE  TurnInv'
<1> DEFINE e == Head(out)
<1>1. /\ queue' = Append(queue, e) /\ out' = Tail(out)
      /\ UNCHANGED <<cur, todo, routing, inbox, waiters, spawned, decided, silent, sent, delivered>>
  BY DEF Emit, routerVars, ghosts
<1>2. /\ e = out[1] /\ 1 \in DOMAIN out
      /\ \A i \in DOMAIN out' : i \in Nat /\ i # 0 /\ i + 1 \in DOMAIN out /\ out'[i] = out[i + 1]
  <2>1. out # <<>> /\ out \in Seq(SpineEvent)
    BY DEF Emit, TypeOK
  <2>2. /\ e = out[1] /\ 1 \in DOMAIN out
        /\ \A i \in DOMAIN out' : i \in Nat /\ i + 1 \in DOMAIN out /\ out'[i] = out[i + 1]
    BY <1>1, <2>1, Shifts
  <2>3. \A i \in DOMAIN out' : i # 0
    BY <1>1, <2>1
  <2> QED BY <2>2, <2>3
<1> HIDE DEF e
<1>3. /\ DOMAIN queue' = 1..(Len(queue) + 1) /\ DOMAIN queue = 1..Len(queue) /\ Len(queue) \in Nat
      /\ \A i \in DOMAIN queue : queue'[i] = queue[i]
      /\ queue'[Len(queue) + 1] = e
  BY <1>1, Shifts DEF TypeOK
<1>4. e.type # "inbound"
  BY <1>2 DEF TurnInv, OutSound
<1>5. \A m \in Messages, i \in Nat :
        /\ InQueue(m, i)' => InQueue(m, i) \/ (InOut(m, 1) /\ i = Len(queue) + 1)
        /\ InOut(m, i)' => InOut(m, i + 1) /\ i + 1 # 1 /\ i + 1 \in Nat
        /\ InDelivered(m, i)' <=> InDelivered(m, i)
        /\ InCur(m)' <=> InCur(m)
        /\ Unsent(m)' <=> Unsent(m)
  BY <1>1, <1>2, <1>3 DEF InQueue, InOut, InDelivered, InCur, Live, Carries, Unsent, Sent
<1>6. OneToken'
  BY <1>1, <1>5 DEF TurnInv, OneToken
<1>7. \A m \in Messages : Fresh(m)' => Fresh(m)
  BY <1>1, <1>3, <1>4, <1>5 DEF Fresh
<1>8. StartedOnce'
  BY <1>1, <1>7, EventsTyped DEF TypeOK, TurnInv, StartedOnce
<1>9. Undecided' /\ Waits' /\ TodoSound' /\ OutSound'
  BY <1>1, <1>2, <1>7 DEF TurnInv, Undecided, Unfired, Waits, TodoSound, OutSound
<1> QED BY <1>6, <1>8, <1>9 DEF TurnInv

LEMMA FinishKeeps ==
    ASSUME TypeOK, TurnInv, Finish
    PROVE  TurnInv'
<1>1. /\ cur # None /\ cur' = None
      /\ UNCHANGED <<queue, todo, out, routing, inbox, waiters, decided, silent, sent, delivered>>
      /\ \A x \in spawned' : x \in spawned \/ (cur.type = "inbound" /\ x.turn = cur.turn)
  BY DEF Finish, Fire, ghosts
<1>2. \A m \in Messages : /\ Unsent(m)' <=> Unsent(m)
                          /\ Fresh(m)' <=> Fresh(m)
  BY <1>1 DEF Fresh, Unsent, Sent
<1>3. OneToken'
  BY <1>1, <1>2, NothingNew DEF TurnInv, InQueue, InOut, InDelivered, InCur, Live
<1>4. Undecided'
  BY <1>1, <1>2 DEF TurnInv, Undecided, Unfired, StartedOnce
<1>5. TodoSound' /\ OutSound' /\ StartedOnce' /\ Waits'
  BY <1>1 DEF TypeOK, Turn, Finish, TurnInv, TodoSound, OutSound, StartedOnce, Waits
<1> QED BY <1>3, <1>4, <1>5 DEF TurnInv

----------------------------------------------------------------------------
(* The router.                                                             *)

(* While the router waits it is the next procedure of an inbound message,  *)
(* which is its turn.                                                      *)
LEMMA RouterTurn ==
    ASSUME TypeOK, TurnInv, Turn("inbound_router", "inbound")
    PROVE  /\ cur # None /\ cur.type = "inbound" /\ Len(todo) = 3 /\ out = <<>>
           /\ cur.turn \in Messages /\ InCur(cur.turn)
           /\ Tail(todo) \in Rest("inbound") /\ Len(Tail(todo)) = 2
<1>1. TodoSound
  BY DEF TurnInv
<1>2. /\ cur # None /\ cur.type = "inbound" /\ Len(todo) = 3 /\ out = <<>>
      /\ Tail(todo) \in Rest("inbound") /\ Len(Tail(todo)) = 2
  BY <1>1, NextLeft
<1> QED BY <1>2, TurnTyped DEF InCur, Live

LEMMA SubscribeKeeps ==
    ASSUME TypeOK, TurnInv, SubscribeThenFire
    PROVE  TurnInv'
<1>1. /\ Turn("inbound_router", "inbound")
      /\ UNCHANGED <<queue, cur, todo, out, inbox, decided, silent, sent, delivered>>
  BY DEF SubscribeThenFire, loopVars, ghosts
<1>2. cur # None /\ cur.type = "inbound" /\ Len(todo) = 3 /\ cur.turn \in Messages
  BY <1>1, RouterTurn
<1>3. \A m \in Messages : /\ Unsent(m)' <=> Unsent(m)
                          /\ Fresh(m)' <=> Fresh(m)
  BY <1>1 DEF Fresh, Unsent, Sent
<1>4. OneToken'
  BY <1>1, <1>3, NothingNew DEF TurnInv, InQueue, InOut, InDelivered, InCur, Live
<1>5. TodoSound' /\ OutSound' /\ StartedOnce'
  BY <1>1, <1>2, <1>3 DEF TurnInv, TodoSound, OutSound, StartedOnce
<1>6. CASE routing = "none" /\ waiters' = waiters \cup {cur.turn} /\ routing' = "subscribed" /\ UNCHANGED spawned
  <2>1. Undecided' /\ Waits'
    BY <1>1, <1>3, <1>6 DEF TurnInv, Undecided, Unfired, Waits
  <2> QED BY <1>4, <1>5, <2>1 DEF TurnInv
<1>7. CASE routing = "subscribed" /\ Fire(cur.turn, "router") /\ routing' = "waiting" /\ UNCHANGED waiters
  <2>1. \A x \in spawned' : x \in spawned \/ x.turn = cur.turn
    BY <1>7 DEF Fire
  <2>2. Undecided'
    BY <1>1, <1>2, <1>3, <1>7, <2>1 DEF TurnInv, Undecided, Unfired, StartedOnce
  <2>3. cur.turn \notin decided
    BY <1>2, <1>7 DEF TurnInv, Undecided, Unfired
  <2>4. Waits'
    BY <1>1, <1>7, <2>3 DEF TurnInv, Waits
  <2> QED BY <1>4, <1>5, <2>2, <2>4 DEF TurnInv
<1> QED BY <1>6, <1>7 DEF SubscribeThenFire

(* The router ends: the turn goes on with a request for the model, or is   *)
(* left to `.px`.                                                          *)
LEMMA EndRoutingKeeps ==
    ASSUME TypeOK, TurnInv, routing # "none", NEW events, EndRouting(events),
           \/ events = <<>> /\ silent' = silent \cup {cur.turn}
           \/ events = <<ModelRequest(cur.turn, "inbound_router")>> /\ silent' = silent
    PROVE  TurnInv'
<1>1. /\ todo' = Tail(todo) /\ out' = events /\ routing' = "none"
      /\ UNCHANGED <<queue, cur, waiters, spawned, decided, sent, delivered>>
  BY DEF EndRouting, Done, ghosts
<1>2. /\ cur # None /\ cur.type = "inbound" /\ Len(todo) = 3 /\ out = <<>>
      /\ cur.turn \in Messages /\ InCur(cur.turn)
      /\ todo' \in Rest("inbound") /\ Len(todo') = 2
  BY <1>1, RouterTurn DEF TypeOK
<1>3. \A m \in Messages : /\ Unsent(m)' <=> Unsent(m)
                          /\ Fresh(m)' <=> Fresh(m)
                          /\ ~ InCur(m)'
  BY <1>1, <1>2 DEF Fresh, Unsent, Sent, InCur, Live
<1>4. ModelRequest(cur.turn, "inbound_router").type = "model_request"
      /\ ModelRequest(cur.turn, "inbound_router").turn = cur.turn
  BY DEF ModelRequest
<1>5. OneToken' /\ OutSound'
  <2>1. CASE events = <<>> /\ silent' = silent \cup {cur.turn}
    <3>1. \A m \in Messages, i \in Nat : /\ InQueue(m, i)' <=> InQueue(m, i)
                                         /\ InDelivered(m, i)' <=> InDelivered(m, i)
                                         /\ ~ InOut(m, i)'
      BY <1>1, <2>1, Singles DEF InQueue, InDelivered, InOut
    <3>2. OneToken'
      BY <1>2, <1>3, <2>1, <3>1 DEF TurnInv, OneToken
    <3>3. OutSound'
      BY <1>1, <2>1, Singles DEF OutSound
    <3> QED BY <3>2, <3>3
  <2>2. CASE events = <<ModelRequest(cur.turn, "inbound_router")>> /\ silent' = silent
    <3>1. DOMAIN out' = {1} /\ out'[1] = ModelRequest(cur.turn, "inbound_router")
      BY <1>1, <2>2, Singles
    <3>2. \A m \in Messages, i \in Nat : InOut(m, i)' => m = cur.turn /\ i = 1
      BY <1>4, <3>1 DEF InOut, Carries
    <3>3. OneToken'
      <4>1. PICK n \in Messages : n = cur.turn
        BY <1>2
      <4>2. InCur(n) /\ out = <<>> /\ OneToken
        BY <1>2, <4>1 DEF InCur, TurnInv
      <4>3. UNCHANGED <<queue, delivered, silent, sent>>
        BY <1>1, <2>2
      <4>4. /\ \A m \in Messages : ~ InCur(m)'
            /\ \A m \in Messages, i \in Nat : InOut(m, i)' => m = n /\ i = 1
        BY <1>3, <3>2, <4>1
      <4> QED BY <4>2, <4>3, <4>4, CurToOut
    <3>4. OutSound'
      BY <1>4, <3>1 DEF OutSound
    <3> QED BY <3>3, <3>4
  <2> QED BY <2>1, <2>2
<1>6. TodoSound' /\ StartedOnce' /\ Undecided' /\ Waits'
  BY <1>1, <1>2, <1>3 DEF TurnInv, TodoSound, StartedOnce, Undecided, Unfired, Waits
<1> QED BY <1>5, <1>6 DEF TurnInv

LEMMA ExecuteKeeps ==
    ASSUME TypeOK, TurnInv, NEW x \in spawned, Execute(x)
    PROVE  TurnInv'
<1>1. UNCHANGED <<queue, cur, todo, out, routing, silent, sent, delivered>> /\ spawned' \subseteq spawned
  BY DEF Execute, loopVars, ghosts
<1>2. \A m \in Messages : /\ Unsent(m)' <=> Unsent(m)
                          /\ Fresh(m)' <=> Fresh(m)
                          /\ Unfired(m)' <=> Unfired(m)
  BY <1>1 DEF Fresh, Unsent, Sent, Unfired
<1>3. OneToken'
  BY <1>1, <1>2, NothingNew DEF TurnInv, InQueue, InOut, InDelivered, InCur, Live
<1>4. TodoSound' /\ OutSound'
  BY <1>1 DEF TurnInv, TodoSound, OutSound
<1>5. StartedOnce'
  BY <1>1, <1>2, EventsTyped DEF TypeOK, TurnInv, StartedOnce
<1>6. decided' \subseteq decided \cup {x.turn}
  BY DEF Execute
<1>7. Undecided'
  BY <1>1, <1>2, <1>6 DEF TurnInv, Undecided
<1>8. Waits'
  <2> SUFFICES ASSUME routing # "none", inbox' = None
               PROVE  cur.turn \in waiters' /\ (routing = "waiting" => cur.turn \notin decided')
    BY <1>1 DEF Waits
  <2>1. CASE UNCHANGED <<inbox, waiters, decided>>
    BY <2>1 DEF TurnInv, Waits
  <2>2. CASE \E destination \in {"conversation", "procedural"} :
               /\ decided' = decided \cup {x.turn}
               /\ waiters' = waiters \ {x.turn}
               /\ inbox' = IF x.turn \in waiters /\ routing # "none" /\ cur.turn = x.turn
                           THEN destination ELSE inbox
    <3>1. inbox = None /\ ~ (x.turn \in waiters /\ cur.turn = x.turn)
      BY <2>2, NoneIsNoDecision
    <3>2. cur.turn \in waiters /\ cur.turn # x.turn
      BY <3>1 DEF TurnInv, Waits
    <3> QED BY <2>2, <3>1, <3>2 DEF TurnInv, Waits
  <2> QED BY <2>1, <2>2 DEF Execute
<1> QED BY <1>3, <1>4, <1>5, <1>7, <1>8 DEF TurnInv

----------------------------------------------------------------------------
(* The other procedures.                                                   *)

(* What all of them have in common.                                        *)
LEMMA DoneKeeps ==
    ASSUME TypeOK, TurnInv, NEW p, NEW type, Turn(p, type), ~ Turn("inbound_router", "inbound"),
           NEW events, Done(events), \A i \in DOMAIN events : events[i].type # "inbound",
           UNCHANGED <<routerVars, sent, delivered>>
    PROVE  /\ TodoSound' /\ OutSound' /\ StartedOnce' /\ Undecided' /\ Waits'
           /\ \A m \in Messages, i \in Nat : /\ InQueue(m, i)' <=> InQueue(m, i)
                                             /\ InDelivered(m, i)' <=> InDelivered(m, i)
           /\ \A m \in Messages : /\ Unsent(m)' <=> Unsent(m)
                                  /\ m \in silent' <=> m \in silent
<1>1. /\ todo' = Tail(todo) /\ out' = events
      /\ UNCHANGED <<queue, cur, routing, inbox, waiters, spawned, decided, silent, sent, delivered>>
  BY DEF Done, routerVars
<1>2. TodoSound
  BY DEF TurnInv
<1>3. /\ cur # None /\ cur.type = type /\ todo' \in Rest(type)
      /\ Len(todo) \in 1..3 /\ Len(todo') = Len(todo) - 1
  BY <1>1, <1>2, NextLeft
<1>4. routing = "none" /\ cur.turn \in Messages
  BY TurnTyped DEF TypeOK
<1>5. \A m \in Messages : /\ Unsent(m)' <=> Unsent(m)
                          /\ Fresh(m)' <=> Fresh(m)
  BY <1>1 DEF Fresh, Unsent, Sent
<1>6. TodoSound' /\ OutSound'
  BY <1>1, <1>3 DEF TodoSound, OutSound
<1>7. StartedOnce' /\ Waits'
  BY <1>1, <1>4, <1>5 DEF TurnInv, StartedOnce, Waits
<1>8. Undecided'
  <2>1. Len(todo') # 3
    BY SMTT(30), <1>3
  <2>2. \A m \in Messages : Unfired(m)' => Unfired(m)
    BY <1>5, <2>1 DEF Unfired
  <2> QED BY <1>1, <2>2 DEF TurnInv, Undecided
<1> QED BY <1>1, <1>5, <1>6, <1>7, <1>8 DEF InQueue, InDelivered

(* A procedure that emits nothing ends no turn.                            *)
LEMMA SilentKeeps ==
    ASSUME TypeOK, TurnInv, NEW p, NEW type, Turn(p, type), ~ Turn("inbound_router", "inbound"),
           Done(<<>>), UNCHANGED <<routerVars, sent, delivered>>,
           Live' => Live
    PROVE  TurnInv'
<1>1. out' = <<>> /\ cur' = cur
  BY DEF Done
<1>2. \A i \in DOMAIN <<>> : <<>>[i].type # "inbound"
  BY Singles
<1>3. /\ TodoSound' /\ OutSound' /\ StartedOnce' /\ Undecided' /\ Waits'
      /\ \A m \in Messages, i \in Nat : /\ InQueue(m, i)' <=> InQueue(m, i)
                                        /\ InDelivered(m, i)' <=> InDelivered(m, i)
      /\ \A m \in Messages : /\ Unsent(m)' <=> Unsent(m)
                             /\ m \in silent' <=> m \in silent
  BY <1>2, DoneKeeps
<1>4. \A m \in Messages, i \in Nat : ~ InOut(m, i)'
  BY <1>1, Singles DEF InOut
<1>5. \A m \in Messages : InCur(m)' => InCur(m)
  BY <1>1 DEF InCur
<1>6. OneToken'
  BY <1>3, <1>4, <1>5, NothingNew DEF TurnInv
<1> QED BY <1>3, <1>6 DEF TurnInv

(* A procedure that emits the event that carries on the turn, as the last  *)
(* of its events, is the one the turn waited for.                          *)
LEMMA CarryKeeps ==
    ASSUME TypeOK, TurnInv, NEW p, NEW type, Turn(p, type), ~ Turn("inbound_router", "inbound"),
           NEW events, Done(events), UNCHANGED <<routerVars, sent, delivered>>,
           \A i \in DOMAIN events : events[i].type # "inbound" /\ events[i].turn = cur.turn,
           NEW k \in Nat, \A i \in DOMAIN events : i # k => events[i].type = "tool_result",
           Live, ~ Live'
    PROVE  TurnInv'
<1>1. out' = events /\ cur' = cur /\ out = <<>> /\ UNCHANGED <<queue, delivered, silent, sent>>
  BY DEF Done, Turn, routerVars
<1>2. /\ TodoSound' /\ OutSound' /\ StartedOnce' /\ Undecided' /\ Waits'
  BY DoneKeeps
<1>3. OneToken'
  <2>1. PICK n \in Messages : n = cur.turn
    BY TurnTyped
  <2>2. InCur(n) /\ OneToken
    BY <2>1 DEF InCur, TurnInv
  <2>3. /\ \A m \in Messages : ~ InCur(m)'
        /\ \A m \in Messages, i \in Nat : InOut(m, i)' => m = n /\ i = k
    BY <1>1, <2>1 DEF InCur, InOut, Carries
  <2> QED BY <1>1, <2>2, <2>3, CurToOut
<1> QED BY <1>2, <1>3 DEF TurnInv

(* The lists the other procedures see, and what is left after them.        *)
LEMMA OtherTurn ==
    ASSUME TypeOK, TurnInv, NEW p, NEW type, Turn(p, type), p # "inbound_router"
    PROVE  /\ ~ Turn("inbound_router", "inbound")
           /\ cur # None /\ cur.type = type /\ cur \in SpineEvent /\ cur.turn \in Messages
           /\ type = "model_response" => cur.calls \in 0..MaxCalls
           /\ Len(Tail(todo)) = Len(todo) - 1
           /\ p = "history_recorder" /\ type = "inbound" => Len(todo) = 2
           /\ p = "tool_executor" /\ type = "inbound" => Len(todo) = 1
           /\ p = "model_invoker" /\ type = "model_request" => Len(todo) = 1
           /\ p = "history_recorder" /\ type = "model_response" => Len(todo) = 3
           /\ p = "tool_executor" /\ type = "model_response" => Len(todo) = 2
           /\ p = "response_router" /\ type = "model_response" => Len(todo) = 1
<1>1. TodoSound
  BY DEF TurnInv
<1>2. ~ Turn("inbound_router", "inbound")
  BY DEF Turn
<1>3. cur # None /\ cur.type = type /\ cur \in SpineEvent /\ cur.turn \in Messages
  BY TurnTyped DEF Turn
<1>4. type = "model_response" => cur.calls \in 0..MaxCalls
  BY <1>3, EventsTyped
<1> QED BY <1>1, <1>2, <1>3, <1>4, NextLeft

(* What is left to be done after a procedure.                              *)
LEMMA LeftAfter ==
    ASSUME NEW events, Done(events), cur # None
    PROVE  /\ cur.type = "inbound" /\ Len(Tail(todo)) # 3 => ~ Live'
           /\ cur.type = "model_request" /\ Len(Tail(todo)) # 1 => ~ Live'
           /\ cur.type = "model_response" /\ Len(Tail(todo)) = 0 => ~ Live'
           /\ cur.type = "model_response" /\ cur.calls # 0 /\ Len(Tail(todo)) = 1 => ~ Live'
<1>1. cur' = cur /\ todo' = Tail(todo)
  BY DEF Done
<1>2. Len(todo') = Len(Tail(todo))
  BY <1>1
<1> QED BY SMTT(30), <1>1, <1>2 DEF Live

LEMMA RecordInboundKeeps == ASSUME TypeOK, TurnInv, RecordInbound PROVE TurnInv'
<1>1. Turn("history_recorder", "inbound") /\ Done(<<>>) /\ UNCHANGED <<routerVars, sent, delivered>>
  BY DEF RecordInbound, ghosts
<1>2. ~ Turn("inbound_router", "inbound") /\ cur # None /\ cur.type = "inbound" /\ Len(Tail(todo)) = 1
  BY <1>1, OtherTurn
<1>3. ~ Live'
  BY <1>1, <1>2, LeftAfter
<1> QED BY <1>1, <1>2, <1>3, SilentKeeps

LEMMA ResetKeeps == ASSUME TypeOK, TurnInv, ResetOnInbound PROVE TurnInv'
<1>1. Turn("tool_executor", "inbound") /\ Done(<<>>) /\ UNCHANGED <<routerVars, sent, delivered>>
  BY DEF ResetOnInbound, ghosts
<1>2. ~ Turn("inbound_router", "inbound") /\ cur # None /\ cur.type = "inbound" /\ Len(Tail(todo)) = 0
  BY <1>1, OtherTurn
<1>3. ~ Live'
  BY <1>1, <1>2, LeftAfter
<1> QED BY <1>1, <1>2, <1>3, SilentKeeps

LEMMA RecordResponseKeeps == ASSUME TypeOK, TurnInv, RecordResponse PROVE TurnInv'
<1>1. Turn("history_recorder", "model_response") /\ Done(<<>>) /\ UNCHANGED <<routerVars, sent, delivered>>
  BY DEF RecordResponse, ghosts
<1>2. ~ Turn("inbound_router", "inbound") /\ cur # None /\ cur.type = "model_response" /\ Len(todo) = 3
  BY <1>1, OtherTurn
<1>3. Live
  BY <1>2 DEF Live
<1> QED BY <1>1, <1>2, <1>3, SilentKeeps

LEMMA InvokeKeeps == ASSUME TypeOK, TurnInv, Invoke PROVE TurnInv'
<1>1. Turn("model_invoker", "model_request") /\ UNCHANGED <<routerVars, sent, delivered>>
  BY DEF Invoke, ghosts
<1>2. /\ ~ Turn("inbound_router", "inbound") /\ cur # None /\ cur.type = "model_request"
      /\ Len(todo) = 1 /\ Len(Tail(todo)) = 0
  BY <1>1, OtherTurn
<1>3. PICK reply : /\ Done(<<reply>>) /\ reply.turn = cur.turn /\ reply.type # "inbound"
  BY DEF Invoke, ModelResponse, DeliveryRequest
<1>4. \A i \in DOMAIN <<reply>> : i = 1 /\ <<reply>>[i] = reply
  BY Singles
<1>5. Live /\ ~ Live'
  <2>1. Live
    BY <1>2 DEF Live
  <2>2. cur.type = "model_request" /\ Len(Tail(todo)) # 1 /\ Done(<<reply>>)
    BY <1>2, <1>3
  <2>3. ~ Live'
    BY <1>2, <2>2, LeftAfter
  <2> QED BY <2>1, <2>3
<1> QED BY <1>1, <1>2, <1>3, <1>4, <1>5, CarryKeeps

LEMMA RouteResponseKeeps == ASSUME TypeOK, TurnInv, RouteResponse PROVE TurnInv'
<1>1. Turn("response_router", "model_response") /\ UNCHANGED <<routerVars, sent, delivered>>
  BY DEF RouteResponse, ghosts
<1>2. /\ ~ Turn("inbound_router", "inbound") /\ cur # None /\ cur.type = "model_response"
      /\ Len(todo) = 1 /\ Len(Tail(todo)) = 0 /\ cur.calls \in Nat
  BY <1>1, OtherTurn, PipelineConstants
<1>3. CASE cur.calls # 0
  <2>1. Done(<<>>)
    BY <1>3 DEF RouteResponse, Deliverable
  <2>2. ~ Live'
    BY <1>2, <2>1, LeftAfter
  <2> QED BY <1>1, <1>2, <2>1, <2>2, SilentKeeps
<1>4. CASE cur.calls = 0
  <2>1. PICK reply : /\ Done(<<reply>>) /\ reply.turn = cur.turn /\ reply.type # "inbound"
    BY <1>4 DEF RouteResponse, Deliverable, DeliveryRequest
  <2>2. \A i \in DOMAIN <<reply>> : i = 1 /\ <<reply>>[i] = reply
    BY Singles
  <2>3. Live /\ ~ Live'
    BY <1>2, <1>4, <2>1, LeftAfter DEF Live
  <2> QED BY <1>1, <1>2, <2>1, <2>2, <2>3, CarryKeeps
<1> QED BY <1>3, <1>4

(* The events of a tool round are its results and one request.             *)
LEMMA RoundIs ==
    ASSUME NEW m \in Messages, NEW k \in Nat, NEW events,
           events = [i \in 1..k |-> ToolResult(m)] \o <<ModelRequest(m, "tool_executor")>>
    PROVE  \A i \in DOMAIN events :
             \/ events[i] = ToolResult(m)
             \/ i = k + 1 /\ events[i] = ModelRequest(m, "tool_executor")
<1> DEFINE results == [i \in 1..k |-> ToolResult(m)]
           request == <<ModelRequest(m, "tool_executor")>>
<1>1. results \in Seq(SpineEvent) /\ Len(results) = k /\ \A i \in 1..k : results[i] = ToolResult(m)
  BY EventsTyped, IsASeq
<1>2. request \in Seq(SpineEvent) /\ Len(request) = 1 /\ request[1] = ModelRequest(m, "tool_executor")
  BY EventsTyped
<1>3. events = results \o request
  OBVIOUS
<1> HIDE DEF results, request
<1>4. /\ events \in Seq(SpineEvent) /\ Len(events) = Len(results) + Len(request)
      /\ \A i \in 1..(Len(results) + Len(request)) :
           events[i] = IF i <= Len(results) THEN results[i] ELSE request[i - Len(results)]
  BY <1>1, <1>2, <1>3, ConcatProperties
<1>5. DOMAIN events = 1..(k + 1)
  <2>1. Len(events) = k + 1 /\ DOMAIN events = 1..Len(events)
    BY <1>1, <1>2, <1>4, LenProperties
  <2> QED BY <2>1
<1>6. ASSUME NEW i \in 1..(k + 1)
      PROVE  \/ events[i] = ToolResult(m)
             \/ i = k + 1 /\ events[i] = ModelRequest(m, "tool_executor")
  <2>1. CASE i <= k
    BY <1>1, <1>2, <1>4, <2>1
  <2>2. CASE i = k + 1
    BY <1>1, <1>2, <1>4, <2>2
  <2>3. i <= k \/ i = k + 1
    OBVIOUS
  <2> QED BY <2>1, <2>2, <2>3
<1> QED BY <1>5, <1>6

LEMMA RoundEvents ==
    ASSUME NEW m \in Messages, NEW k \in Nat, NEW events,
           events = [i \in 1..k |-> ToolResult(m)] \o <<ModelRequest(m, "tool_executor")>>
    PROVE  \A i \in DOMAIN events :
             /\ events[i].turn = m /\ events[i].type # "inbound"
             /\ i # k + 1 => events[i].type = "tool_result"
BY RoundIs DEF ToolResult, ModelRequest

LEMMA RoundTypes ==
    ASSUME NEW m \in Messages, NEW k \in Nat, NEW events,
           events = [i \in 1..k |-> ToolResult(m)] \o <<ModelRequest(m, "tool_executor")>>
    PROVE  \A i \in DOMAIN events :
             events[i].turn = m /\ events[i].type \in {"tool_result", "model_request"}
BY RoundIs DEF ToolResult, ModelRequest

LEMMA RunToolsKeeps == ASSUME TypeOK, TurnInv, RunTools PROVE TurnInv'
<1>1. Turn("tool_executor", "model_response") /\ UNCHANGED <<routerVars, sent, delivered>>
  BY DEF RunTools
<1>2. /\ ~ Turn("inbound_router", "inbound") /\ cur # None /\ cur.type = "model_response"
      /\ Len(todo) = 2 /\ Len(Tail(todo)) = 1 /\ cur.turn \in Messages /\ cur.calls \in Nat
  <2>1. /\ ~ Turn("inbound_router", "inbound") /\ cur # None /\ cur.type = "model_response"
        /\ Len(todo) = 2 /\ Len(Tail(todo)) = Len(todo) - 1
        /\ cur.turn \in Messages /\ cur.calls \in 0..MaxCalls
    BY <1>1, OtherTurn
  <2> QED BY <2>1, PipelineConstants
<1>3. CASE cur.calls = 0
  <2>1. Done(<<>>)
    BY <1>3 DEF RunTools
  <2>2. Live
    BY <1>2, <1>3 DEF Live
  <2> QED BY <1>1, <1>2, <2>1, <2>2, SilentKeeps
<1>4. CASE cur.calls > 0 /\ Done(<<DeliveryRequest(cur.turn, "aborted", "system")>>)
  <2>1. PICK reply : /\ Done(<<reply>>) /\ reply.turn = cur.turn /\ reply.type # "inbound"
    BY <1>4 DEF DeliveryRequest
  <2>2. \A i \in DOMAIN <<reply>> : i = 1 /\ <<reply>>[i] = reply
    BY Singles
  <2>3. Live /\ ~ Live'
    BY <1>2, <1>4, <2>1, LeftAfter DEF Live
  <2> QED BY <1>1, <1>2, <2>1, <2>2, <2>3, CarryKeeps
<1>5. CASE cur.calls > 0 /\ Done([i \in 1..cur.calls |-> ToolResult(cur.turn)]
                                 \o <<ModelRequest(cur.turn, "tool_executor")>>)
  <2>1. PICK m \in Messages, k \in Nat : m = cur.turn /\ k = cur.calls
    BY <1>2
  <2>2. PICK events : events = [i \in 1..k |-> ToolResult(m)] \o <<ModelRequest(m, "tool_executor")>>
    OBVIOUS
  <2>3. Done(events)
    BY <1>5, <2>1, <2>2
  <2>4. \A i \in DOMAIN events : /\ events[i].turn = cur.turn /\ events[i].type # "inbound"
                                 /\ i # k + 1 => events[i].type = "tool_result"
    <3>1. \A i \in DOMAIN events : /\ events[i].turn = m /\ events[i].type # "inbound"
                                   /\ i # k + 1 => events[i].type = "tool_result"
      BY <2>2, RoundEvents
    <3> QED BY <2>1, <3>1
  <2>5. Live /\ ~ Live'
    BY <1>2, <1>5, <2>3, LeftAfter DEF Live
  <2>6. k + 1 \in Nat
    OBVIOUS
  <2> QED BY <1>1, <1>2, <2>3, <2>4, <2>5, <2>6, CarryKeeps
<1> QED BY <1>2, <1>3, <1>4, <1>5 DEF RunTools

----------------------------------------------------------------------------
(* The invariant.                                                          *)

LEMMA TurnInit == Init => TurnInv
<1> SUFFICES ASSUME Init PROVE TurnInv
  OBVIOUS
<1>1. /\ DOMAIN queue = {} /\ DOMAIN out = {} /\ DOMAIN delivered = {} /\ DOMAIN sent = {}
  BY Singles DEF Init
<1>2. OneToken
  BY <1>1 DEF Init, OneToken, InQueue, InOut, InDelivered, InCur, Live
<1> QED BY <1>1, <1>2 DEF Init, TurnInv, TodoSound, OutSound, StartedOnce, Undecided, Waits

LEMMA TurnStep == TypeOK /\ TurnInv /\ [Next]_vars => TurnInv'
<1> SUFFICES ASSUME TypeOK, TurnInv, [Next]_vars PROVE TurnInv'
  OBVIOUS
<1>1. CASE \E m \in Messages : Send(m)
  BY <1>1, SendKeeps
<1>2. CASE Loop
  <2>1. CASE Receive \/ Emit \/ Finish \/ SubscribeThenFire
    BY <2>1, ReceiveKeeps, EmitKeeps, FinishKeeps, SubscribeKeeps
  <2>2. CASE Route
    <3>1. /\ routing # "none"
          /\ \/ silent' = silent \cup {cur.turn} /\ EndRouting(<<>>)
             \/ silent' = silent /\ EndRouting(<<ModelRequest(cur.turn, "inbound_router")>>)
      BY <2>2 DEF Route
    <3> QED BY <3>1, EndRoutingKeeps
  <2>3. CASE RecordInbound \/ RecordResponse \/ Invoke \/ ResetOnInbound \/ RunTools \/ RouteResponse
    BY <2>3, RecordInboundKeeps, RecordResponseKeeps, InvokeKeeps, ResetKeeps, RunToolsKeeps,
       RouteResponseKeeps
  <2> QED BY <1>2, <2>1, <2>2, <2>3 DEF Loop
<1>3. CASE FallBack
  BY <1>3, EndRoutingKeeps DEF FallBack
<1>4. CASE \E x \in spawned : Execute(x)
  BY <1>4, ExecuteKeeps
<1>5. CASE UNCHANGED vars
  <2>1. UNCHANGED <<queue, cur, todo, out, routing, inbox, waiters, spawned, decided, silent, sent, delivered>>
    BY <1>5 DEF vars, loopVars, routerVars, ghosts
  <2>2. OneToken'
    BY <2>1, NothingNew DEF TurnInv, InQueue, InOut, InDelivered, InCur, Live, Unsent, Sent
  <2>3. TodoSound' /\ OutSound' /\ StartedOnce' /\ Undecided' /\ Waits'
    BY <2>1 DEF TurnInv, TodoSound, OutSound, StartedOnce, Undecided, Unfired, Fresh, Unsent, Sent, Waits
  <2> QED BY <2>2, <2>3 DEF TurnInv
<1> QED BY <1>1, <1>2, <1>3, <1>4, <1>5 DEF Next

LEMMA TurnInvariance == Spec => [](TypeOK /\ TurnInv)
<1>1. Init => TypeOK /\ TurnInv
  BY TypesInit, TurnInit
<1>2. TypeOK /\ TurnInv /\ [Next]_vars => (TypeOK /\ TurnInv)'
  BY TypesStep, TurnStep
<1> QED BY <1>1, <1>2, PTL DEF Spec

(* A message is answered once at most, and not at all if it was left to    *)
(* `.px` (inbound_router.rs, model_invoker.rs, tool_executor.rs,           *)
(* response_router.rs): its turn is one token.                             *)
THEOREM TurnsAnsweredOnce == Spec => []AnsweredOnce
<1>1. TypeOK /\ TurnInv => AnsweredOnce
  <2> SUFFICES ASSUME TypeOK, TurnInv, NEW m \in Messages
               PROVE  Cardinality(Deliveries(m)) <= IF m \in silent THEN 0 ELSE 1
    BY DEF AnsweredOnce
  <2>1. DOMAIN delivered \subseteq Nat
    BY Shifts DEF TypeOK
  <2>2. \A i \in Deliveries(m) : i \in Nat /\ InDelivered(m, i) /\ m \notin silent
    BY <2>1 DEF Deliveries, InDelivered, TurnInv, OneToken
  <2>3. CASE Deliveries(m) = {}
    BY <2>3, FS_EmptySet
  <2>4. CASE Deliveries(m) # {}
    <3>1. PICK i : i \in Deliveries(m)
      BY <2>4
    <3>2. Deliveries(m) = {i} /\ m \notin silent
      BY <2>2, <3>1 DEF TurnInv, OneToken
    <3>3. Cardinality({i}) = 1
      BY FS_Singleton
    <3> QED BY <3>2, <3>3
  <2> QED BY <2>3, <2>4
<1> QED BY <1>1, TurnInvariance, PTL

(* "Subscribe BEFORE write so we don't miss" (inbound_router.rs): while    *)
(* the router waits no decision about its message has passed it by.        *)
THEOREM DecisionsReach == Spec => []DecisionNotMissed
<1>1. TypeOK /\ TurnInv => DecisionNotMissed
  BY DEF TurnInv, Waits, DecisionNotMissed
<1> QED BY <1>1, TurnInvariance, PTL
----------------------------------------------------------------------------
(* The store keeps what was said, in the order in which it was said.       *)
(*                                                                         *)
(* The channel is first in, first out, so the messages of a chat come to   *)
(* the recorder as they were sent; the order of the handlers, and the      *)
(* token, put each question and each answer after its record.              *)

(* What is in the channel, still to be emitted, delivered.                 *)
Queued == {queue[i] : i \in DOMAIN queue}
Owed == {out[i] : i \in DOMAIN out}
Given == {delivered[i] : i \in DOMAIN delivered}

Is(e, m) == e # None /\ e.type = "inbound" /\ e.turn = m
CurIs(m) == Is(cur, m)

(* Fewer than k procedures have yet to see the message m.                  *)
Past(m, k) ==
    /\ m \in Sent
    /\ Inbound(m) \notin Queued
    /\ CurIs(m) => Len(todo) < k

(* The model's last answer of a turn is in dispatch, with at most k        *)
(* procedures left, or what ends the turn is on its way or delivered.      *)
Concluded(m, k) ==
    \/ /\ cur # None /\ cur.type = "model_response" /\ cur.calls = 0 /\ cur.turn = m
       /\ Len(todo) \in 1..k
    \/ \E e \in Queued \cup Owed : e.type = "delivery_request" /\ e.turn = m
    \/ \E e \in Given : e.turn = m

(* The turn of m is ended, or will be by what is on its way, in this way.  *)
Told(m, what) ==
    \/ \E e \in Queued \cup Owed : e.type = "delivery_request" /\ e.what = what /\ e.turn = m
    \/ \E e \in Given : e.what = what /\ e.turn = m

(* The answer of m has text, and is in dispatch with the recorder done, on *)
(* its way or delivered.                                                   *)
Said(m) ==
    \/ /\ cur # None /\ cur.type = "model_response" /\ Recordable(cur) /\ cur.turn = m
       /\ Len(todo) \in 1..2
    \/ Told(m, "answer")

----------------------------------------------------------------------------
(* What each kind of step does to these.                                   *)

LEMMA InboundIs ==
    /\ \A e \in SpineEvent : e.type = "inbound" => e = Inbound(e.turn)
    /\ \A m : Inbound(m).type = "inbound" /\ Inbound(m).turn = m
<1>1. ASSUME NEW e \in SpineEvent, e.type = "inbound" PROVE e = Inbound(e.turn)
  BY <1>1 DEF SpineEvent, Inbound, ModelRequest, ModelResponse, ToolResult, DeliveryRequest
<1> QED BY <1>1 DEF Inbound

LEMMA SendEffect ==
    ASSUME TypeOK, NEW n \in Messages, Send(n)
    PROVE  /\ n \notin Sent /\ Sent' = Sent \cup {n}
           /\ Queued' = Queued \cup {Inbound(n)}
           /\ Len(queue) \in Nat /\ DOMAIN queue = 1..Len(queue)
           /\ DOMAIN queue' = 1..(Len(queue) + 1)
           /\ \A i \in DOMAIN queue : queue'[i] = queue[i]
           /\ queue'[Len(queue) + 1] = Inbound(n)
           /\ Len(sent) \in Nat /\ DOMAIN sent = 1..Len(sent)
           /\ DOMAIN sent' = 1..(Len(sent) + 1)
           /\ \A i \in DOMAIN sent : sent'[i] = sent[i]
           /\ sent'[Len(sent) + 1] = n
           /\ UNCHANGED <<cur, todo, out, delivered, silent, history, iterations, rounds>>
<1>1. /\ n \notin Sent /\ queue' = Append(queue, Inbound(n)) /\ sent' = Append(sent, n)
      /\ UNCHANGED <<cur, todo, out, delivered, silent, history, iterations, rounds>>
  BY DEF Send, routerVars
<1>2. /\ DOMAIN sent' = 1..(Len(sent) + 1) /\ DOMAIN sent = 1..Len(sent) /\ Len(sent) \in Nat
      /\ \A i \in DOMAIN sent : sent'[i] = sent[i]
      /\ sent'[Len(sent) + 1] = n
  BY <1>1, Shifts DEF TypeOK
<1>3. /\ DOMAIN queue' = 1..(Len(queue) + 1) /\ DOMAIN queue = 1..Len(queue) /\ Len(queue) \in Nat
      /\ \A i \in DOMAIN queue : queue'[i] = queue[i]
      /\ queue'[Len(queue) + 1] = Inbound(n)
  BY <1>1, Shifts DEF TypeOK
<1>4. \A i \in DOMAIN sent' : i \in DOMAIN sent \/ i = Len(sent) + 1
  BY <1>2
<1>5. \A i \in DOMAIN queue' : i \in DOMAIN queue \/ i = Len(queue) + 1
  BY <1>3
<1>6. Sent' = Sent \cup {n}
  BY <1>2, <1>4 DEF Sent
<1>7. Queued' = Queued \cup {Inbound(n)}
  BY <1>3, <1>5 DEF Queued
<1> QED BY <1>1, <1>2, <1>3, <1>6, <1>7

LEMMA ReceiveEffect ==
    ASSUME TypeOK, Receive
    PROVE  /\ cur = None /\ cur' \in SpineEvent /\ todo' = Handlers(cur'.type)
           /\ 1 \in DOMAIN queue /\ cur' = queue[1]
           /\ \A i \in DOMAIN queue : i \in Nat /\ i # 0
           /\ \A i \in DOMAIN queue' : i \in Nat /\ i # 0 /\ i + 1 \in DOMAIN queue /\ queue'[i] = queue[i + 1]
           /\ \A i \in DOMAIN queue : i # 1 => i - 1 \in DOMAIN queue'
           /\ Queued = Queued' \cup {cur'}
           /\ Given' = Given \cup (IF cur'.type = "delivery_request" THEN {cur'} ELSE {})
           /\ UNCHANGED <<out, silent, sent, history, iterations, rounds, overlapped>>
<1> DEFINE e == Head(queue)
<1>1. /\ cur = None /\ cur' = e /\ queue' = Tail(queue) /\ todo' = Handlers(e.type)
      /\ delivered' = IF e.type = "delivery_request" THEN Append(delivered, e) ELSE delivered
      /\ UNCHANGED <<out, silent, sent, history, iterations, rounds, overlapped>>
      /\ queue # <<>> /\ queue \in Seq(SpineEvent)
  BY DEF Receive, routerVars, TypeOK
<1>2. /\ e = queue[1] /\ 1 \in DOMAIN queue /\ e \in SpineEvent
      /\ \A i \in DOMAIN queue' : i \in Nat /\ i + 1 \in DOMAIN queue /\ queue'[i] = queue[i + 1]
  BY <1>1, Shifts
<1>3. /\ \A i \in DOMAIN queue' : i # 0
      /\ \A i \in DOMAIN queue : i \in Nat /\ i # 0
      /\ \A i \in DOMAIN queue : i # 1 => i - 1 \in DOMAIN queue'
  BY <1>1
<1>4. Queued = Queued' \cup {e}
  <2>1. \A i \in DOMAIN queue : i # 1 => i - 1 \in DOMAIN queue' /\ queue'[i - 1] = queue[i]
    BY <1>2, <1>3
  <2> QED BY <1>2, <2>1 DEF Queued
<1>5. Given' = Given \cup (IF e.type = "delivery_request" THEN {e} ELSE {})
  <2>1. /\ DOMAIN Append(delivered, e) = 1..(Len(delivered) + 1)
        /\ DOMAIN delivered = 1..Len(delivered) /\ Len(delivered) \in Nat
        /\ \A i \in DOMAIN delivered : Append(delivered, e)[i] = delivered[i]
        /\ Append(delivered, e)[Len(delivered) + 1] = e
    BY Shifts DEF TypeOK
  <2> HIDE DEF e
  <2>2. CASE e.type = "delivery_request"
    <3>1. \A i \in DOMAIN delivered' : i \in DOMAIN delivered \/ i = Len(delivered) + 1
      BY <1>1, <2>1, <2>2
    <3> QED BY <1>1, <2>1, <2>2, <3>1 DEF Given
  <2>3. CASE e.type # "delivery_request"
    BY <1>1, <2>3 DEF Given
  <2> QED BY <2>2, <2>3
<1> HIDE DEF e
<1> QED BY <1>1, <1>2, <1>3, <1>4, <1>5

LEMMA EmitEffect ==
    ASSUME TypeOK, TurnInv, Emit
    PROVE  /\ \E e \in SpineEvent : /\ e.type # "inbound" /\ e \in Owed
                                    /\ Owed = Owed' \cup {e} /\ Queued' = Queued \cup {e}
           /\ Len(queue) \in Nat /\ DOMAIN queue = 1..Len(queue)
           /\ DOMAIN queue' = 1..(Len(queue) + 1)
           /\ \A i \in DOMAIN queue : queue'[i] = queue[i]
           /\ queue'[Len(queue) + 1].type # "inbound"
           /\ UNCHANGED <<cur, todo, delivered, silent, sent, history, iterations, rounds, overlapped>>
<1> DEFINE e == Head(out)
<1>1. /\ queue' = Append(queue, e) /\ out' = Tail(out) /\ out # <<>> /\ out \in Seq(SpineEvent)
      /\ UNCHANGED <<cur, todo, delivered, silent, sent, history, iterations, rounds, overlapped>>
  BY DEF Emit, routerVars, ghosts, TypeOK
<1>2. /\ e = out[1] /\ 1 \in DOMAIN out /\ e \in SpineEvent
      /\ \A i \in DOMAIN out' : i \in Nat /\ i + 1 \in DOMAIN out /\ out'[i] = out[i + 1]
  BY <1>1, Shifts
<1>3. \A i \in DOMAIN out : i # 1 => i - 1 \in DOMAIN out' /\ out'[i - 1] = out[i]
  BY <1>1
<1>4. Owed = Owed' \cup {e} /\ e \in Owed
  BY <1>2, <1>3 DEF Owed
<1> HIDE DEF e
<1>5. e.type # "inbound"
  BY <1>2 DEF TurnInv, OutSound
<1>6. /\ DOMAIN queue' = 1..(Len(queue) + 1) /\ DOMAIN queue = 1..Len(queue) /\ Len(queue) \in Nat
      /\ \A i \in DOMAIN queue : queue'[i] = queue[i]
      /\ queue'[Len(queue) + 1] = e
  BY <1>1, Shifts DEF TypeOK
<1>7. Queued' = Queued \cup {e}
  <2>1. \A i \in DOMAIN queue' : i \in DOMAIN queue \/ i = Len(queue) + 1
    BY <1>6
  <2> QED BY <1>6, <2>1 DEF Queued
<1> QED BY <1>1, <1>2, <1>4, <1>5, <1>6, <1>7

(* A procedure of an event of this type, with l of them left to see it.    *)
Handled(type, l) ==
    /\ cur # None /\ cur.type = type /\ cur.turn \in Messages
    /\ Len(todo) = l /\ Len(todo') = l - 1
    /\ Owed = {}
    /\ UNCHANGED <<queue, cur, delivered, sent, overlapped>>

(* The steps that change nothing of the turns.                             *)
Aside ==
    UNCHANGED <<queue, cur, todo, out, delivered, silent, sent, history, iterations, rounds, overlapped>>

LEMMA TurnHandled ==
    ASSUME TypeOK, TurnInv, NEW p, NEW type, Turn(p, type), NEW events, Done(events),
           UNCHANGED <<delivered, sent, overlapped>>
    PROVE  /\ Handled(type, Len(todo))
           /\ Owed' = {events[i] : i \in DOMAIN events}
           /\ type = "model_response" => cur.calls \in Nat
           /\ p = "inbound_router" /\ type = "inbound" => Len(todo) = 3
           /\ p = "history_recorder" /\ type = "inbound" => Len(todo) = 2
           /\ p = "tool_executor" /\ type = "inbound" => Len(todo) = 1
           /\ p = "model_invoker" /\ type = "model_request" => Len(todo) = 1
           /\ p = "history_recorder" /\ type = "model_response" => Len(todo) = 3
           /\ p = "tool_executor" /\ type = "model_response" => Len(todo) = 2
           /\ p = "response_router" /\ type = "model_response" => Len(todo) = 1
<1>1. TodoSound
  BY DEF TurnInv
<1>2. /\ cur # None /\ cur.type = type /\ out = <<>> /\ Len(Tail(todo)) = Len(todo) - 1
      /\ cur.turn \in Messages /\ cur \in SpineEvent
  BY <1>1, NextLeft, TurnTyped
<1>3. todo' = Tail(todo) /\ out' = events /\ UNCHANGED <<queue, cur>>
  BY DEF Done
<1>4. Owed = {}
  BY <1>2, Singles DEF Owed
<1>5. Owed' = {events[i] : i \in DOMAIN events}
  BY <1>3 DEF Owed
<1>6. type = "model_response" => cur.calls \in Nat
  BY <1>2, EventsTyped, PipelineConstants
<1>7. Handled(type, Len(todo))
  BY <1>2, <1>3, <1>4 DEF Handled
<1> QED BY <1>1, <1>5, <1>6, <1>7, NextLeft

LEMMA RouteEffect ==
    ASSUME TypeOK, TurnInv, Route \/ FallBack
    PROVE  /\ Handled("inbound", 3) /\ InCur(cur.turn)
           /\ \A e \in Owed' : e.type = "model_request" /\ e.turn = cur.turn
           /\ silent' = silent \/ silent' = silent \cup {cur.turn}
           /\ UNCHANGED <<history, iterations, rounds>>
<1>1. PICK events : /\ EndRouting(events)
                    /\ events = <<>> \/ events = <<ModelRequest(cur.turn, "inbound_router")>>
  BY DEF Route, FallBack
<1>2. routing = "waiting" /\ (silent' = silent \/ silent' = silent \cup {cur.turn})
  BY DEF Route, FallBack
<1>3. Turn("inbound_router", "inbound")
  BY <1>2 DEF TypeOK
<1>4. Done(events) /\ UNCHANGED <<delivered, sent, overlapped, history, iterations, rounds>>
  BY <1>1 DEF EndRouting, ghosts
<1>5. Handled("inbound", 3) /\ Owed' = {events[i] : i \in DOMAIN events}
  <2>1. Handled("inbound", Len(todo)) /\ Len(todo) = 3 /\ Owed' = {events[i] : i \in DOMAIN events}
    BY <1>3, <1>4, TurnHandled
  <2> QED BY <2>1
<1>6. \A e \in Owed' : e.type = "model_request" /\ e.turn = cur.turn
  <2>1. CASE events = <<>>
    BY <1>5, <2>1, Singles
  <2>2. CASE events = <<ModelRequest(cur.turn, "inbound_router")>>
    BY <1>5, <2>2, Singles DEF ModelRequest
  <2> QED BY <1>1, <2>1, <2>2
<1>7. InCur(cur.turn)
  BY <1>3, RouterTurn
<1> QED BY <1>2, <1>4, <1>5, <1>6, <1>7

LEMMA RecordInboundEffect ==
    ASSUME TypeOK, TurnInv, RecordInbound
    PROVE  /\ Handled("inbound", 2) /\ Owed' = {}
           /\ Remember(<<"user", cur.turn>>)
           /\ UNCHANGED <<silent, iterations, rounds>>
<1>1. /\ Turn("history_recorder", "inbound") /\ Done(<<>>) /\ Remember(<<"user", cur.turn>>)
      /\ UNCHANGED <<delivered, sent, overlapped, silent, iterations, rounds>>
  BY DEF RecordInbound, routerVars, ghosts
<1>2. Handled("inbound", Len(todo)) /\ Len(todo) = 2 /\ Owed' = {<<>>[i] : i \in DOMAIN <<>>}
  BY <1>1, TurnHandled
<1>3. Handled("inbound", 2)
  BY <1>2
<1>4. Owed' = {}
  BY <1>2, Singles
<1> QED BY <1>1, <1>3, <1>4

LEMMA ResetEffect ==
    ASSUME TypeOK, TurnInv, ResetOnInbound
    PROVE  /\ Handled("inbound", 1) /\ Owed' = {}
           /\ iterations' = [iterations EXCEPT ![Chat[cur.turn]] = 0]
           /\ UNCHANGED <<silent, history, rounds>>
<1>1. /\ Turn("tool_executor", "inbound") /\ Done(<<>>)
      /\ iterations' = [iterations EXCEPT ![Chat[cur.turn]] = 0]
      /\ UNCHANGED <<delivered, sent, overlapped, silent, history, rounds>>
  BY DEF ResetOnInbound, routerVars, ghosts
<1>2. Handled("inbound", Len(todo)) /\ Len(todo) = 1 /\ Owed' = {<<>>[i] : i \in DOMAIN <<>>}
  BY <1>1, TurnHandled
<1>3. Handled("inbound", 1)
  BY <1>2
<1>4. Owed' = {}
  BY <1>2, Singles
<1> QED BY <1>1, <1>3, <1>4

LEMMA RecordResponseEffect ==
    ASSUME TypeOK, TurnInv, RecordResponse
    PROVE  /\ Handled("model_response", 3) /\ Owed' = {} /\ cur.calls \in Nat
           /\ IF Recordable(cur) THEN Remember(<<"assistant", cur.turn>>) ELSE UNCHANGED history
           /\ UNCHANGED <<silent, iterations, rounds>>
<1>1. /\ Turn("history_recorder", "model_response") /\ Done(<<>>)
      /\ IF Recordable(cur) THEN Remember(<<"assistant", cur.turn>>) ELSE UNCHANGED history
      /\ UNCHANGED <<delivered, sent, overlapped, silent, iterations, rounds>>
  BY DEF RecordResponse, routerVars, ghosts
<1>2. /\ Handled("model_response", Len(todo)) /\ Len(todo) = 3 /\ cur.calls \in Nat
      /\ Owed' = {<<>>[i] : i \in DOMAIN <<>>}
  BY <1>1, TurnHandled
<1>3. Handled("model_response", 3)
  BY <1>2
<1>4. Owed' = {}
  BY <1>2, Singles
<1> QED BY <1>1, <1>2, <1>3, <1>4

LEMMA InvokeEffect ==
    ASSUME TypeOK, TurnInv, Invoke
    PROVE  /\ Handled("model_request", 1)
           /\ \A e \in Owed' : /\ e.turn = cur.turn
                               /\ \/ e.type = "model_response"
                                  \/ e.type = "delivery_request" /\ e.what = "error"
           /\ UNCHANGED <<silent, history, iterations, rounds>>
<1>1. /\ Turn("model_invoker", "model_request")
      /\ UNCHANGED <<delivered, sent, overlapped, silent, history, iterations, rounds>>
  BY DEF Invoke, routerVars, ghosts
<1>2. PICK e : /\ Done(<<e>>)
               /\ \/ \E k \in Nat, t \in BOOLEAN : e = ModelResponse(cur.turn, k, t)
                  \/ e = DeliveryRequest(cur.turn, "error", "source")
  BY SMTT(30), PipelineConstants DEF Invoke
<1>3. Handled("model_request", Len(todo)) /\ Len(todo) = 1 /\ Owed' = {<<e>>[i] : i \in DOMAIN <<e>>}
  BY <1>1, <1>2, TurnHandled
<1>4. Handled("model_request", 1)
  BY <1>3
<1>5. Owed' = {e}
  BY <1>3, Singles
<1> QED BY <1>1, <1>2, <1>4, <1>5 DEF ModelResponse, DeliveryRequest

LEMMA RunToolsEffect ==
    ASSUME TypeOK, TurnInv, RunTools
    PROVE  /\ Handled("model_response", 2) /\ InCur(cur.turn)
           /\ cur.calls \in Nat
           /\ UNCHANGED <<silent, history>>
           /\ \/ /\ cur.calls = 0
                 /\ iterations' = [iterations EXCEPT ![Chat[cur.turn]] = 0]
                 /\ Owed' = {} /\ UNCHANGED rounds
              \/ /\ cur.calls > 0 /\ Exceeded(iterations[Chat[cur.turn]] + 1)
                 /\ iterations' = [iterations EXCEPT ![Chat[cur.turn]] = 0]
                 /\ Owed' = {DeliveryRequest(cur.turn, "aborted", "system")} /\ UNCHANGED rounds
              \/ /\ cur.calls > 0 /\ ~ Exceeded(iterations[Chat[cur.turn]] + 1)
                 /\ iterations' = [iterations EXCEPT ![Chat[cur.turn]] = iterations[Chat[cur.turn]] + 1]
                 /\ \A e \in Owed' : e.turn = cur.turn /\ e.type \in {"tool_result", "model_request"}
                 /\ rounds' = [rounds EXCEPT ![cur.turn] = @ + 1]
<1>1. /\ Turn("tool_executor", "model_response")
      /\ UNCHANGED <<delivered, sent, overlapped, silent, history>>
  BY DEF RunTools, routerVars
<1>2. ASSUME NEW events, Done(events)
      PROVE  /\ Handled("model_response", 2) /\ cur.calls \in Nat
             /\ Owed' = {events[i] : i \in DOMAIN events}
  <2>1. /\ Handled("model_response", Len(todo)) /\ Len(todo) = 2 /\ cur.calls \in Nat
        /\ Owed' = {events[i] : i \in DOMAIN events}
    BY <1>1, <1>2, TurnHandled
  <2> QED BY <2>1
<1>3. /\ Handled("model_response", 2) /\ cur.calls \in Nat
  BY <1>2 DEF RunTools
<1>4. InCur(cur.turn)
  BY <1>3 DEF Handled, InCur, Live
<1>5. CASE cur.calls = 0
  <2>1. /\ iterations' = [iterations EXCEPT ![Chat[cur.turn]] = 0] /\ Done(<<>>) /\ UNCHANGED rounds
    BY <1>5 DEF RunTools
  <2>2. Owed' = {}
    BY <1>2, <2>1, Singles
  <2> QED BY <1>1, <1>3, <1>4, <1>5, <2>1, <2>2
<1>6. CASE cur.calls > 0 /\ Exceeded(iterations[Chat[cur.turn]] + 1)
  <2>1. /\ iterations' = [iterations EXCEPT ![Chat[cur.turn]] = 0] /\ UNCHANGED rounds
        /\ Done(<<DeliveryRequest(cur.turn, "aborted", "system")>>)
    BY <1>3, <1>6 DEF RunTools
  <2>2. Owed' = {DeliveryRequest(cur.turn, "aborted", "system")}
    BY <1>2, <2>1, Singles
  <2> QED BY <1>1, <1>3, <1>4, <1>6, <2>1, <2>2
<1>7. CASE cur.calls > 0 /\ ~ Exceeded(iterations[Chat[cur.turn]] + 1)
  <2>1. /\ iterations' = [iterations EXCEPT ![Chat[cur.turn]] = iterations[Chat[cur.turn]] + 1]
        /\ rounds' = [rounds EXCEPT ![cur.turn] = @ + 1]
        /\ Done([i \in 1..cur.calls |-> ToolResult(cur.turn)]
                \o <<ModelRequest(cur.turn, "tool_executor")>>)
    BY <1>3, <1>7 DEF RunTools
  <2>2. \A e \in Owed' : e.turn = cur.turn /\ e.type \in {"tool_result", "model_request"}
    <3>1. PICK m \in Messages, k \in Nat : m = cur.turn /\ k = cur.calls
      BY <1>3 DEF Handled
    <3>2. PICK events : events = [i \in 1..k |-> ToolResult(m)] \o <<ModelRequest(m, "tool_executor")>>
      OBVIOUS
    <3>3. Done(events)
      BY <2>1, <3>1, <3>2
    <3>4. \A i \in DOMAIN events : events[i].turn = m /\ events[i].type \in {"tool_result", "model_request"}
      BY <3>2, RoundTypes
    <3> QED BY <1>2, <3>1, <3>3, <3>4
  <2> QED BY <1>1, <1>3, <1>4, <1>7, <2>1, <2>2
<1> QED BY <1>3, <1>5, <1>6, <1>7

LEMMA RouteResponseEffect ==
    ASSUME TypeOK, TurnInv, RouteResponse
    PROVE  /\ Handled("model_response", 1) /\ cur.calls \in Nat
           /\ \/ cur.calls = 0 /\ Owed' = {Reply(cur)}
              \/ cur.calls # 0 /\ Owed' = {}
           /\ UNCHANGED <<silent, history, iterations, rounds>>
<1>1. /\ Turn("response_router", "model_response")
      /\ UNCHANGED <<delivered, sent, overlapped, silent, history, iterations, rounds>>
  BY DEF RouteResponse, routerVars, ghosts
<1>2. ASSUME NEW events, Done(events)
      PROVE  /\ Handled("model_response", 1) /\ cur.calls \in Nat
             /\ Owed' = {events[i] : i \in DOMAIN events}
  <2>1. /\ Handled("model_response", Len(todo)) /\ Len(todo) = 1 /\ cur.calls \in Nat
        /\ Owed' = {events[i] : i \in DOMAIN events}
    BY <1>1, <1>2, TurnHandled
  <2> QED BY <2>1
<1>3. CASE cur.calls = 0
  <2>1. Done(<<Reply(cur)>>)
    BY <1>3 DEF RouteResponse, Deliverable, Reply
  <2>2. Owed' = {Reply(cur)}
    BY <1>2, <2>1, Singles
  <2> QED BY <1>1, <1>2, <1>3, <2>1, <2>2
<1>4. CASE cur.calls # 0
  <2>1. Done(<<>>)
    BY <1>4 DEF RouteResponse, Deliverable
  <2>2. Owed' = {}
    BY <1>2, <2>1, Singles
  <2> QED BY <1>1, <1>2, <1>4, <2>1, <2>2
<1> QED BY <1>3, <1>4

(* Every step is one of these.                                             *)
LEMMA StepIs ==
    ASSUME [Next]_vars
    PROVE  \/ \E n \in Messages : Send(n)
           \/ Receive \/ Emit \/ Finish \/ Aside \/ (Route \/ FallBack)
           \/ RecordInbound \/ ResetOnInbound
           \/ RecordResponse \/ Invoke \/ RunTools \/ RouteResponse
<1>1. SubscribeThenFire => Aside
  BY DEF SubscribeThenFire, Aside, loopVars, ghosts
<1>2. ASSUME NEW x \in spawned, Execute(x) PROVE Aside
  BY <1>2 DEF Execute, Aside, loopVars, ghosts
<1>3. UNCHANGED vars => Aside
  BY DEF vars, Aside, loopVars, routerVars, ghosts
<1> QED BY <1>1, <1>2, <1>3 DEF Next, Loop

(* The token again, for the contents of the places.                        *)
LEMMA Apart ==
    ASSUME TypeOK, TurnInv, NEW m \in Messages
    PROVE  /\ InCur(m) => /\ m \in Sent /\ m \notin silent
                          /\ \A e \in Queued \cup Owed : ~ Carries(e, m)
                          /\ \A e \in Given : e.turn # m
           /\ \A e \in Queued \cup Owed : Carries(e, m) =>
                /\ m \in Sent /\ m \notin silent
                /\ \A d \in Queued \cup Owed : Carries(d, m) => d = e
                /\ \A d \in Given : d.turn # m
           /\ \A e \in Given : e.turn = m =>
                /\ m \in Sent /\ m \notin silent
                /\ \A d \in Given : d.turn = m => d = e
<1>1. DOMAIN queue \subseteq Nat /\ DOMAIN out \subseteq Nat /\ DOMAIN delivered \subseteq Nat
  BY Shifts DEF TypeOK
<1>2. /\ \A e \in Queued : Carries(e, m) => \E i \in Nat : InQueue(m, i) /\ e = queue[i]
      /\ \A e \in Owed : Carries(e, m) => \E i \in Nat : InOut(m, i) /\ e = out[i]
      /\ \A e \in Given : e.turn = m => \E i \in Nat : InDelivered(m, i) /\ e = delivered[i]
  BY <1>1 DEF Queued, Owed, Given, InQueue, InOut, InDelivered
<1>3. OneToken
  BY DEF TurnInv
<1>4. InCur(m) => /\ m \in Sent /\ m \notin silent
                  /\ \A e \in Queued \cup Owed : ~ Carries(e, m)
                  /\ \A e \in Given : e.turn # m
  BY <1>2, <1>3 DEF OneToken, Unsent
<1>5. ASSUME NEW e \in Queued \cup Owed, Carries(e, m)
      PROVE  /\ m \in Sent /\ m \notin silent
             /\ \A d \in Queued \cup Owed : Carries(d, m) => d = e
             /\ \A d \in Given : d.turn # m
  BY <1>2, <1>3, <1>5 DEF OneToken, Unsent
<1>6. ASSUME NEW e \in Given, e.turn = m
      PROVE  m \in Sent /\ m \notin silent /\ \A d \in Given : d.turn = m => d = e
  BY <1>6, <1>2, <1>3 DEF OneToken, Unsent
<1> QED BY <1>4, <1>5, <1>6

(* A message gets past a procedure when that has handled it.               *)
LEMMA PastStep ==
    ASSUME TypeOK, TurnInv, [Next]_vars, NEW m \in Messages, NEW k \in 1..2
    PROVE  Past(m, k)' <=> Past(m, k) \/ (CurIs(m) /\ Handled("inbound", k))
<1>1. Len(todo) \in Nat
  BY DEF TypeOK
<1>2. ASSUME NEW n \in Messages, Send(n)
      PROVE  Past(m, k)' <=> Past(m, k) \/ (CurIs(m) /\ Handled("inbound", k))
  <2>1. /\ n \notin Sent /\ Sent' = Sent \cup {n} /\ Queued' = Queued \cup {Inbound(n)}
        /\ UNCHANGED <<cur, todo>>
    BY <1>2, SendEffect
  <2>2. ~ Handled("inbound", k)
    BY <1>1, <2>1 DEF Handled
  <2>3. Inbound(n) = Inbound(m) => n = m
    BY InboundIs
  <2> QED BY <2>1, <2>2, <2>3 DEF Past, CurIs, Is
<1>3. CASE Receive
  <2>1. /\ cur = None /\ cur' \in SpineEvent /\ todo' = Handlers(cur'.type)
        /\ Queued = Queued' \cup {cur'} /\ UNCHANGED sent
    BY <1>3, ReceiveEffect
  <2>2. Sent' = Sent
    BY <2>1 DEF Sent
  <2>3. ~ Handled("inbound", k)
    BY <2>1 DEF Handled
  <2>4. CASE cur' = Inbound(m)
    <3>1. Len(todo') = 3
      BY <2>1, <2>4, InboundIs, Lists DEF Handlers
    <3>2. CurIs(m)'
      BY <2>1, <2>4, InboundIs, NoneIsNoEvent DEF CurIs, Is
    <3>3. ~ Past(m, k)'
      BY <3>1, <3>2 DEF Past
    <3> QED BY <2>1, <2>3, <2>4, <3>3 DEF Past
  <2>5. CASE cur' # Inbound(m)
    <3>1. ~ CurIs(m)' /\ ~ CurIs(m)
      BY <2>1, <2>5, InboundIs DEF CurIs, Is
    <3>2. Inbound(m) \in Queued <=> Inbound(m) \in Queued'
      BY <2>1, <2>5
    <3> QED BY <2>2, <2>3, <3>1, <3>2 DEF Past, Inbound
  <2> QED BY <2>4, <2>5
<1>4. CASE Emit
  <2>1. PICK e : e.type # "inbound" /\ Queued' = Queued \cup {e}
    BY <1>4, EmitEffect
  <2>2. UNCHANGED <<cur, todo, sent>>
    BY <1>4, EmitEffect
  <2>3. ~ Handled("inbound", k)
    BY <1>1, <2>2 DEF Handled
  <2>4. Inbound(m) # e
    BY <2>1, InboundIs
  <2> QED BY <2>1, <2>2, <2>3, <2>4 DEF Past, CurIs, Is, Sent
<1>5. CASE Finish
  <2>1. cur # None /\ cur' = None /\ todo = <<>> /\ UNCHANGED <<queue, sent>>
    BY <1>5 DEF Finish, ghosts
  <2>2. ~ Handled("inbound", k)
    BY <2>1 DEF Handled
  <2>3. ~ CurIs(m)' /\ Len(todo) < k
    BY <2>1 DEF CurIs, Is
  <2> QED BY <2>1, <2>2, <2>3 DEF Past, Sent, Queued
<1>6. CASE Aside
  <2>1. UNCHANGED <<queue, cur, todo, sent>>
    BY <1>6 DEF Aside
  <2>2. ~ Handled("inbound", k)
    BY <1>1, <2>1 DEF Handled
  <2> QED BY <2>1, <2>2 DEF Past, Sent, Queued, CurIs, Is
<1>7. ASSUME NEW type, NEW l, Handled(type, l)
      PROVE  Past(m, k)' <=> Past(m, k) \/ (CurIs(m) /\ Handled("inbound", k))
  <2>1. UNCHANGED <<queue, cur, sent>> /\ cur.type = type /\ cur # None /\ Len(todo) = l /\ Len(todo') = l - 1
    BY <1>7 DEF Handled
  <2>2. /\ Sent' = Sent /\ Queued' = Queued /\ (CurIs(m)' <=> CurIs(m))
    BY <2>1 DEF Sent, Queued, CurIs, Is
  <2>3. CASE ~ CurIs(m)
    BY <2>2, <2>3 DEF Past, Inbound
  <2>4. CASE CurIs(m)
    <3>1. m \in Sent /\ Inbound(m) \notin Queued
      BY <2>4, InboundIs DEF TurnInv, StartedOnce, Fresh, Unsent, Queued, CurIs, Is
    <3>2. Past(m, k) <=> l < k
      BY <2>1, <2>4, <3>1 DEF Past
    <3>3. Past(m, k)' <=> l - 1 < k
      BY <2>1, <2>2, <2>4, <3>1 DEF Past, Inbound
    <3>4. Handled("inbound", k) <=> l = k
      BY <1>7, <2>1, <2>4 DEF Handled, CurIs, Is
    <3>5. l - 1 < k <=> l < k \/ l = k
      BY <1>1, <2>1
    <3> QED BY <2>4, <3>2, <3>3, <3>4, <3>5
  <2> QED BY <2>3, <2>4
<1> QED BY <1>2, <1>3, <1>4, <1>5, <1>6, <1>7, StepIs, RouteEffect, RecordInboundEffect, ResetEffect,
           RecordResponseEffect, InvokeEffect, RunToolsEffect, RouteResponseEffect

(* What has concluded a turn is not taken back.                            *)
LEMMA ConcludedStays ==
    ASSUME TypeOK, TurnInv, [Next]_vars, NEW m \in Messages, NEW k \in 1..2, Concluded(m, k)
    PROVE  Concluded(m, k)'
<1>1. ASSUME Queued \subseteq Queued', Owed = Owed', Given = Given', UNCHANGED <<cur, todo>>
      PROVE  Concluded(m, k)'
  BY <1>1 DEF Concluded
<1>2. CASE \E n \in Messages : Send(n)
  BY <1>1, <1>2, SendEffect DEF Owed, Given
<1>3. CASE Receive
  BY <1>3, ReceiveEffect DEF Concluded, Owed
<1>4. CASE Emit
  BY <1>4, EmitEffect DEF Concluded, Given
<1>5. CASE Finish
  <2>1. Len(todo) = 0 /\ UNCHANGED <<queue, out, delivered>>
    BY <1>5 DEF Finish, ghosts
  <2> QED BY <2>1 DEF Concluded, Queued, Owed, Given
<1>6. CASE Aside
  BY <1>1, <1>6 DEF Aside, Queued, Owed, Given
<1>7. ASSUME NEW type, NEW l \in Nat, Handled(type, l),
             type # "model_response" \/ l > k \/ l = 2
      PROVE  Concluded(m, k)'
  <2>1. /\ UNCHANGED <<queue, cur, delivered>> /\ Owed = {} /\ cur.type = type
        /\ Len(todo) = l /\ Len(todo') = l - 1
    BY <1>7 DEF Handled
  <2>2. Queued' = Queued /\ Given' = Given
    BY <2>1 DEF Queued, Given
  <2>3. CASE type = "model_response" /\ cur.calls = 0 /\ cur.turn = m /\ Len(todo) \in 1..k
    <3>1. Len(todo') \in 1..k
      BY <1>7, <2>1, <2>3
    <3>2. cur' # None /\ cur'.type = "model_response" /\ cur'.calls = 0 /\ cur'.turn = m
      BY <1>7, <2>1, <2>3 DEF Handled
    <3> QED BY <3>1, <3>2 DEF Concluded
  <2> QED BY <2>1, <2>2, <2>3 DEF Concluded
<1>8. CASE RouteResponse
  <2>1. /\ Handled("model_response", 1)
        /\ \/ cur.calls = 0 /\ Owed' = {Reply(cur)}
           \/ cur.calls # 0 /\ Owed' = {}
    BY <1>8, RouteResponseEffect
  <2>2. /\ UNCHANGED <<queue, delivered>> /\ Owed = {}
    BY <2>1 DEF Handled
  <2>3. Queued' = Queued /\ Given' = Given
    BY <2>2 DEF Queued, Given
  <2>4. CASE cur.calls = 0 /\ cur.turn = m
    BY <2>1, <2>4, ReplyIs DEF Concluded
  <2> QED BY <2>2, <2>3, <2>4 DEF Concluded
<1>9. CASE (Route \/ FallBack) \/ RecordInbound \/ ResetOnInbound \/ Invoke
  BY <1>7, <1>9, RouteEffect, RecordInboundEffect, ResetEffect, InvokeEffect
<1>10. CASE RecordResponse \/ RunTools
  <2>1. Handled("model_response", 3) \/ Handled("model_response", 2)
    BY <1>10, RecordResponseEffect, RunToolsEffect
  <2> QED BY <1>7, <2>1
<1> QED BY <1>2, <1>3, <1>4, <1>5, <1>6, <1>8, <1>9, <1>10, StepIs

(* An answer with text stays on its way, as such.                          *)
LEMMA SaidStays ==
    ASSUME TypeOK, TurnInv, [Next]_vars, NEW m \in Messages, Said(m)
    PROVE  Said(m)'
<1>1. ASSUME Queued \subseteq Queued', Owed = Owed', Given = Given', UNCHANGED <<cur, todo>>
      PROVE  Said(m)'
  BY <1>1 DEF Said, Told
<1>2. CASE \E n \in Messages : Send(n)
  BY <1>1, <1>2, SendEffect DEF Owed, Given
<1>3. CASE Receive
  BY <1>3, ReceiveEffect DEF Said, Told, Owed
<1>4. CASE Emit
  BY <1>4, EmitEffect DEF Said, Told, Given
<1>5. CASE Finish
  <2>1. Len(todo) = 0 /\ UNCHANGED <<queue, out, delivered>>
    BY <1>5 DEF Finish, ghosts
  <2> QED BY <2>1 DEF Said, Told, Queued, Owed, Given
<1>6. CASE Aside
  BY <1>1, <1>6 DEF Aside, Queued, Owed, Given
<1>7. ASSUME NEW type, NEW l \in Nat, Handled(type, l),
             type # "model_response" \/ l > 2 \/ l = 2
      PROVE  Said(m)'
  <2>1. /\ UNCHANGED <<queue, cur, delivered>> /\ Owed = {} /\ cur.type = type
        /\ Len(todo) = l /\ Len(todo') = l - 1
    BY <1>7 DEF Handled
  <2>2. Queued' = Queued /\ Given' = Given
    BY <2>1 DEF Queued, Given
  <2>3. CASE type = "model_response" /\ Recordable(cur) /\ cur.turn = m /\ Len(todo) \in 1..2
    <3>1. Len(todo') \in 1..2
      BY <1>7, <2>1, <2>3
    <3>2. cur' # None /\ cur'.type = "model_response" /\ Recordable(cur') /\ cur'.turn = m
      BY <1>7, <2>1, <2>3 DEF Handled
    <3> QED BY <3>1, <3>2 DEF Said, Told
  <2> QED BY <2>1, <2>2, <2>3 DEF Said, Told
<1>8. CASE RouteResponse
  <2>1. /\ Handled("model_response", 1)
        /\ \/ cur.calls = 0 /\ Owed' = {Reply(cur)}
           \/ cur.calls # 0 /\ Owed' = {}
    BY <1>8, RouteResponseEffect
  <2>2. /\ UNCHANGED <<queue, delivered>> /\ Owed = {}
    BY <2>1 DEF Handled
  <2>3. Queued' = Queued /\ Given' = Given
    BY <2>2 DEF Queued, Given
  <2>4. CASE Recordable(cur) /\ cur.turn = m
    BY <2>1, <2>4, ReplyIs DEF Said, Told
  <2> QED BY <2>2, <2>3, <2>4 DEF Said, Told
<1>9. CASE (Route \/ FallBack) \/ RecordInbound \/ ResetOnInbound \/ Invoke
  BY <1>7, <1>9, RouteEffect, RecordInboundEffect, ResetEffect, InvokeEffect
<1>10. CASE RecordResponse \/ RunTools
  <2>1. Handled("model_response", 3) \/ Handled("model_response", 2)
    BY <1>10, RecordResponseEffect, RunToolsEffect
  <2> QED BY <1>7, <2>1
<1> QED BY <1>2, <1>3, <1>4, <1>5, <1>6, <1>8, <1>9, <1>10, StepIs

(* Only the response router answers, only the tool executor aborts.        *)
LEMMA ToldStep ==
    ASSUME TypeOK, TurnInv, [Next]_vars, NEW m \in Messages
    PROVE  /\ Told(m, "answer")' => Told(m, "answer") \/ (cur.turn = m /\ Recordable(cur) /\ Handled("model_response", 1))
           /\ Told(m, "aborted")' => \/ Told(m, "aborted")
                                     \/ /\ RunTools /\ cur.turn = m
                                        /\ cur.calls > 0 /\ Exceeded(iterations[Chat[m]] + 1)
<1>1. ASSUME NEW what, Queued' \cup Owed' \subseteq Queued \cup Owed, Given' = Given
      PROVE  Told(m, what)' => Told(m, what)
  BY <1>1 DEF Told
<1>2. CASE \E n \in Messages : Send(n)
  <2>1. PICK n \in Messages : Queued' = Queued \cup {Inbound(n)} /\ UNCHANGED <<out, delivered>>
    BY <1>2, SendEffect
  <2> QED BY <2>1, InboundIs DEF Told, Owed, Given
<1>3. CASE Receive
  BY <1>3, ReceiveEffect DEF Told, Owed
<1>4. CASE Emit
  BY <1>1, <1>4, EmitEffect DEF Given
<1>5. CASE Finish \/ Aside
  BY <1>1, <1>5 DEF Finish, Aside, ghosts, Queued, Owed, Given
<1>6. ASSUME NEW type, NEW l, Handled(type, l), NEW what, Told(m, what)', ~ Told(m, what)
      PROVE  \E e \in Owed' : e.type = "delivery_request" /\ e.what = what /\ e.turn = m
  BY <1>6 DEF Handled, Told, Queued, Given
<1>7. CASE (Route \/ FallBack) \/ RecordInbound \/ ResetOnInbound \/ RecordResponse
  BY <1>6, <1>7, RouteEffect, RecordInboundEffect, ResetEffect, RecordResponseEffect
<1>8. CASE Invoke
  BY <1>6, <1>8, InvokeEffect
<1>9. CASE RouteResponse
  BY <1>6, <1>9, ReplyIs, RouteResponseEffect
<1>10. CASE RunTools
  <2>1. DeliveryRequest(cur.turn, "aborted", "system").what = "aborted"
        /\ DeliveryRequest(cur.turn, "aborted", "system").turn = cur.turn
    BY DEF DeliveryRequest
  <2>2. Handled("model_response", 2)
    BY <1>10, RunToolsEffect
  <2>3. CASE Owed' = {}
    BY <1>6, <2>2, <2>3
  <2>4. CASE /\ cur.calls > 0 /\ Exceeded(iterations[Chat[cur.turn]] + 1)
             /\ Owed' = {DeliveryRequest(cur.turn, "aborted", "system")}
    BY <1>6, <1>10, <2>1, <2>2, <2>4
  <2>5. CASE \A e \in Owed' : e.type \in {"tool_result", "model_request"}
    BY <1>6, <2>2, <2>5
  <2> QED BY <1>10, <2>3, <2>4, <2>5, RunToolsEffect
<1> QED BY <1>2, <1>3, <1>4, <1>5, <1>7, <1>8, <1>9, <1>10, StepIs

----------------------------------------------------------------------------
(* The order of arrival.                                                   *)

At(q, m, i) == i \in DOMAIN q /\ q[i].type = "inbound" /\ q[i].turn = m

SentOnce == \A a, b \in DOMAIN sent : sent[a] = sent[b] => a = b

(* What was sent after a message that waits in the channel waits behind it.*)
QueueOrder ==
    \A a, b \in DOMAIN sent : a < b =>
        \A i \in DOMAIN queue : At(queue, sent[a], i) => \E j \in DOMAIN queue : i < j /\ At(queue, sent[b], j)

(* What was sent after the message in dispatch waits in the channel.       *)
CurOrder ==
    \A a, b \in DOMAIN sent : a < b /\ Is(cur, sent[a]) => \E j \in DOMAIN queue : At(queue, sent[b], j)

ArrivalInv == SentOnce /\ QueueOrder /\ CurOrder

LEMMA ArrivalStep ==
    ASSUME TypeOK, TurnInv, ArrivalInv, [Next]_vars
    PROVE  ArrivalInv'
<1>sent. DOMAIN sent = 1..Len(sent) /\ Len(sent) \in Nat /\ \A a \in DOMAIN sent : sent[a] \in Messages
  BY DEF TypeOK
<1>1. ASSUME NEW n \in Messages, Send(n) PROVE ArrivalInv'
  <2>1. /\ n \notin Sent
        /\ Len(queue) \in Nat /\ DOMAIN queue = 1..Len(queue)
        /\ DOMAIN queue' = 1..(Len(queue) + 1)
        /\ \A i \in DOMAIN queue : queue'[i] = queue[i]
        /\ queue'[Len(queue) + 1] = Inbound(n)
        /\ Len(sent) \in Nat /\ DOMAIN sent = 1..Len(sent)
        /\ DOMAIN sent' = 1..(Len(sent) + 1)
        /\ \A i \in DOMAIN sent : sent'[i] = sent[i]
        /\ sent'[Len(sent) + 1] = n
        /\ cur' = cur
    BY <1>1, SendEffect
  <2>2. /\ \A a \in DOMAIN sent' : (a \in DOMAIN sent /\ sent'[a] = sent[a]) \/ (a = Len(sent) + 1 /\ sent'[a] = n)
        /\ \A i \in DOMAIN queue' : i \in DOMAIN queue \/ i = Len(queue) + 1
        /\ \A a \in DOMAIN sent : sent[a] # n
    BY <2>1 DEF Sent
  <2>3. SentOnce'
    BY <2>2 DEF ArrivalInv, SentOnce
  <2>4. /\ At(queue', n, Len(queue) + 1)
        /\ \A m, i : At(queue, m, i) => At(queue', m, i)
        /\ \A m, i : At(queue', m, i) => At(queue, m, i) \/ (m = n /\ i = Len(queue) + 1)
    BY <2>1, <2>2, InboundIs DEF At
  <2>5. \A a, b \in DOMAIN sent' : a < b =>
          /\ a \in DOMAIN sent /\ sent'[a] = sent[a] /\ sent[a] # n
          /\ (b \in DOMAIN sent /\ sent'[b] = sent[b]) \/ sent'[b] = n
    BY <2>1, <2>2
  <2>6. QueueOrder'
    <3> SUFFICES ASSUME NEW a \in DOMAIN sent', NEW b \in DOMAIN sent', a < b,
                        NEW i \in DOMAIN queue', At(queue', sent'[a], i)
                 PROVE  \E j \in DOMAIN queue' : i < j /\ At(queue', sent'[b], j)
      BY DEF QueueOrder
    <3>1. At(queue, sent[a], i) /\ i \in DOMAIN queue /\ a \in DOMAIN sent
      BY <2>4, <2>5 DEF At
    <3>2. CASE b \in DOMAIN sent /\ sent'[b] = sent[b]
      <4>1. PICK j \in DOMAIN queue : i < j /\ At(queue, sent[b], j)
        BY <3>1, <3>2 DEF ArrivalInv, QueueOrder
      <4> QED BY <2>4, <3>2, <4>1 DEF At
    <3>3. CASE sent'[b] = n
      <4>1. i < Len(queue) + 1 /\ Len(queue) + 1 \in DOMAIN queue'
        BY <2>1, <3>1
      <4> QED BY <2>4, <3>3, <4>1
    <3> QED BY <2>5, <3>2, <3>3
  <2>7. CurOrder'
    <3> SUFFICES ASSUME NEW a \in DOMAIN sent', NEW b \in DOMAIN sent', a < b, Is(cur', sent'[a])
                 PROVE  \E j \in DOMAIN queue' : At(queue', sent'[b], j)
      BY DEF CurOrder
    <3>1. Is(cur, sent[a]) /\ a \in DOMAIN sent
      BY <2>1, <2>5 DEF Is
    <3> QED BY <2>4, <2>5, <3>1 DEF ArrivalInv, CurOrder, At
  <2> QED BY <2>3, <2>6, <2>7 DEF ArrivalInv
<1>2. CASE Receive
  <2>1. /\ cur = None /\ 1 \in DOMAIN queue /\ cur' = queue[1]
        /\ \A i \in DOMAIN queue : i \in Nat /\ i # 0
        /\ \A i \in DOMAIN queue' : i \in Nat /\ i # 0 /\ i + 1 \in DOMAIN queue /\ queue'[i] = queue[i + 1]
        /\ \A i \in DOMAIN queue : i # 1 => i - 1 \in DOMAIN queue'
        /\ UNCHANGED sent
    BY <1>2, ReceiveEffect
  <2>2. \A m, i : At(queue', m, i) => i \in Nat /\ i # 0 /\ At(queue, m, i + 1)
    BY <2>1 DEF At
  <2>3. \A m, i : At(queue, m, i) /\ i # 1 => At(queue', m, i - 1)
    <3> SUFFICES ASSUME NEW m, NEW i, At(queue, m, i), i # 1 PROVE At(queue', m, i - 1)
      OBVIOUS
    <3>1. i \in Nat /\ i - 1 \in DOMAIN queue' /\ (i - 1) + 1 = i
      BY <2>1 DEF At
    <3> QED BY <2>1, <3>1 DEF At
  <2>4. QueueOrder'
    <3> SUFFICES ASSUME NEW a \in DOMAIN sent, NEW b \in DOMAIN sent, a < b,
                        NEW i \in DOMAIN queue', At(queue', sent[a], i)
                 PROVE  \E j \in DOMAIN queue' : i < j /\ At(queue', sent[b], j)
      BY <2>1 DEF QueueOrder
    <3>1. i \in Nat /\ i # 0 /\ At(queue, sent[a], i + 1) /\ i + 1 \in DOMAIN queue
      BY <2>2 DEF At
    <3>2. PICK j \in DOMAIN queue : i + 1 < j /\ At(queue, sent[b], j)
      BY <3>1 DEF ArrivalInv, QueueOrder
    <3>3. j \in Nat /\ j # 1 /\ i < j - 1
      BY <2>1, <3>1, <3>2
    <3> QED BY <2>3, <3>2, <3>3 DEF At
  <2>5. CurOrder'
    <3> SUFFICES ASSUME NEW a \in DOMAIN sent, NEW b \in DOMAIN sent, a < b, Is(cur', sent[a])
                 PROVE  \E j \in DOMAIN queue' : At(queue', sent[b], j)
      BY <2>1 DEF CurOrder
    <3>1. At(queue, sent[a], 1)
      BY <2>1 DEF Is, At
    <3>2. PICK j \in DOMAIN queue : 1 < j /\ At(queue, sent[b], j)
      BY <2>1, <3>1 DEF ArrivalInv, QueueOrder
    <3> QED BY <2>3, <3>2 DEF At
  <2>6. SentOnce'
    BY <2>1 DEF ArrivalInv, SentOnce
  <2> QED BY <2>4, <2>5, <2>6 DEF ArrivalInv
<1>3. CASE Emit
  <2>1. /\ Len(queue) \in Nat /\ DOMAIN queue = 1..Len(queue)
        /\ DOMAIN queue' = 1..(Len(queue) + 1)
        /\ \A i \in DOMAIN queue : queue'[i] = queue[i]
        /\ queue'[Len(queue) + 1].type # "inbound"
        /\ UNCHANGED <<cur, sent>>
    BY <1>3, EmitEffect
  <2>2. \A i \in DOMAIN queue' : i \in DOMAIN queue \/ i = Len(queue) + 1
    BY <2>1
  <2>3. \A m, i : At(queue', m, i) <=> At(queue, m, i)
    BY <2>1, <2>2 DEF At
  <2>4. \A i \in DOMAIN queue : i \in DOMAIN queue'
    BY <2>1
  <2> QED BY <2>1, <2>3, <2>4 DEF ArrivalInv, SentOnce, QueueOrder, CurOrder, Is, At
<1>4. ASSUME UNCHANGED <<queue, sent>>, cur' = cur \/ cur' = None PROVE ArrivalInv'
  BY <1>4 DEF ArrivalInv, SentOnce, QueueOrder, CurOrder, Is, At
<1>5. CASE Finish \/ Aside
  BY <1>4, <1>5 DEF Finish, Aside, ghosts
<1>6. ASSUME NEW type, NEW l, Handled(type, l) PROVE ArrivalInv'
  BY <1>4, <1>6 DEF Handled
<1> QED BY <1>1, <1>2, <1>3, <1>5, <1>6, StepIs, RouteEffect, RecordInboundEffect, ResetEffect,
           RecordResponseEffect, InvokeEffect, RunToolsEffect, RouteResponseEffect

(* Whoever was sent before a message that is in dispatch is past all       *)
(* procedures.                                                             *)
LEMMA EarlierPast ==
    ASSUME TypeOK, TurnInv, ArrivalInv, NEW a \in DOMAIN sent, NEW b \in DOMAIN sent, a < b,
           Inbound(sent[b]) \notin Queued
    PROVE  \A k \in 1..2 : Past(sent[a], k)
<1>1. ASSUME NEW m, NEW j \in DOMAIN queue, At(queue, m, j) PROVE Inbound(m) \in Queued
  <2>1. queue[j] \in SpineEvent
    BY DEF TypeOK
  <2> QED BY <1>1, <2>1, InboundIs DEF At, Queued
<1>2. \A m : Inbound(m) \in Queued => \E i \in DOMAIN queue : At(queue, m, i)
  BY InboundIs DEF At, Queued
<1>3. ~ Is(cur, sent[a])
  BY <1>1 DEF ArrivalInv, CurOrder
<1>4. Inbound(sent[a]) \notin Queued
  BY <1>1, <1>2 DEF ArrivalInv, QueueOrder
<1>5. sent[a] \in Sent
  BY DEF Sent
<1> QED BY <1>3, <1>4, <1>5 DEF Past, CurIs

----------------------------------------------------------------------------
(* The store.                                                              *)

(* The only steps that write the store.                                    *)
LEMMA HistoryStep ==
    ASSUME TypeOK, TurnInv, [Next]_vars
    PROVE  \/ Handled("inbound", 2) /\ Remember(<<"user", cur.turn>>)
           \/ Handled("model_response", 3) /\ Recordable(cur) /\ Remember(<<"assistant", cur.turn>>)
           \/ /\ UNCHANGED history
              /\ ~ Handled("inbound", 2)
              /\ Handled("model_response", 3) => ~ Recordable(cur)
<1>1. Len(todo) \in Nat
  BY DEF TypeOK
<1>2. ASSUME todo' = todo \/ cur = None \/ cur' = None, NEW type, NEW l PROVE ~ Handled(type, l)
  BY <1>1, <1>2 DEF Handled
<1>3. CASE (\E n \in Messages : Send(n)) \/ Receive \/ Emit \/ Finish \/ Aside
  <2>1. UNCHANGED history /\ (todo' = todo \/ cur = None \/ cur' = None)
    BY <1>3, SendEffect, ReceiveEffect, EmitEffect DEF Finish, Aside
  <2> QED BY <1>2, <2>1
<1>4. ASSUME NEW type, NEW l, Handled(type, l), UNCHANGED history,
             type = "inbound" => l # 2,
             type = "model_response" => l # 3 \/ ~ Recordable(cur)
      PROVE  /\ UNCHANGED history
             /\ ~ Handled("inbound", 2)
             /\ Handled("model_response", 3) => ~ Recordable(cur)
  BY <1>4 DEF Handled
<1>5. CASE (Route \/ FallBack) \/ ResetOnInbound \/ Invoke \/ RunTools \/ RouteResponse
  BY <1>4, <1>5, RouteEffect, ResetEffect, InvokeEffect, RunToolsEffect, RouteResponseEffect
<1>6. CASE RecordInbound \/ RecordResponse
  BY <1>4, <1>6, RecordInboundEffect, RecordResponseEffect
<1> QED BY <1>3, <1>5, <1>6, StepIs

LEMMA SentStep ==
    ASSUME TypeOK, TurnInv, [Next]_vars
    PROVE  (\E n \in Messages : Send(n)) \/ UNCHANGED <<sent, overlapped>>
BY StepIs, ReceiveEffect, EmitEffect, RouteEffect, RecordInboundEffect, ResetEffect,
   RecordResponseEffect, InvokeEffect, RunToolsEffect, RouteResponseEffect
   DEF Finish, Aside, Handled, ghosts

LEMMA SentGrows == ASSUME TypeOK, TurnInv, [Next]_vars PROVE Sent \subseteq Sent'
<1>1. CASE \E n \in Messages : Send(n)
  BY <1>1, SendEffect
<1>2. CASE UNCHANGED sent
  BY <1>2 DEF Sent
<1> QED BY <1>1, <1>2, SentStep

LEMMA RememberStep ==
    ASSUME TypeOK, NEW k \in Messages, cur.turn = k, NEW who \in {"user", "assistant"},
           NEW e, e = <<who, k>>, Remember(e), NEW c, c = Chat[k]
    PROVE  \E l :
           /\ c \in Chats /\ l \in Nat /\ DOMAIN history[c] = 1..(l - 1)
           /\ DOMAIN history'[c] = 1..l /\ history'[c][l] = e
           /\ \A i \in 1..(l - 1) : i \in 1..l /\ i < l /\ history'[c][i] = history[c][i]
           /\ \A i \in 1..l : i \in 1..(l - 1) \/ i = l
           /\ l \in 1..l
           /\ \A d \in Chats : d # c => history'[d] = history[d]
<1>0. PICK l : l = Len(history[c]) + 1
  OBVIOUS
<1>1. c \in Chats /\ history \in [Chats -> Seq(Entries)] /\ history[c] \in Seq(Entries)
  BY PipelineConstants DEF TypeOK
<1>2. history' = [history EXCEPT ![c] = Append(history[c], e)]
  BY DEF Remember
<1>3. /\ history'[c] = Append(history[c], e)
      /\ \A d \in Chats : d # c => history'[d] = history[d]
  BY <1>1, <1>2
<1>4. /\ l \in Nat /\ DOMAIN history[c] = 1..(l - 1)
      /\ DOMAIN history'[c] = 1..l /\ history'[c][l] = e
      /\ \A i \in DOMAIN history[c] : history'[c][i] = history[c][i]
  <2>1. /\ DOMAIN history'[c] = 1..(Len(history[c]) + 1)
        /\ \A i \in DOMAIN history[c] : history'[c][i] = history[c][i]
        /\ history'[c][Len(history[c]) + 1] = e
        /\ DOMAIN history[c] = 1..Len(history[c]) /\ Len(history[c]) \in Nat
    BY <1>1, <1>3, Shifts
  <2> QED BY <1>0, <2>1
<1>5. /\ \A i \in 1..(l - 1) : i \in 1..l /\ i < l
      /\ \A i \in 1..l : i \in 1..(l - 1) \/ i = l
      /\ l \in 1..l \/ l = 0
  BY <1>4
<1>6. l # 0
  BY <1>0, <1>1
<1>7. l \in 1..l
  BY <1>5, <1>6
<1> QED BY <1>1, <1>3, <1>4, <1>5, <1>7

LEMMA RecordedAfter ==
    ASSUME TypeOK, NEW k \in Messages, cur.turn = k, NEW who \in {"user", "assistant"},
           Remember(<<who, k>>), NEW w, NEW m \in Messages
    PROVE  Recorded(w, m)' <=> Recorded(w, m) \/ (w = who /\ m = k)
<1>1. PICK c, e : c = Chat[k] /\ e = <<who, k>> /\ Remember(e)
  OBVIOUS
<1>2. PICK l :
      /\ c \in Chats /\ l \in Nat /\ DOMAIN history[c] = 1..(l - 1)
      /\ DOMAIN history'[c] = 1..l /\ history'[c][l] = e
      /\ \A i \in 1..(l - 1) : i \in 1..l /\ i < l /\ history'[c][i] = history[c][i]
      /\ \A i \in 1..l : i \in 1..(l - 1) \/ i = l
      /\ l \in 1..l
      /\ \A d \in Chats : d # c => history'[d] = history[d]
  BY <1>1, RememberStep
<1>3. CASE Chat[m] = c
  <2>1. Recorded(w, m)' <=> \E i \in 1..l : history'[c][i] = <<w, m>>
    BY <1>2, <1>3 DEF Recorded
  <2>2. Recorded(w, m) <=> \E i \in 1..(l - 1) : history[c][i] = <<w, m>>
    BY <1>2, <1>3 DEF Recorded
  <2>3. <<w, m>> = <<who, k>> <=> w = who /\ m = k
    OBVIOUS
  <2>4. ASSUME Recorded(w, m)' PROVE Recorded(w, m) \/ (w = who /\ m = k)
    <3>1. PICK i \in 1..l : history'[c][i] = <<w, m>>
      BY <2>1, <2>4
    <3>2. CASE i = l
      BY <1>1, <1>2, <2>3, <3>1, <3>2
    <3>3. CASE i \in 1..(l - 1)
      <4>1. history[c][i] = <<w, m>>
        BY <1>2, <3>1, <3>3
      <4> QED BY <2>2, <3>3, <4>1
    <3> QED BY <1>2, <3>2, <3>3
  <2>5. ASSUME Recorded(w, m) PROVE Recorded(w, m)'
    <3>1. PICK i \in 1..(l - 1) : history[c][i] = <<w, m>>
      BY <2>2, <2>5
    <3>2. i \in 1..l /\ history'[c][i] = <<w, m>>
      BY <1>2, <3>1
    <3> QED BY <2>1, <3>2
  <2>6. ASSUME w = who, m = k PROVE Recorded(w, m)'
    <3>1. history'[c][l] = <<w, m>> /\ l \in 1..l
      BY <1>1, <1>2, <2>6
    <3> QED BY <2>1, <3>1
  <2> QED BY <2>4, <2>5, <2>6
<1>4. CASE Chat[m] # c
  <2>1. Chat[m] \in Chats /\ m # k
    BY <1>1, <1>4, PipelineConstants
  <2>2. history'[Chat[m]] = history[Chat[m]]
    BY <1>2, <1>4, <2>1
  <2> QED BY <2>1, <2>2 DEF Recorded
<1> QED BY <1>3, <1>4

(* A message is on record once the recorder has seen it, an answer once    *)
(* the recorder has seen it, and nothing is asked or delivered before.  An *)
(* answer on record has text and goes to the chat.                         *)
Recording == \A m \in Messages : Recorded("user", m) <=> Past(m, 2)
Answering == \A m \in Messages : Recorded("assistant", m) => Said(m) /\ Recorded("user", m)
AnswersFirst ==
    /\ \A m \in Messages : Told(m, "answer") => Recorded("assistant", m)
    /\ cur # None /\ cur.type = "model_response" /\ Recordable(cur) /\ Len(todo) <= 2 =>
        Recorded("assistant", cur.turn)
Asked == cur # None /\ cur.type \in {"model_request", "model_response"} => Past(cur.turn, 2)

EntriesOnce ==
    \A c \in Chats : \A i, j \in DOMAIN history[c] :
        LET e == history[c][i]
        IN /\ e[2] \in Sent /\ Chat[e[2]] = c
           /\ e = history[c][j] => i = j
           /\ e[1] = "user" /\ e[2] = history[c][j][2] => i <= j

InOrder ==
    \A a, b \in DOMAIN sent :
        LET said == history[Chat[sent[b]]]
        IN a < b /\ Chat[sent[a]] = Chat[sent[b]] =>
            \A j \in DOMAIN said : said[j] = <<"user", sent[b]>> =>
                \E i \in 1..j : said[i] = <<"user", sent[a]>>

HistoryInv ==
    ArrivalInv /\ Recording /\ Answering /\ AnswersFirst /\ Asked /\ EntriesOnce /\ InOrder

LEMMA RecordingStep ==
    ASSUME TypeOK, TurnInv, [Next]_vars, HistoryInv
    PROVE  Recording'
<1> SUFFICES ASSUME NEW m \in Messages PROVE Recorded("user", m)' <=> Past(m, 2)'
  BY DEF Recording
<1>1. Past(m, 2)' <=> Past(m, 2) \/ (CurIs(m) /\ Handled("inbound", 2))
  BY PastStep
<1>2. Recorded("user", m) <=> Past(m, 2)
  BY DEF HistoryInv, Recording
<1>3. CASE Handled("inbound", 2) /\ Remember(<<"user", cur.turn>>)
  <2>1. PICK k \in Messages : cur.turn = k
    BY <1>3 DEF Handled
  <2>2. Recorded("user", m)' <=> Recorded("user", m) \/ m = k
    BY <1>3, <2>1, RecordedAfter
  <2>3. CurIs(m) <=> m = k
    BY <1>3, <2>1 DEF Handled, CurIs, Is
  <2> QED BY <1>1, <1>2, <1>3, <2>2, <2>3
<1>4. CASE Handled("model_response", 3) /\ Recordable(cur) /\ Remember(<<"assistant", cur.turn>>)
  <2>1. PICK k \in Messages : cur.turn = k
    BY <1>4 DEF Handled
  <2>2. Recorded("user", m)' <=> Recorded("user", m)
    BY <1>4, <2>1, RecordedAfter
  <2>3. ~ Handled("inbound", 2)
    BY <1>4 DEF Handled
  <2> QED BY <1>1, <1>2, <2>2, <2>3
<1>5. CASE UNCHANGED history /\ ~ Handled("inbound", 2)
  <2>1. Recorded("user", m)' <=> Recorded("user", m)
    BY <1>5 DEF Recorded
  <2> QED BY <1>1, <1>2, <1>5, <2>1
<1> QED BY <1>3, <1>4, <1>5, HistoryStep

LEMMA AnsweringStep ==
    ASSUME TypeOK, TurnInv, [Next]_vars, HistoryInv
    PROVE  Answering'
<1> SUFFICES ASSUME NEW m \in Messages, Recorded("assistant", m)'
             PROVE  Said(m)' /\ Recorded("user", m)'
  BY DEF Answering
<1>1. Recorded("user", m) => Recorded("user", m)'
  BY PastStep, RecordingStep DEF HistoryInv, Recording
<1>2. CASE Recorded("assistant", m)
  BY <1>1, <1>2, SaidStays DEF HistoryInv, Answering
<1>3. CASE Handled("model_response", 3) /\ Recordable(cur) /\ cur.turn = m
  <2>1. /\ cur # None /\ cur.type = "model_response" /\ Len(todo') = 2 /\ cur' = cur
    BY <1>3 DEF Handled
  <2>2. Said(m)'
    BY <1>3, <2>1 DEF Said
  <2>3. Recorded("user", m)
    BY <1>3, <2>1 DEF HistoryInv, Asked, Recording
  <2> QED BY <1>1, <2>2, <2>3
<1>4. Recorded("assistant", m) \/ (Handled("model_response", 3) /\ Recordable(cur) /\ cur.turn = m)
  <2>1. CASE Handled("inbound", 2) /\ Remember(<<"user", cur.turn>>)
    <3>1. PICK k \in Messages : cur.turn = k
      BY <2>1 DEF Handled
    <3> QED BY <2>1, <3>1, RecordedAfter
  <2>2. CASE Handled("model_response", 3) /\ Recordable(cur) /\ Remember(<<"assistant", cur.turn>>)
    <3>1. PICK k \in Messages : cur.turn = k
      BY <2>2 DEF Handled
    <3> QED BY <2>2, <3>1, RecordedAfter
  <2>3. CASE UNCHANGED history
    BY <2>3 DEF Recorded
  <2> QED BY <2>1, <2>2, <2>3, HistoryStep
<1> QED BY <1>2, <1>3, <1>4

(* What is on record stays, and a final answer is put there.               *)
LEMMA RecordedStays ==
    ASSUME TypeOK, TurnInv, [Next]_vars, NEW m \in Messages
    PROVE  /\ Recorded("assistant", m) => Recorded("assistant", m)'
           /\ Handled("model_response", 3) /\ Recordable(cur) /\ cur.turn = m => Recorded("assistant", m)'
<1>1. CASE Handled("inbound", 2) /\ Remember(<<"user", cur.turn>>)
  <2>1. PICK k \in Messages : cur.turn = k
    BY <1>1 DEF Handled
  <2>2. ~ Handled("model_response", 3)
    BY <1>1 DEF Handled
  <2> QED BY <1>1, <2>1, <2>2, RecordedAfter
<1>2. CASE Handled("model_response", 3) /\ Recordable(cur) /\ Remember(<<"assistant", cur.turn>>)
  <2>1. PICK k \in Messages : cur.turn = k
    BY <1>2 DEF Handled
  <2> QED BY <1>2, <2>1, RecordedAfter
<1>3. CASE UNCHANGED history /\ (Handled("model_response", 3) => ~ Recordable(cur))
  BY <1>3 DEF Recorded
<1> QED BY <1>1, <1>2, <1>3, HistoryStep

(* The event in dispatch stays there until the loop has finished it.       *)
LEMMA CurStep ==
    ASSUME TypeOK, TurnInv, [Next]_vars, cur' # None
    PROVE  \/ Receive
           \/ cur' = cur /\ todo' = todo
           \/ cur' = cur /\ Handled(cur.type, Len(todo))
<1>1. CASE (\E n \in Messages : Send(n)) \/ Emit \/ Finish \/ Aside
  BY <1>1, SendEffect, EmitEffect DEF Finish, Aside
<1>2. ASSUME NEW type, NEW l, Handled(type, l) PROVE cur' = cur /\ Handled(cur.type, Len(todo))
  BY <1>2 DEF Handled
<1>3. CASE ~ ((\E n \in Messages : Send(n)) \/ Receive \/ Emit \/ Finish \/ Aside)
  BY <1>2, <1>3, StepIs, RouteEffect, RecordInboundEffect, ResetEffect,
     RecordResponseEffect, InvokeEffect, RunToolsEffect, RouteResponseEffect
<1> QED BY <1>1, <1>3

LEMMA AnswersFirstStep ==
    ASSUME TypeOK, TurnInv, [Next]_vars, HistoryInv
    PROVE  AnswersFirst'
<1>0. Len(todo) \in Nat
  BY DEF TypeOK
<1>1. ASSUME NEW m \in Messages, Told(m, "answer")' PROVE Recorded("assistant", m)'
  <2>1. CASE Told(m, "answer")
    BY <2>1, RecordedStays DEF HistoryInv, AnswersFirst
  <2>2. CASE cur.turn = m /\ Recordable(cur) /\ Handled("model_response", 1)
    <3>1. cur # None /\ cur.type = "model_response" /\ Len(todo) <= 2
      BY <2>2 DEF Handled
    <3>2. Recorded("assistant", m)
      BY <2>2, <3>1 DEF HistoryInv, AnswersFirst
    <3> QED BY <3>2, RecordedStays
  <2> QED BY <1>1, <2>1, <2>2, ToldStep
<1>2. ASSUME cur' # None, cur'.type = "model_response", Recordable(cur'), Len(todo') <= 2
      PROVE  Recorded("assistant", cur.turn)'
  <2>1. ~ Receive
    <3> SUFFICES ASSUME Receive PROVE FALSE
      OBVIOUS
    <3>1. todo' = Handlers("model_response")
      BY <1>2, ReceiveEffect
    <3>2. Len(todo') = 3
      BY <3>1, Lists DEF Handlers
    <3> QED BY <1>2, <3>2
  <2>2. cur' = cur /\ (todo' = todo \/ Handled("model_response", Len(todo)))
    BY <1>2, <2>1, CurStep
  <2>3. PICK k \in Messages : cur.turn = k
    BY <1>2, <2>2, EventsTyped DEF TypeOK
  <2>4. CASE Len(todo) <= 2
    <3>1. Recorded("assistant", k)
      BY <1>2, <2>2, <2>3, <2>4 DEF HistoryInv, AnswersFirst
    <3>2. Recorded("assistant", k)'
      BY <3>1, RecordedStays
    <3> QED BY <2>2, <2>3, <3>2
  <2>5. CASE ~ (Len(todo) <= 2)
    <3>0. Handled("model_response", Len(todo))
      BY <1>2, <2>2, <2>5
    <3>1. Len(todo) = 3
      <4>1. Len(todo') = Len(todo) - 1
        BY <3>0 DEF Handled
      <4> QED BY <1>0, <1>2, <2>5, <4>1
    <3>2. Handled("model_response", 3) /\ Recordable(cur)
      BY <1>2, <2>2, <3>0, <3>1
    <3>3. Recorded("assistant", k)'
      BY <2>3, <3>2, RecordedStays
    <3> QED BY <2>2, <2>3, <3>3
  <2> QED BY <2>4, <2>5
<1> QED BY <1>1, <1>2 DEF AnswersFirst

LEMMA AskedStep ==
    ASSUME TypeOK, TurnInv, [Next]_vars, HistoryInv
    PROVE  Asked'
<1> SUFFICES ASSUME cur' # None, cur'.type \in {"model_request", "model_response"}
             PROVE  Past(cur.turn, 2)'
  BY DEF Asked
<1>1. CASE Receive
  <2>1. /\ cur' \in SpineEvent /\ Queued = Queued' \cup {cur'} /\ Sent' = Sent
    BY <1>1, ReceiveEffect DEF Sent
  <2>2. PICK m \in Messages : cur'.turn = m
    BY <2>1, EventsTyped
  <2>3. Carries(cur', m) /\ Carries(Inbound(m), m) /\ cur' # Inbound(m)
    BY <2>2, InboundIs DEF Carries
  <2>4. m \in Sent /\ Inbound(m) \notin Queued
    BY <2>1, <2>3, Apart
  <2>5. Past(m, 2)'
    BY <2>1, <2>4 DEF Past, CurIs, Is, Inbound
  <2> QED BY <2>2, <2>5
<1>2. CASE ~ Receive
  <2>1. cur' = cur
    BY <1>2, CurStep
  <2>2. PICK m \in Messages : cur.turn = m
    BY <2>1, EventsTyped DEF TypeOK
  <2>3. Past(m, 2)
    BY <2>1, <2>2 DEF HistoryInv, Asked
  <2>4. Past(m, 2)'
    BY <2>3, PastStep
  <2> QED BY <2>1, <2>2, <2>4
<1> QED BY <1>1, <1>2

(* What the recorder puts on record was not there before.                  *)
LEMMA NewEntry ==
    ASSUME TypeOK, TurnInv, HistoryInv, NEW k \in Messages, cur.turn = k
    PROVE  /\ Handled("inbound", 2) =>
                /\ k \in Sent /\ Inbound(k) \notin Queued
                /\ ~ Recorded("user", k) /\ ~ Recorded("assistant", k)
           /\ Handled("model_response", 3) /\ Recordable(cur) => k \in Sent /\ ~ Recorded("assistant", k)
<1>1. ASSUME Handled("inbound", 2)
      PROVE  /\ k \in Sent /\ Inbound(k) \notin Queued
             /\ ~ Recorded("user", k) /\ ~ Recorded("assistant", k)
  <2>1. cur # None /\ cur.type = "inbound" /\ Len(todo) = 2
    BY <1>1 DEF Handled
  <2>2. k \in Sent /\ Inbound(k) \notin Queued
    BY <2>1, InboundIs DEF TurnInv, StartedOnce, Fresh, Unsent, Queued
  <2>3. ~ Past(k, 2)
    BY <2>1 DEF Past, CurIs, Is
  <2> QED BY <2>2, <2>3 DEF HistoryInv, Recording, Answering
<1>2. ASSUME Handled("model_response", 3), Recordable(cur) PROVE k \in Sent /\ ~ Recorded("assistant", k)
  <2>1. cur # None /\ cur.type = "model_response" /\ Len(todo) = 3
    BY <1>2 DEF Handled
  <2>2. InCur(k)
    BY <1>2, <2>1 DEF InCur, Live
  <2>3. /\ k \in Sent /\ \A e \in Queued \cup Owed : ~ Carries(e, k)
        /\ \A e \in Given : e.turn # k
    BY <2>2, Apart
  <2>4. ~ Said(k)
    BY <2>1, <2>3 DEF Said, Told, Carries
  <2> QED BY <2>3, <2>4 DEF HistoryInv, Answering
<1> QED BY <1>1, <1>2

LEMMA EntriesAppend ==
    ASSUME TypeOK, EntriesOnce, NEW k \in Messages, k \in Sent, cur.turn = k,
           NEW who \in {"user", "assistant"}, Remember(<<who, k>>), UNCHANGED sent,
           ~ Recorded(who, k), who = "user" => ~ Recorded("assistant", k)
    PROVE  EntriesOnce'
<1>1. PICK c, e : c = Chat[k] /\ e = <<who, k>> /\ Remember(e)
  OBVIOUS
<1>2. PICK l :
      /\ c \in Chats /\ l \in Nat /\ DOMAIN history[c] = 1..(l - 1)
      /\ DOMAIN history'[c] = 1..l /\ history'[c][l] = e
      /\ \A i \in 1..(l - 1) : i \in 1..l /\ i < l /\ history'[c][i] = history[c][i]
      /\ \A i \in 1..l : i \in 1..(l - 1) \/ i = l
      /\ l \in 1..l
      /\ \A d \in Chats : d # c => history'[d] = history[d]
  BY SMTT(30), <1>1, RememberStep
<1>3. Sent' = Sent
  BY DEF Sent
<1>4. ASSUME NEW i \in 1..(l - 1)
      PROVE  /\ history[c][i] # e
             /\ who = "user" => history[c][i][2] # k
  <2>1. history[c][i] \in Entries
    BY <1>2, <1>4 DEF TypeOK
  <2>2. PICK w \in {"user", "assistant"}, m \in Messages : history[c][i] = <<w, m>>
    BY <2>1 DEF Entries
  <2>3. m = k => Recorded(w, k)
    BY <1>1, <1>2, <2>2 DEF Recorded
  <2> QED BY <1>1, <2>2, <2>3
<1>5. e[1] = who /\ e[2] = k
  BY <1>1
<1> SUFFICES ASSUME NEW d \in Chats, NEW i \in DOMAIN history'[d], NEW j \in DOMAIN history'[d]
             PROVE  /\ history'[d][i][2] \in Sent /\ Chat[history'[d][i][2]] = d
                    /\ history'[d][i] = history'[d][j] => i = j
                    /\ history'[d][i][1] = "user" /\ history'[d][i][2] = history'[d][j][2] => i <= j
  BY <1>3 DEF EntriesOnce
<1>6. CASE d # c
  BY <1>2, <1>6 DEF EntriesOnce
<1>7. CASE d = c
  <2>1. i \in 1..l /\ j \in 1..l
    BY <1>2, <1>7
  <2>2. CASE i \in 1..(l - 1) /\ j \in 1..(l - 1)
    BY <1>2, <1>7, <2>2 DEF EntriesOnce
  <2>3. CASE i = l
    <3>1. history'[d][i] = e
      BY <1>2, <1>7, <2>3
    <3>2. j # l => history'[d][j] # e /\ (who = "user" => history'[d][j][2] # k)
      BY <1>2, <1>4, <1>7, <2>1
    <3>3. j = l => i <= j
      BY <1>2, <2>3
    <3> QED BY <1>1, <1>5, <1>7, <2>3, <3>1, <3>2, <3>3
  <2>4. CASE i \in 1..(l - 1) /\ j = l
    <3>1. history'[d][i] = history[d][i] /\ history'[d][j] = e /\ i < l
      BY <1>2, <1>7, <2>4
    <3>2. history[d][i] # e /\ i <= j
      BY <1>2, <1>4, <1>7, <2>4, <3>1
    <3>3. history[d][i][2] \in Sent /\ Chat[history[d][i][2]] = d
      BY <1>2, <1>7, <2>4 DEF EntriesOnce
    <3> QED BY <3>1, <3>2, <3>3
  <2> QED BY <1>2, <2>1, <2>2, <2>3, <2>4
<1> QED BY <1>6, <1>7

LEMMA EntriesOnceStep ==
    ASSUME TypeOK, TurnInv, [Next]_vars, HistoryInv
    PROVE  EntriesOnce'
<1>1. CASE Handled("inbound", 2) /\ Remember(<<"user", cur.turn>>)
  <2>1. PICK k \in Messages : cur.turn = k /\ UNCHANGED sent
    BY <1>1 DEF Handled
  <2>2. k \in Sent /\ ~ Recorded("user", k) /\ ~ Recorded("assistant", k)
    BY <1>1, <2>1, NewEntry
  <2>3. Remember(<<"user", k>>)
    BY <1>1, <2>1
  <2> QED BY <2>1, <2>2, <2>3, EntriesAppend DEF HistoryInv
<1>2. CASE Handled("model_response", 3) /\ Recordable(cur) /\ Remember(<<"assistant", cur.turn>>)
  <2>1. PICK k \in Messages : cur.turn = k /\ UNCHANGED sent
    BY <1>2 DEF Handled
  <2>2. k \in Sent /\ ~ Recorded("assistant", k)
    BY <1>2, <2>1, NewEntry
  <2>3. Remember(<<"assistant", k>>)
    BY <1>2, <2>1
  <2> QED BY <2>1, <2>2, <2>3, EntriesAppend DEF HistoryInv
<1>3. CASE UNCHANGED history
  <2>1. Sent \subseteq Sent'
    BY SentGrows
  <2> QED BY <1>3, <2>1 DEF HistoryInv, EntriesOnce
<1> QED BY <1>1, <1>2, <1>3, HistoryStep

LEMMA InOrderAppend ==
    ASSUME TypeOK, TurnInv, HistoryInv, NEW k \in Messages, cur.turn = k,
           NEW who \in {"user", "assistant"}, Remember(<<who, k>>), UNCHANGED sent,
           who = "user" => Inbound(k) \notin Queued
    PROVE  InOrder'
<1>1. PICK c, e : c = Chat[k] /\ e = <<who, k>> /\ Remember(e)
  OBVIOUS
<1>2. PICK l :
      /\ c \in Chats /\ l \in Nat /\ DOMAIN history[c] = 1..(l - 1)
      /\ DOMAIN history'[c] = 1..l /\ history'[c][l] = e
      /\ \A i \in 1..(l - 1) : i \in 1..l /\ i < l /\ history'[c][i] = history[c][i]
      /\ \A i \in 1..l : i \in 1..(l - 1) \/ i = l
      /\ l \in 1..l
      /\ \A d \in Chats : d # c => history'[d] = history[d]
  BY SMTT(30), <1>1, RememberStep
<1> SUFFICES ASSUME NEW a \in DOMAIN sent, NEW b \in DOMAIN sent, NEW d, d = Chat[sent[b]],
                    a < b, Chat[sent[a]] = d,
                    NEW j \in DOMAIN history'[d], history'[d][j] = <<"user", sent[b]>>
             PROVE  \E i \in 1..j : history'[d][i] = <<"user", sent[a]>>
  BY DEF InOrder
<1>3. sent[a] \in Messages /\ sent[b] \in Messages /\ d \in Chats
  BY PipelineConstants DEF TypeOK
<1>4. ASSUME j \in DOMAIN history[d], history[d][j] = <<"user", sent[b]>>
      PROVE  \E i \in 1..j : history[d][i] = <<"user", sent[a]>>
  BY <1>4 DEF HistoryInv, InOrder
<1>5. CASE d # c
  BY <1>2, <1>3, <1>4, <1>5
<1>6. CASE d = c /\ j \in 1..(l - 1)
  <2>1. PICK i \in 1..j : history[d][i] = <<"user", sent[a]>>
    BY <1>2, <1>4, <1>6
  <2>2. i \in 1..(l - 1)
    BY <1>2, <1>6
  <2> QED BY <1>2, <1>6, <2>1, <2>2
<1>7. CASE d = c /\ j = l
  <2>1. who = "user" /\ sent[b] = k
    BY <1>1, <1>2, <1>7
  <2>2. Past(sent[a], 2)
    BY <2>1, EarlierPast DEF HistoryInv
  <2>3. Recorded("user", sent[a])
    BY <1>3, <2>2 DEF HistoryInv, Recording
  <2>4. PICK i \in 1..(l - 1) : history[c][i] = <<"user", sent[a]>>
    BY <1>2, <1>7, <2>3 DEF Recorded
  <2>5. i \in 1..l /\ history'[c][i] = <<"user", sent[a]>>
    BY <1>2, <2>4
  <2> QED BY <1>7, <2>5
<1> QED BY <1>2, <1>5, <1>6, <1>7

LEMMA InOrderStep ==
    ASSUME TypeOK, TurnInv, [Next]_vars, HistoryInv
    PROVE  InOrder'
<1>1. CASE Handled("inbound", 2) /\ Remember(<<"user", cur.turn>>)
  <2>1. PICK k \in Messages : cur.turn = k /\ UNCHANGED sent
    BY <1>1 DEF Handled
  <2>2. Inbound(k) \notin Queued
    BY <1>1, <2>1, NewEntry
  <2>3. Remember(<<"user", k>>)
    BY <1>1, <2>1
  <2> QED BY <2>1, <2>2, <2>3, InOrderAppend
<1>2. CASE Handled("model_response", 3) /\ Recordable(cur) /\ Remember(<<"assistant", cur.turn>>)
  <2>1. PICK k \in Messages : cur.turn = k /\ UNCHANGED sent
    BY <1>2 DEF Handled
  <2>2. Remember(<<"assistant", k>>)
    BY <1>2, <2>1
  <2> QED BY <2>1, <2>2, InOrderAppend
<1>3. CASE UNCHANGED <<history, sent>>
  BY <1>3 DEF HistoryInv, InOrder
<1>4. ASSUME NEW n \in Messages, Send(n) PROVE InOrder'
  <2>1. /\ n \notin Sent /\ UNCHANGED history
        /\ Len(sent) \in Nat /\ DOMAIN sent = 1..Len(sent)
        /\ DOMAIN sent' = 1..(Len(sent) + 1)
        /\ \A i \in DOMAIN sent : sent'[i] = sent[i]
        /\ sent'[Len(sent) + 1] = n
    BY <1>4, SendEffect
  <2> SUFFICES ASSUME NEW a \in DOMAIN sent', NEW b \in DOMAIN sent', NEW d, d = Chat[sent'[b]],
                      a < b, Chat[sent'[a]] = d,
                      NEW j \in DOMAIN history'[d], history'[d][j] = <<"user", sent'[b]>>
               PROVE  \E i \in 1..j : history'[d][i] = <<"user", sent'[a]>>
    BY DEF InOrder
  <2>2. a \in DOMAIN sent /\ (b \in DOMAIN sent \/ b = Len(sent) + 1)
    BY <2>1
  <2>3. b # Len(sent) + 1
    <3> SUFFICES ASSUME b = Len(sent) + 1 PROVE FALSE
      OBVIOUS
    <3>1. sent'[b] = n /\ d \in Chats
      BY <2>1, PipelineConstants
    <3>2. history[d][j][2] \in Sent /\ history[d][j] = <<"user", n>>
      BY <2>1, <3>1 DEF HistoryInv, EntriesOnce
    <3> QED BY <2>1, <3>2
  <2>4. sent'[a] = sent[a] /\ sent'[b] = sent[b] /\ b \in DOMAIN sent
    BY <2>1, <2>2, <2>3
  <2>5. /\ history[d][j] = <<"user", sent[b]>> /\ j \in DOMAIN history[d]
        /\ d = Chat[sent[b]] /\ Chat[sent[a]] = d
        /\ a \in DOMAIN sent /\ b \in DOMAIN sent /\ a < b
    BY <2>1, <2>2, <2>4
  <2>6. \E i \in 1..j : history[d][i] = <<"user", sent[a]>>
    <3>1. \A y \in DOMAIN history[d] : history[d][y] = <<"user", sent[b]>> =>
            \E i \in 1..y : history[d][i] = <<"user", sent[a]>>
      BY <2>5 DEF HistoryInv, InOrder
    <3> QED BY <2>5, <3>1
  <2> QED BY <2>1, <2>4, <2>6
<1>5. UNCHANGED history => UNCHANGED sent \/ \E n \in Messages : Send(n)
  BY SentStep
<1> QED BY <1>1, <1>2, <1>3, <1>4, <1>5, HistoryStep

LEMMA HistoryInit == Init => HistoryInv
<1> SUFFICES ASSUME Init PROVE HistoryInv
  OBVIOUS
<1>1. /\ DOMAIN sent = {} /\ DOMAIN queue = {} /\ DOMAIN delivered = {} /\ DOMAIN out = {}
      /\ cur = None /\ \A c \in Chats : DOMAIN history[c] = {}
  BY Singles DEF Init
<1>2. Sent = {} /\ Queued = {} /\ Owed = {} /\ Given = {}
  BY <1>1 DEF Sent, Queued, Owed, Given
<1>3. \A m \in Messages : \A w : ~ Recorded(w, m) /\ ~ Past(m, 2) /\ ~ Told(m, "answer")
  BY <1>1, <1>2, PipelineConstants DEF Recorded, Past, Told
<1> QED BY <1>1, <1>3 DEF HistoryInv, ArrivalInv, SentOnce, QueueOrder, CurOrder, Is, Recording,
           Answering, AnswersFirst, Asked, EntriesOnce, InOrder

LEMMA HistoryInvariance == Spec => [](TypeOK /\ TurnInv /\ HistoryInv)
<1>1. Init => TypeOK /\ TurnInv /\ HistoryInv
  BY TypesInit, TurnInit, HistoryInit
<1>2. TypeOK /\ TurnInv /\ HistoryInv /\ [Next]_vars => (TypeOK /\ TurnInv /\ HistoryInv)'
  <2> SUFFICES ASSUME TypeOK, TurnInv, HistoryInv, [Next]_vars PROVE (TypeOK /\ TurnInv /\ HistoryInv)'
    OBVIOUS
  <2>1. TypeOK' /\ TurnInv'
    BY TypesStep, TurnStep
  <2>2. ArrivalInv'
    BY ArrivalStep DEF HistoryInv
  <2> QED BY <2>1, <2>2, RecordingStep, AnsweringStep, AnswersFirstStep, AskedStep,
             EntriesOnceStep, InOrderStep DEF HistoryInv
<1> QED BY <1>1, <1>2, PTL DEF Spec

(* What the store holds of a chat was sent there, each message once and in *)
(* the order of arrival, none left out, its answer after it; the model is  *)
(* asked once the store has the message, although it is the router that    *)
(* emits the request and the recorder comes second; and a turn that ended  *)
(* in a delivery left an answer in the store exactly if it was delivered   *)
(* one with text (history_recorder.rs, response_router.rs).                *)
THEOREM StoreIsFaithful == Spec => []HistoryFaithful
<1>1. TypeOK /\ TurnInv /\ HistoryInv => HistoryFaithful
  <2> SUFFICES ASSUME TypeOK, TurnInv, HistoryInv PROVE HistoryFaithful
    OBVIOUS
  <2>1. ASSUME cur # None, cur.type = "model_request" PROVE Recorded("user", cur.turn)
    <3>1. PICK m \in Messages : cur.turn = m
      BY <2>1, EventsTyped DEF TypeOK
    <3> QED BY <2>1, <3>1 DEF HistoryInv, Asked, Recording
  <2>2. ASSUME NEW i \in DOMAIN delivered
        PROVE  delivered[i].what = "answer" <=> Recorded("assistant", delivered[i].turn)
    <3>1. PICK m \in Messages : delivered[i].turn = m
      BY EventsTyped DEF TypeOK
    <3>2. delivered[i] \in Given
      BY DEF Given
    <3>3. ASSUME delivered[i].what = "answer" PROVE Recorded("assistant", m)
      BY <3>1, <3>2, <3>3 DEF Told, HistoryInv, AnswersFirst
    <3>4. ASSUME Recorded("assistant", m) PROVE delivered[i].what = "answer"
      <4>1. Said(m)
        BY <3>4 DEF HistoryInv, Answering
      <4>2. ~ InCur(m) /\ \A e \in Queued \cup Owed : ~ Carries(e, m)
        BY <3>1, <3>2, Apart
      <4>3. Told(m, "answer")
        <5> SUFFICES ASSUME cur # None, cur.type = "model_response", Recordable(cur), cur.turn = m,
                            Len(todo) \in 1..2
                     PROVE  FALSE
          BY <4>1 DEF Said
        <5>1. cur.calls = 0 /\ Len(todo) >= 1
          BY SMTT(30), ReplyIs
        <5> QED BY <4>2, <5>1 DEF InCur, Live
      <4>4. PICK e \in Given : e.what = "answer" /\ e.turn = m
        BY <4>2, <4>3 DEF Told, Carries
      <4>5. delivered[i] = e
        BY <3>1, <3>2, <4>4, Apart
      <4> QED BY <4>4, <4>5
    <3> QED BY <3>1, <3>3, <3>4
  <2> QED BY <2>1, <2>2 DEF HistoryFaithful, HistoryInv, EntriesOnce, InOrder
<1> QED BY <1>1, HistoryInvariance, PTL

----------------------------------------------------------------------------
(* Tool rounds.                                                            *)
(*                                                                         *)
(* The count of a chat is the count of one turn only while no other turn   *)
(* of the chat is open.  A turn resets the count when it begins and when   *)
(* it is closed, and does each once; so what the other turns can add to    *)
(* the rounds of a turn is bounded by how often they have reset it.        *)

(* The tool executor has seen the message; it has seen the last response.  *)
Begun(m) == Past(m, 1)
Closed(m) == Concluded(m, 1)

Others(m) == {k \in Sent \ {m} : Chat[k] = Chat[m]}
Resets(m) ==
    Cardinality({k \in Others(m) : Begun(k)}) + Cardinality({k \in Others(m) : Closed(k)})

(* Turns of a chat that were open together are overlapped.                 *)
OpenTogether ==
    \A a, b \in DOMAIN sent : a < b /\ Chat[sent[a]] = Chat[sent[b]] /\ ~ Ended(sent[a]) =>
        sent[a] \in overlapped /\ sent[b] \in overlapped

NotBegun == \A m \in Messages : ~ Begun(m) => rounds[m] = 0

CountsOwn ==
    \A m \in Messages \ overlapped :
        Begun(m) /\ ~ Closed(m) /\ m \notin silent => iterations[Chat[m]] = rounds[m]

WithinLimit ==
    \A m \in Messages \ overlapped :
        /\ rounds[m] <= MaxIterations
        /\ Told(m, "aborted") => rounds[m] = MaxIterations

ResetsCounted ==
    \A m \in Messages :
        rounds[m] <= MaxIterations * Resets(m)
                        + (IF Closed(m) THEN MaxIterations ELSE iterations[Chat[m]])

RoundsInv ==
    IsFiniteSet(Sent) /\ OpenTogether /\ NotBegun /\ CountsOwn /\ WithinLimit /\ ResetsCounted

LEMMA EndedIs == \A m : Ended(m) <=> m \in silent \/ \E e \in Given : e.turn = m
BY DEF Ended, Given

(* A turn that is over stays over.                                         *)
LEMMA EndedStays ==
    ASSUME TypeOK, TurnInv, [Next]_vars
    PROVE  silent \subseteq silent' /\ Given \subseteq Given'
<1>1. CASE (\E n \in Messages : Send(n)) \/ Receive \/ Emit \/ Finish \/ Aside
  BY <1>1, SendEffect, ReceiveEffect, EmitEffect DEF Finish, Aside, ghosts, Given
<1>2. ASSUME NEW type, NEW l, Handled(type, l) PROVE Given' = Given
  BY <1>2 DEF Handled, Given
<1>3. CASE ~ ((\E n \in Messages : Send(n)) \/ Receive \/ Emit \/ Finish \/ Aside)
  BY <1>2, <1>3, StepIs, RouteEffect, RecordInboundEffect, ResetEffect,
     RecordResponseEffect, InvokeEffect, RunToolsEffect, RouteResponseEffect
<1> QED BY <1>1, <1>3

(* The only steps that count.                                              *)
LEMMA CountStep ==
    ASSUME TypeOK, TurnInv, [Next]_vars
    PROVE  \/ ResetOnInbound \/ RunTools
           \/ UNCHANGED <<iterations, rounds>> /\ ~ Handled("inbound", 1)
<1>1. Len(todo) \in Nat
  BY DEF TypeOK
<1>2. ASSUME todo' = todo \/ cur = None \/ cur' = None, NEW type, NEW l PROVE ~ Handled(type, l)
  BY <1>1, <1>2 DEF Handled
<1>3. CASE (\E n \in Messages : Send(n)) \/ Receive \/ Emit \/ Finish \/ Aside
  <2>1. UNCHANGED <<iterations, rounds>> /\ (todo' = todo \/ cur = None \/ cur' = None)
    BY <1>3, SendEffect, ReceiveEffect, EmitEffect DEF Finish, Aside, ghosts
  <2> QED BY <1>2, <2>1
<1>4. ASSUME NEW type, NEW l, Handled(type, l), type = "inbound" => l # 1
      PROVE  ~ Handled("inbound", 1)
  BY <1>4 DEF Handled
<1>5. CASE (Route \/ FallBack) \/ RecordInbound \/ RecordResponse \/ Invoke \/ RouteResponse
  BY <1>4, <1>5, RouteEffect, RecordInboundEffect, RecordResponseEffect, InvokeEffect, RouteResponseEffect
<1> QED BY <1>3, <1>5, StepIs

(* A message resets its chat once, as the turn begins.                     *)
LEMMA ResetTurn ==
    ASSUME TypeOK, TurnInv, ResetOnInbound, NEW k, k = cur.turn
    PROVE  /\ k \in Messages /\ k \in Sent /\ CurIs(k) /\ ~ Begun(k) /\ Begun(k)'
           /\ iterations' = [iterations EXCEPT ![Chat[k]] = 0]
           /\ UNCHANGED <<silent, rounds, sent, overlapped>>
<1>1. /\ Handled("inbound", 1) /\ iterations' = [iterations EXCEPT ![Chat[k]] = 0]
      /\ UNCHANGED <<silent, rounds>>
  BY ResetEffect
<1>2. /\ k \in Messages /\ CurIs(k) /\ Len(todo) = 1 /\ UNCHANGED <<sent, overlapped>>
  BY <1>1 DEF Handled, CurIs, Is
<1>3. k \in Sent
  BY <1>2 DEF TurnInv, StartedOnce, Fresh, Unsent, CurIs, Is
<1>4. ~ Begun(k)
  BY <1>2 DEF Begun, Past
<1>5. [Next]_vars
  BY DEF Next, Loop
<1>6. Past(k, 1)'
  BY <1>1, <1>2, <1>5, PastStep
<1> QED BY <1>1, <1>2, <1>3, <1>4, <1>6 DEF Begun

(* A turn that calls tools has begun and is not closed; the step that      *)
(* resets the count, not adding to it, closes it.                          *)
LEMMA RunToolsTurn ==
    ASSUME TypeOK, TurnInv, HistoryInv, RunTools, NEW k, k = cur.turn
    PROVE  /\ k \in Messages /\ k \in Sent /\ Begun(k) /\ ~ Closed(k) /\ ~ Ended(k)
           /\ k \notin silent /\ ~ Told(k, "aborted")
           /\ UNCHANGED <<silent, sent, overlapped>>
           /\ \/ /\ ~ (cur.calls > 0 /\ ~ Exceeded(iterations[Chat[k]] + 1)) /\ Closed(k)'
                 /\ iterations' = [iterations EXCEPT ![Chat[k]] = 0]
                 /\ UNCHANGED rounds
              \/ /\ ~ Exceeded(iterations[Chat[k]] + 1)
                 /\ iterations' = [iterations EXCEPT ![Chat[k]] = iterations[Chat[k]] + 1]
                 /\ rounds' = [rounds EXCEPT ![k] = @ + 1]
<1>1. /\ Handled("model_response", 2) /\ InCur(k) /\ UNCHANGED silent
  BY RunToolsEffect
<1>2. /\ k \in Messages /\ cur # None /\ cur.type = "model_response" /\ Len(todo) = 2 /\ Len(todo') = 1
      /\ UNCHANGED <<cur, sent, overlapped>>
  BY <1>1 DEF Handled
<1>3. /\ k \in Sent /\ k \notin silent
      /\ \A e \in Queued \cup Owed : ~ Carries(e, k)
      /\ \A e \in Given : e.turn # k
  BY <1>1, <1>2, Apart
<1>4. ~ Closed(k) /\ ~ Ended(k) /\ ~ Told(k, "aborted")
  BY <1>2, <1>3, EndedIs DEF Closed, Concluded, Carries, Told
<1>5. Begun(k)
  <2>1. Past(k, 2)
    BY <1>2 DEF HistoryInv, Asked
  <2> QED BY <1>2, <2>1 DEF Begun, Past, CurIs, Is
<1>6. ASSUME cur.calls = 0 PROVE Closed(k)'
  BY <1>2, <1>6 DEF Closed, Concluded
<1>7. ASSUME Owed' = {DeliveryRequest(cur.turn, "aborted", "system")} PROVE Closed(k)'
  <2>1. DeliveryRequest(cur.turn, "aborted", "system").type = "delivery_request"
        /\ DeliveryRequest(cur.turn, "aborted", "system").turn = k
    BY DEF DeliveryRequest
  <2> QED BY <1>7, <2>1 DEF Closed, Concluded
<1> QED BY <1>1, <1>2, <1>3, <1>4, <1>5, <1>6, <1>7, RunToolsEffect

LEMMA OpenTogetherStep ==
    ASSUME TypeOK, TurnInv, [Next]_vars, OpenTogether
    PROVE  OpenTogether' /\ overlapped \subseteq overlapped'
<1>1. ASSUME NEW n \in Messages, Send(n) PROVE OpenTogether' /\ overlapped \subseteq overlapped'
  <2>1. /\ UNCHANGED <<silent, delivered>>
        /\ Len(sent) \in Nat /\ DOMAIN sent = 1..Len(sent)
        /\ DOMAIN sent' = 1..(Len(sent) + 1)
        /\ \A i \in DOMAIN sent : sent'[i] = sent[i]
        /\ sent'[Len(sent) + 1] = n
    BY <1>1, SendEffect
  <2> DEFINE open == {k \in Sent : Chat[k] = Chat[n] /\ ~ Ended(k)}
  <2>2. overlapped' = overlapped \cup open \cup (IF open = {} THEN {} ELSE {n})
    BY <1>1 DEF Send
  <2>3. \A m : Ended(m)' <=> Ended(m)
    BY <2>1 DEF Ended
  <2> SUFFICES ASSUME NEW a \in DOMAIN sent', NEW b \in DOMAIN sent', a < b,
                      Chat[sent'[a]] = Chat[sent'[b]], ~ Ended(sent[a])'
               PROVE  sent'[a] \in overlapped' /\ sent'[b] \in overlapped'
    BY <2>2 DEF OpenTogether
  <2>4. a \in DOMAIN sent /\ (b \in DOMAIN sent \/ b = Len(sent) + 1)
    BY <2>1
  <2>5. PICK k : k = sent[a] /\ k = sent'[a] /\ k \in Sent
    BY <2>1, <2>4 DEF Sent
  <2>6. ~ Ended(k)
    BY <2>1, <2>5 DEF Ended
  <2>7. CASE b \in DOMAIN sent
    BY <2>1, <2>2, <2>4, <2>5, <2>6, <2>7 DEF OpenTogether
  <2>8. CASE b = Len(sent) + 1
    <3>1. k \in open
      BY <2>1, <2>5, <2>6, <2>8
    <3> QED BY <2>1, <2>2, <2>5, <2>8, <3>1
  <2> QED BY <2>4, <2>7, <2>8
<1>2. CASE UNCHANGED <<sent, overlapped>>
  <2>1. \A m : Ended(m) => Ended(m)'
    <3> SUFFICES ASSUME NEW m, Ended(m) PROVE m \in silent' \/ \E i \in DOMAIN delivered' : delivered'[i].turn = m
      BY DEF Ended
    <3>1. m \in silent' \/ \E e \in Given' : e.turn = m
      BY EndedIs, EndedStays
    <3> QED BY <3>1 DEF Given
  <2> SUFFICES ASSUME NEW a \in DOMAIN sent, NEW b \in DOMAIN sent, a < b,
                      Chat[sent[a]] = Chat[sent[b]], ~ Ended(sent[a])'
               PROVE  sent[a] \in overlapped /\ sent[b] \in overlapped
    BY <1>2 DEF OpenTogether
  <2>2. PICK k : k = sent[a] /\ k = sent'[a]
    BY <1>2
  <2>3. ~ Ended(k)'
    BY <2>2 DEF Ended
  <2> QED BY <2>1, <2>2, <2>3 DEF OpenTogether
<1> QED BY <1>1, <1>2, SentStep

(* No other turn of its chat touches the count of a lone turn that is      *)
(* under way.                                                              *)
LEMMA LoneCounts ==
    ASSUME TypeOK, TurnInv, HistoryInv, OpenTogether, NEW m \in Messages, m \notin overlapped,
           Begun(m), ~ Closed(m), m \notin silent, ResetOnInbound \/ RunTools,
           NEW k, k = cur.turn, k # m
    PROVE  Chat[k] # Chat[m]
<1> SUFFICES ASSUME Chat[k] = Chat[m] PROVE FALSE
  OBVIOUS
<1>1. ~ Ended(m) /\ m \in Sent /\ Inbound(m) \notin Queued
  BY EndedIs DEF Closed, Concluded, Begun, Past
<1>2. k \in Sent /\ (CurIs(k) \/ ~ Ended(k))
  BY ResetTurn, RunToolsTurn
<1>3. PICK a, b \in DOMAIN sent : sent[a] = k /\ sent[b] = m
  BY <1>1, <1>2 DEF Sent
<1>4. a \in Nat /\ b \in Nat /\ a # b
  BY <1>3 DEF TypeOK
<1>5. ~ (b < a)
  BY <1>1, <1>3 DEF OpenTogether
<1>6. a < b
  BY <1>4, <1>5
<1>7. Ended(k)
  BY <1>3, <1>6 DEF OpenTogether
<1>8. CurIs(k)
  BY <1>2, <1>7
<1>9. PICK j \in DOMAIN queue : At(queue, m, j)
  BY <1>3, <1>6, <1>8 DEF HistoryInv, ArrivalInv, CurOrder, CurIs
<1>10. queue[j] \in SpineEvent
  BY DEF TypeOK
<1> QED BY <1>1, <1>9, <1>10, InboundIs DEF At, Queued

(* Each message's rounds are its own.                                      *)
LEMMA CountTypes ==
    ASSUME TypeOK, NEW m \in Messages
    PROVE  /\ Chat[m] \in Chats /\ rounds[m] \in Nat /\ iterations[Chat[m]] \in 0..MaxIterations
           /\ \A n : /\ [iterations EXCEPT ![Chat[m]] = n][Chat[m]] = n
                     /\ [rounds EXCEPT ![m] = n][m] = n
           /\ \A c \in Chats : c # Chat[m] => \A n : [iterations EXCEPT ![Chat[m]] = n][c] = iterations[c]
           /\ \A k \in Messages : k # m => \A n : [rounds EXCEPT ![m] = n][k] = rounds[k]
BY PipelineConstants DEF TypeOK

LEMMA NotBegunStep ==
    ASSUME TypeOK, TurnInv, [Next]_vars, HistoryInv, NotBegun
    PROVE  NotBegun'
<1> SUFFICES ASSUME NEW m \in Messages, ~ Begun(m)' PROVE rounds'[m] = 0
  BY DEF NotBegun
<1>1. ~ Begun(m)
  <2>1. Past(m, 1) => Past(m, 1)'
    BY PastStep
  <2> QED BY <2>1 DEF Begun
<1>2. rounds[m] = 0
  BY <1>1 DEF NotBegun
<1>3. CASE RunTools
  <2>1. PICK k : k = cur.turn
    OBVIOUS
  <2>r. PICK r : r = rounds[k] + 1
    OBVIOUS
  <2>2. k \in Messages /\ k # m /\ (UNCHANGED rounds \/ rounds' = [rounds EXCEPT ![k] = r])
    BY <1>1, <1>3, <2>1, <2>r, RunToolsTurn
  <2>3. rounds'[m] = rounds[m]
    BY <2>2, CountTypes
  <2> QED BY <1>2, <2>3
<1>4. CASE ResetOnInbound \/ UNCHANGED rounds
  BY <1>2, <1>4, ResetEffect
<1> QED BY <1>3, <1>4, CountStep

LEMMA CountsOwnStep ==
    ASSUME TypeOK, TurnInv, [Next]_vars, HistoryInv, OpenTogether, NotBegun, CountsOwn
    PROVE  CountsOwn'
<1> SUFFICES ASSUME NEW m \in Messages, m \notin overlapped', Begun(m)', ~ Closed(m)', m \notin silent'
             PROVE  iterations'[Chat[m]] = rounds'[m]
  BY DEF CountsOwn
<1>1. m \notin overlapped /\ m \notin silent
  BY OpenTogetherStep, EndedStays
<1>2. ~ Closed(m)
  <2>1. Concluded(m, 1) => Concluded(m, 1)'
    BY ConcludedStays
  <2> QED BY <2>1 DEF Closed
<1>3. Begun(m)' <=> Begun(m) \/ (CurIs(m) /\ Handled("inbound", 1))
  <2>1. Past(m, 1)' <=> Past(m, 1) \/ (CurIs(m) /\ Handled("inbound", 1))
    BY PastStep
  <2> QED BY <2>1 DEF Begun
<1>4. PICK k : k = cur.turn
  OBVIOUS
<1>5. Begun(m) => iterations[Chat[m]] = rounds[m]
  BY <1>1, <1>2 DEF CountsOwn
<1>6. CASE ResetOnInbound
  <2>1. /\ k \in Messages /\ ~ Begun(k) /\ UNCHANGED rounds
        /\ iterations' = [iterations EXCEPT ![Chat[k]] = 0]
    BY <1>4, <1>6, ResetTurn
  <2>2. CASE k = m
    <3>1. rounds[m] = 0
      BY <2>1, <2>2 DEF NotBegun
    <3> QED BY <2>1, <2>2, <3>1, CountTypes
  <2>3. CASE k # m
    <3>1. Begun(m)
      BY <1>3, <1>4, <2>3 DEF CurIs, Is
    <3>2. Chat[k] # Chat[m]
      BY <1>1, <1>2, <1>4, <1>6, <2>3, <3>1, LoneCounts
    <3>3. iterations'[Chat[m]] = iterations[Chat[m]]
      BY <2>1, <3>2, CountTypes
    <3> QED BY <1>5, <2>1, <3>1, <3>3
  <2> QED BY <2>2, <2>3
<1>7. CASE RunTools
  <2>0. PICK i, r : i = iterations[Chat[k]] + 1 /\ r = rounds[k] + 1
    OBVIOUS
  <2>1. /\ k \in Messages /\ Begun(k)
        /\ \/ /\ Closed(k)' /\ UNCHANGED rounds
              /\ iterations' = [iterations EXCEPT ![Chat[k]] = 0]
           \/ /\ iterations' = [iterations EXCEPT ![Chat[k]] = i]
              /\ rounds' = [rounds EXCEPT ![k] = r]
    BY <1>4, <1>7, <2>0, RunToolsTurn
  <2>2. CASE k = m
    <3>1. iterations'[Chat[m]] = i /\ rounds'[m] = r
      BY <2>1, <2>2, CountTypes
    <3> QED BY <1>5, <2>0, <2>1, <2>2, <3>1
  <2>3. CASE k # m
    <3>1. ~ Handled("inbound", 1)
      <4>1. Handled("model_response", 2)
        BY <1>7, RunToolsEffect
      <4> QED BY <4>1 DEF Handled
    <3>2. Begun(m)
      BY <1>3, <3>1
    <3>3. Chat[k] # Chat[m]
      BY <1>1, <1>2, <1>4, <1>7, <2>3, <3>2, LoneCounts
    <3>4. iterations'[Chat[m]] = iterations[Chat[m]]
      BY <2>1, <3>3, CountTypes
    <3>5. rounds'[m] = rounds[m]
      BY <2>1, <2>3, CountTypes
    <3> QED BY <1>5, <3>2, <3>4, <3>5
  <2> QED BY <2>2, <2>3
<1>8. CASE UNCHANGED <<iterations, rounds>> /\ ~ Handled("inbound", 1)
  BY <1>3, <1>5, <1>8
<1> QED BY <1>6, <1>7, <1>8, CountStep

LEMMA WithinLimitStep ==
    ASSUME TypeOK, TurnInv, [Next]_vars, HistoryInv, OpenTogether, CountsOwn, WithinLimit
    PROVE  WithinLimit'
<1> SUFFICES ASSUME NEW m \in Messages, m \notin overlapped'
             PROVE  /\ rounds'[m] <= MaxIterations
                    /\ Told(m, "aborted")' => rounds'[m] = MaxIterations
  BY DEF WithinLimit
<1>1. m \notin overlapped
  BY OpenTogetherStep
<1>2. /\ rounds[m] <= MaxIterations
      /\ Told(m, "aborted") => rounds[m] = MaxIterations
  BY <1>1 DEF WithinLimit
<1>3. PICK k : k = cur.turn
  OBVIOUS
<1>4. CASE RunTools /\ k = m
  <2>1. /\ Begun(m) /\ ~ Closed(m) /\ m \notin silent /\ ~ Told(m, "aborted")
        /\ \/ /\ ~ (cur.calls > 0 /\ ~ Exceeded(iterations[Chat[m]] + 1)) /\ UNCHANGED rounds
           \/ /\ ~ Exceeded(iterations[Chat[m]] + 1)
              /\ rounds' = [rounds EXCEPT ![m] = rounds[m] + 1]
    BY <1>3, <1>4, RunToolsTurn
  <2>2. iterations[Chat[m]] = rounds[m] /\ rounds[m] \in Nat
    BY <1>1, <2>1, CountTypes DEF CountsOwn
  <2>3. Told(m, "aborted")' => cur.calls > 0 /\ Exceeded(rounds[m] + 1)
    BY <2>1, <2>2, ToldStep
  <2>4. CASE ~ Exceeded(rounds[m] + 1) /\ rounds' = [rounds EXCEPT ![m] = rounds[m] + 1]
    <3>1. rounds'[m] = rounds[m] + 1
      BY <2>4, CountTypes
    <3> QED BY <2>2, <2>3, <2>4, <3>1, PipelineConstants DEF Exceeded
  <2>5. CASE UNCHANGED rounds
    BY <1>2, <2>2, <2>3, <2>5, PipelineConstants DEF Exceeded
  <2> QED BY <2>1, <2>2, <2>4, <2>5
<1>5. CASE ~ (RunTools /\ k = m)
  <2>1. Told(m, "aborted")' => Told(m, "aborted")
    BY <1>3, <1>5, ToldStep
  <2>2. rounds'[m] = rounds[m]
    <3>1. CASE RunTools
      <4>1. k \in Messages /\ (UNCHANGED rounds \/ rounds' = [rounds EXCEPT ![k] = rounds[k] + 1])
        BY <1>3, <3>1, RunToolsTurn
      <4> QED BY <1>5, <3>1, <4>1, CountTypes
    <3>2. CASE ResetOnInbound \/ UNCHANGED rounds
      BY <3>2, ResetEffect
    <3> QED BY <3>1, <3>2, CountStep
  <2> QED BY <1>2, <2>1, <2>2
<1> QED BY <1>4, <1>5

LEMMA FiniteStep ==
    ASSUME TypeOK, TurnInv, [Next]_vars, IsFiniteSet(Sent)
    PROVE  IsFiniteSet(Sent')
<1>1. CASE \E n \in Messages : Send(n)
  <2>1. PICK n : Sent' = Sent \cup {n}
    BY <1>1, SendEffect
  <2> QED BY <2>1, FS_AddElement
<1>2. CASE UNCHANGED sent
  BY <1>2 DEF Sent
<1> QED BY <1>1, <1>2, SentStep

(* Of a finite set no more elements are counted than it has; as a part of  *)
(* it grows the number does.                                               *)
LEMMA PartsGrow ==
    ASSUME NEW U, IsFiniteSet(U), NEW S, NEW T, S \subseteq T, T \subseteq U
    PROVE  /\ Cardinality(S) \in Nat /\ Cardinality(T) \in Nat /\ Cardinality(U) \in Nat
           /\ Cardinality(S) <= Cardinality(T) /\ Cardinality(T) <= Cardinality(U)
           /\ \A k \in T : k \notin S => Cardinality(S) + 1 <= Cardinality(T)
<1>1. IsFiniteSet(T) /\ IsFiniteSet(S)
  BY FS_Subset
<1>2. /\ Cardinality(S) \in Nat /\ Cardinality(T) \in Nat /\ Cardinality(U) \in Nat
      /\ Cardinality(S) <= Cardinality(T) /\ Cardinality(T) <= Cardinality(U)
  BY <1>1, FS_Subset, FS_CardinalityType
<1>3. ASSUME NEW k \in T, k \notin S PROVE Cardinality(S) + 1 <= Cardinality(T)
  <2>1. Cardinality(S) # Cardinality(T)
    BY <1>1, <1>3, FS_Subset
  <2> QED BY <1>2, <2>1
<1> QED BY <1>2, <1>3

LEMMA ResetsGrow ==
    ASSUME TypeOK, TurnInv, [Next]_vars, IsFiniteSet(Sent), NEW m \in Messages
    PROVE  /\ Resets(m) \in Nat /\ Resets(m)' \in Nat /\ Resets(m) <= Resets(m)'
           /\ \A k \in Sent \ {m} :
                /\ Chat[k] = Chat[m]
                /\ (~ Begun(k) /\ Begun(k)') \/ (~ Closed(k) /\ Closed(k)')
                => Resets(m) + 1 <= Resets(m)'
<1>0. Sent \subseteq Messages
  BY DEF Sent, TypeOK
<1>1. Sent \subseteq Messages /\ Sent \subseteq Sent' /\ IsFiniteSet(Sent')
  BY <1>0, SentGrows, FiniteStep
<1>2. PICK B, C, Bn, Cn, U :
        /\ B = {k \in Others(m) : Begun(k)} /\ Bn = {k \in Others(m)' : Begun(k)'}
        /\ C = {k \in Others(m) : Closed(k)} /\ Cn = {k \in Others(m)' : Closed(k)'}
        /\ U = Sent'
  OBVIOUS
<1>3. ASSUME NEW k \in Messages
      PROVE  (Begun(k) => Begun(k)') /\ (Closed(k) => Closed(k)')
  <2>1. (Past(k, 1) => Past(k, 1)') /\ (Concluded(k, 1) => Concluded(k, 1)')
    BY PastStep, ConcludedStays
  <2> QED BY <2>1 DEF Begun, Closed
<1>4. Others(m) \subseteq Others(m)' /\ Others(m) \subseteq Sent /\ Others(m)' \subseteq Sent'
  BY <1>1 DEF Others
<1>5. B \subseteq Bn /\ C \subseteq Cn /\ Bn \subseteq U /\ Cn \subseteq U /\ IsFiniteSet(U)
  BY <1>1, <1>2, <1>3, <1>4
<1>6. Resets(m) = Cardinality(B) + Cardinality(C) /\ Resets(m)' = Cardinality(Bn) + Cardinality(Cn)
  BY <1>2 DEF Resets
<1>7. /\ Cardinality(B) \in Nat /\ Cardinality(Bn) \in Nat /\ Cardinality(B) <= Cardinality(Bn)
      /\ Cardinality(C) \in Nat /\ Cardinality(Cn) \in Nat /\ Cardinality(C) <= Cardinality(Cn)
  BY <1>5, PartsGrow
<1>8. ASSUME NEW k \in Sent \ {m}, Chat[k] = Chat[m],
             (~ Begun(k) /\ Begun(k)') \/ (~ Closed(k) /\ Closed(k)')
      PROVE  Resets(m) + 1 <= Resets(m)'
  <2>1. k \in Others(m) /\ k \in Others(m)'
    BY <1>4, <1>8 DEF Others
  <2>2. (k \in Bn /\ k \notin B) \/ (k \in Cn /\ k \notin C)
    BY <1>2, <1>8, <2>1
  <2>3. Cardinality(B) + 1 <= Cardinality(Bn) \/ Cardinality(C) + 1 <= Cardinality(Cn)
    BY <1>5, <2>2, PartsGrow
  <2> QED BY <1>6, <1>7, <2>3
<1> QED BY <1>6, <1>7, <1>8

LEMMA Products ==
    ASSUME NEW a \in Nat
    PROVE  \A x, y \in Nat : /\ x <= y => a * x <= a * y
                             /\ x + 1 <= y => a * x + a <= a * y
                             /\ a * x \in Nat
OBVIOUS

LEMMA ResetsCountedStep ==
    ASSUME TypeOK, TurnInv, [Next]_vars, HistoryInv, IsFiniteSet(Sent), NotBegun, ResetsCounted
    PROVE  ResetsCounted'
<1> SUFFICES ASSUME NEW m \in Messages
             PROVE  rounds'[m] <= MaxIterations * Resets(m)'
                                    + (IF Closed(m)' THEN MaxIterations ELSE iterations'[Chat[m]])
  BY DEF ResetsCounted
<1>1. PICK x, y : x = MaxIterations * Resets(m) /\ y = MaxIterations * Resets(m)'
  OBVIOUS
<1>2. /\ x \in Nat /\ y \in Nat /\ x <= y
      /\ \A k \in Sent \ {m} :
            /\ Chat[k] = Chat[m]
            /\ (~ Begun(k) /\ Begun(k)') \/ (~ Closed(k) /\ Closed(k)')
            => x + MaxIterations <= y
  BY <1>1, ResetsGrow, Products, PipelineConstants
<1>3. rounds[m] <= x + (IF Closed(m) THEN MaxIterations ELSE iterations[Chat[m]])
  BY <1>1 DEF ResetsCounted
<1>4. Closed(m) => Closed(m)'
  <2>1. Concluded(m, 1) => Concluded(m, 1)'
    BY ConcludedStays
  <2> QED BY <2>1 DEF Closed
<1>5. /\ rounds[m] \in Nat /\ iterations[Chat[m]] \in 0..MaxIterations /\ Chat[m] \in Chats
      /\ MaxIterations \in Nat
  BY CountTypes, PipelineConstants
<1>6. PICK k : k = cur.turn
  OBVIOUS
(* the count of the chat is as it was *)
<1>7. ASSUME rounds'[m] = rounds[m], iterations'[Chat[m]] = iterations[Chat[m]]
      PROVE  rounds'[m] <= y + (IF Closed(m)' THEN MaxIterations ELSE iterations'[Chat[m]])
  BY <1>2, <1>3, <1>4, <1>5, <1>7
(* another turn of the chat has reset it *)
<1>8. ASSUME rounds'[m] = rounds[m], iterations'[Chat[m]] = 0, x + MaxIterations <= y
      PROVE  rounds'[m] <= y + (IF Closed(m)' THEN MaxIterations ELSE iterations'[Chat[m]])
  BY <1>2, <1>3, <1>4, <1>5, <1>8
<1>9. CASE ResetOnInbound
  <2>1. /\ k \in Messages /\ k \in Sent /\ ~ Begun(k) /\ Begun(k)' /\ UNCHANGED rounds
        /\ iterations' = [iterations EXCEPT ![Chat[k]] = 0]
    BY <1>6, <1>9, ResetTurn
  <2>2. CASE k = m
    <3>1. rounds'[m] = 0 /\ iterations'[Chat[m]] = 0
      BY <2>1, <2>2, CountTypes DEF NotBegun
    <3> QED BY <1>1, <1>2, <1>5, <3>1
  <2>3. CASE k # m /\ Chat[k] = Chat[m]
    <3>1. x + MaxIterations <= y
      BY <1>2, <2>1, <2>3
    <3>2. iterations'[Chat[m]] = 0
      BY <2>1, <2>3, CountTypes
    <3> QED BY <1>1, <1>8, <2>1, <3>1, <3>2
  <2>4. CASE Chat[k] # Chat[m]
    <3>1. iterations'[Chat[m]] = iterations[Chat[m]]
      BY <1>5, <2>1, <2>4, CountTypes
    <3> QED BY <1>1, <1>7, <2>1, <3>1
  <2> QED BY <2>2, <2>3, <2>4
<1>10. CASE RunTools
  <2>0. PICK i, r : i = iterations[Chat[k]] + 1 /\ r = rounds[k] + 1
    OBVIOUS
  <2>1. /\ k \in Messages /\ k \in Sent /\ ~ Closed(k)
        /\ \/ /\ Closed(k)' /\ UNCHANGED rounds
              /\ iterations' = [iterations EXCEPT ![Chat[k]] = 0]
           \/ /\ iterations' = [iterations EXCEPT ![Chat[k]] = i] /\ ~ Exceeded(i)
              /\ rounds' = [rounds EXCEPT ![k] = r]
    BY <1>6, <1>10, <2>0, RunToolsTurn
  <2>2. CASE k = m /\ Closed(k)' /\ UNCHANGED rounds
    BY <1>1, <1>2, <1>3, <1>5, <2>2
  <2>3. CASE k = m /\ rounds' = [rounds EXCEPT ![k] = r] /\ ~ Exceeded(i)
                  /\ iterations' = [iterations EXCEPT ![Chat[k]] = i]
    <3>1. rounds'[m] = rounds[m] + 1 /\ iterations'[Chat[m]] = iterations[Chat[m]] + 1
      BY <2>0, <2>3, CountTypes
    <3>2. iterations[Chat[m]] + 1 <= MaxIterations
      BY <1>5, <2>0, <2>3 DEF Exceeded
    <3> QED BY <1>1, <1>2, <1>3, <1>5, <2>1, <2>3, <3>1, <3>2
  <2>4. CASE k # m /\ Chat[k] = Chat[m]
    <3>1. rounds'[m] = rounds[m]
      BY <2>1, <2>4, CountTypes
    <3>2. CASE Closed(k)' /\ iterations' = [iterations EXCEPT ![Chat[k]] = 0]
      <4>1. x + MaxIterations <= y
        BY <1>2, <2>1, <2>4, <3>2
      <4>2. iterations'[Chat[m]] = 0
        BY <2>1, <2>4, <3>2, CountTypes
      <4> QED BY <1>1, <1>8, <3>1, <4>1, <4>2
    <3>3. CASE iterations' = [iterations EXCEPT ![Chat[k]] = i] /\ ~ Exceeded(i)
      <4>1. iterations'[Chat[m]] = iterations[Chat[m]] + 1
        BY <2>0, <2>1, <2>4, <3>3, CountTypes
      <4>2. iterations[Chat[m]] + 1 <= MaxIterations
        BY <1>5, <2>0, <2>4, <3>3 DEF Exceeded
      <4> QED BY <1>1, <1>2, <1>3, <1>4, <1>5, <3>1, <4>1, <4>2
    <3> QED BY <2>1, <3>2, <3>3
  <2>5. CASE Chat[k] # Chat[m]
    <3>1. k # m /\ rounds'[m] = rounds[m]
      BY <2>1, <2>5, CountTypes
    <3>2. iterations'[Chat[m]] = iterations[Chat[m]]
      BY <1>5, <2>1, <2>5, CountTypes
    <3> QED BY <1>1, <1>7, <3>1, <3>2
  <2> QED BY <2>1, <2>2, <2>3, <2>4, <2>5
<1>11. CASE UNCHANGED <<iterations, rounds>>
  BY <1>1, <1>7, <1>11
<1> QED BY <1>9, <1>10, <1>11, CountStep

LEMMA RoundsInit == Init => RoundsInv
<1> SUFFICES ASSUME Init PROVE RoundsInv
  OBVIOUS
<1>1. /\ DOMAIN sent = {} /\ DOMAIN queue = {} /\ DOMAIN delivered = {} /\ DOMAIN out = {}
      /\ cur = None /\ \A m \in Messages : rounds[m] = 0
  BY Singles DEF Init
<1>2. Sent = {} /\ Queued = {} /\ Owed = {} /\ Given = {}
  BY <1>1 DEF Sent, Queued, Owed, Given
<1>3. \A m \in Messages : ~ Begun(m) /\ ~ Closed(m) /\ ~ Told(m, "aborted")
  BY <1>1, <1>2 DEF Begun, Past, Closed, Concluded, Told
<1>4. IsFiniteSet(Sent)
  BY <1>2, FS_EmptySet
<1>5. ASSUME NEW m \in Messages PROVE rounds[m] <= MaxIterations * Resets(m) + iterations[Chat[m]]
  <2>1. {k \in Others(m) : Begun(k)} = {} /\ {k \in Others(m) : Closed(k)} = {}
    BY <1>2 DEF Others
  <2>2. Resets(m) = 0
    BY <2>1, FS_EmptySet DEF Resets
  <2>3. iterations[Chat[m]] = 0
    BY PipelineConstants DEF Init
  <2> QED BY <1>1, <2>2, <2>3, PipelineConstants
<1> QED BY <1>1, <1>3, <1>4, <1>5, PipelineConstants
        DEF RoundsInv, OpenTogether, NotBegun, CountsOwn, WithinLimit, ResetsCounted

LEMMA RoundsInvariance == Spec => [](TypeOK /\ TurnInv /\ HistoryInv /\ RoundsInv)
<1>1. Init => RoundsInv
  BY RoundsInit
<1>2. TypeOK /\ TurnInv /\ HistoryInv /\ RoundsInv /\ [Next]_vars => RoundsInv'
  <2> SUFFICES ASSUME TypeOK, TurnInv, HistoryInv, RoundsInv, [Next]_vars PROVE RoundsInv'
    OBVIOUS
  <2> QED BY FiniteStep, OpenTogetherStep, NotBegunStep, CountsOwnStep, WithinLimitStep,
             ResetsCountedStep DEF RoundsInv
<1> QED BY <1>1, <1>2, HistoryInvariance, PTL DEF Spec

(* A turn during which nothing else was said in its chat has its full      *)
(* number of tool rounds and no more, whatever the chat's count was left   *)
(* at (tool_executor.rs): the count of its chat is its own.                *)
THEOREM LoneTurnsHaveTheirRounds == Spec => []LoneTurnHasItsRounds
<1>1. TypeOK /\ RoundsInv => LoneTurnHasItsRounds
  <2> SUFFICES ASSUME TypeOK, RoundsInv, NEW m \in Messages \ overlapped
               PROVE  rounds[m] <= MaxIterations /\ (Aborted(m) => rounds[m] = MaxIterations)
    BY DEF LoneTurnHasItsRounds
  <2>1. Aborted(m) => Told(m, "aborted")
    BY DEF Aborted, Deliveries, Told, Given
  <2> QED BY <2>1 DEF RoundsInv, WithinLimit
<1> QED BY <1>1, RoundsInvariance, PTL

(* The other turns of a chat reset its count under a turn that calls tools *)
(* as they begin and as they are closed, each twice at most, and so bound  *)
(* its rounds (tool_executor.rs).                                          *)
THEOREM ToolLoopsEnd == Spec => []ToolLoopFinite
<1>1. TypeOK /\ RoundsInv => ToolLoopFinite
  <2> SUFFICES ASSUME TypeOK, RoundsInv, NEW m \in Messages, NEW o, o = Cardinality(Others(m))
               PROVE  rounds[m] <= MaxIterations * (2 * o + 1)
    BY DEF ToolLoopFinite, Others
  <2>1. PICK B, C, U : /\ B = {k \in Others(m) : Begun(k)} /\ C = {k \in Others(m) : Closed(k)}
                       /\ U = Others(m)
    OBVIOUS
  <2>2. IsFiniteSet(U)
    <3>1. U \in SUBSET Sent
      BY <2>1 DEF Others
    <3> QED BY <3>1, FS_Subset DEF RoundsInv
  <2>3. /\ Cardinality(B) \in Nat /\ Cardinality(C) \in Nat /\ o \in Nat
        /\ Cardinality(B) <= o /\ Cardinality(C) <= o
    BY <2>1, <2>2, PartsGrow
  <2>4. Resets(m) = Cardinality(B) + Cardinality(C)
    BY <2>1 DEF Resets
  <2>5. PICK x, y : x = Resets(m) /\ y = 2 * o + 1
    OBVIOUS
  <2>6. x \in Nat /\ y \in Nat /\ x + 1 <= y
    BY <2>3, <2>4, <2>5
  <2>7. MaxIterations * x + MaxIterations <= MaxIterations * y /\ MaxIterations * x \in Nat
        /\ MaxIterations * y \in Nat
    BY <2>6, Products, PipelineConstants
  <2>8. rounds[m] <= MaxIterations * x + (IF Closed(m) THEN MaxIterations ELSE iterations[Chat[m]])
    BY <2>5 DEF RoundsInv, ResetsCounted
  <2>9. rounds[m] \in Nat /\ iterations[Chat[m]] \in 0..MaxIterations /\ MaxIterations \in Nat
    BY CountTypes, PipelineConstants
  <2>10. rounds[m] <= MaxIterations * y
    BY <2>7, <2>8, <2>9
  <2> QED BY <2>5, <2>10
<1> QED BY <1>1, RoundsInvariance, PTL
=============================================================================
