--------------------------- MODULE SpinePipeline ---------------------------
(***************************************************************************)
(* The conversational spine: crates/radix-core/src/spine/pipeline.rs, the  *)
(* procedures spine/runtime.rs registers in it and the reactive registry   *)
(* spine/reactive.rs.                                                      *)
(*                                                                         *)
(* One event loop takes events from a bounded channel and hands each to    *)
(* the procedures that handle its type, in the order of registration; what *)
(* a procedure emits goes to the back of the same channel, which only the  *)
(* loop drains.  Channel adapters send messages into it at any time.  The  *)
(* router awaits a decision of `.px` procedures that run on tasks of their *)
(* own, or a timeout.                                                      *)
(*                                                                         *)
(* An event carries no link to the message it descends from; `turn` is     *)
(* that link, for the properties only.                                     *)
(***************************************************************************)
EXTENDS Naturals, Sequences, FiniteSets

CONSTANTS
    Messages,       \* inbound messages (event ids)
    Chats,
    Chat,           \* [Messages -> Chats]: the chat_id of a message
    Triggers,       \* `.px` procedures registered under "inbound:*"
    Capacity,       \* of the event channel
    MaxIterations,  \* ToolExecutor::max_iterations
    MaxCalls,       \* the most tool calls in one response
    MaxRounds,      \* bound of the model: requests for tools a turn makes
    None            \* the absent value

ASSUME PipelineConstants ==
    /\ Chat \in [Messages -> Chats]
    /\ Capacity \in Nat \ {0}
    /\ MaxIterations \in Nat
    /\ MaxCalls \in Nat \ {0}
    /\ MaxRounds \in Nat

VARIABLES
    queue,      \* the event channel
    cur,        \* the event in dispatch
    todo,       \* the procedures still to see it
    out,        \* what the running procedure has yet to emit
    routing,    \* where InboundRouter::handle stands
    inbox,      \* the oneshot the router awaits
    waiters,    \* messages whose route_decision has a waiter registered
    spawned,    \* `.px` executions on their way
    iterations, \* [Chats -> Nat], chat_states of ToolExecutor
    history,    \* [Chats -> Seq], the conversation store
    sent,       \* messages the adapters have put into the channel, in order
    overlapped, \* messages sent to a chat, or joined there, during a turn
    decided,    \* messages some execution has decided
    silent,     \* messages left to `.px` to answer
    delivered,  \* deliveries broadcast, in order
    rounds      \* [Messages -> Nat]: tool rounds executed for a turn

loopVars == <<queue, cur, todo, out>>
routerVars == <<routing, inbox, waiters, spawned, decided, silent>>
ghosts == <<sent, overlapped, delivered, rounds>>
vars == <<loopVars, routerVars, iterations, history, ghosts>>

----------------------------------------------------------------------------
(* Events.  A response says how many tools it calls and whether it has any *)
(* text; a request whether it continues a tool loop; a delivery what it is *)
(* ("empty" is an answer without text) and where it goes: to the turn's    *)
(* own channel or to "system".                                             *)
Inbound(m) == [type |-> "inbound", turn |-> m]
ModelRequest(m, by) == [type |-> "model_request", turn |-> m, by |-> by]
ModelResponse(m, calls, text) ==
    [type |-> "model_response", turn |-> m, calls |-> calls, text |-> text]
ToolResult(m) == [type |-> "tool_result", turn |-> m]
DeliveryRequest(m, what, channel) ==
    [type |-> "delivery_request", turn |-> m, what |-> what, channel |-> channel]

SpineEvent ==
    {Inbound(m) : m \in Messages}
    \cup {ModelRequest(m, by) : m \in Messages, by \in {"inbound_router", "tool_executor"}}
    \cup {ModelResponse(m, k, t) : m \in Messages, k \in 0..MaxCalls, t \in BOOLEAN}
    \cup {ToolResult(m) : m \in Messages}
    \cup {DeliveryRequest(m, w, c) :
            m \in Messages, w \in {"answer", "empty", "error", "aborted"},
            c \in {"source", "system"}}

ASSUME NoneIsNoEvent == None \notin SpineEvent
ASSUME NoneIsNoDecision == None \notin {"conversation", "procedural"}

(* The procedures that handle an event type, in order of registration.     *)
(* CommitmentDetector, which only writes tasks, is left out.               *)
Handlers(type) ==
    CASE type = "inbound" -> <<"inbound_router", "history_recorder", "tool_executor">>
      [] type = "model_request" -> <<"model_invoker">>
      [] type = "model_response" -> <<"history_recorder", "tool_executor", "response_router">>
      [] OTHER -> <<>>

Init ==
    /\ queue = <<>> /\ cur = None /\ todo = <<>> /\ out = <<>>
    /\ routing = "none" /\ inbox = None /\ waiters = {} /\ spawned = {}
    /\ iterations = [c \in Chats |-> 0]
    /\ history = [c \in Chats |-> <<>>]
    /\ decided = {} /\ silent = {}
    /\ sent = <<>> /\ overlapped = {}
    /\ delivered = <<>>
    /\ rounds = [m \in Messages |-> 0]

----------------------------------------------------------------------------
(* The channel and the loop: Pipeline::run, PipelineEmitter::emit.         *)

Room == Len(queue) < Capacity

Sent == {sent[i] : i \in DOMAIN sent}

(* The turn of m is over: it was answered, or left to `.px`.               *)
Ended(m) == m \in silent \/ \E i \in DOMAIN delivered : delivered[i].turn = m

(* An adapter, or the task dispatcher, sends a message; the send waits     *)
(* while the channel is full.                                              *)
Send(m) ==
    /\ m \notin Sent
    /\ Room
    /\ queue' = Append(queue, Inbound(m))
    /\ sent' = Append(sent, m)
    /\ LET open == {k \in Sent : Chat[k] = Chat[m] /\ ~ Ended(k)}
       IN overlapped' = overlapped \cup open \cup (IF open = {} THEN {} ELSE {m})
    /\ UNCHANGED <<cur, todo, out, routerVars, iterations, history, delivered, rounds>>

(* recv; a delivery is broadcast to the adapters at once.                  *)
Receive ==
    /\ cur = None
    /\ queue # <<>>
    /\ cur' = Head(queue)
    /\ queue' = Tail(queue)
    /\ todo' = Handlers(Head(queue).type)
    /\ delivered' = IF Head(queue).type = "delivery_request"
                    THEN Append(delivered, Head(queue)) ELSE delivered
    /\ UNCHANGED <<out, routerVars, iterations, history, sent, overlapped, rounds>>

(* The running procedure awaits a place in the channel.                    *)
Emit ==
    /\ out # <<>>
    /\ Room
    /\ queue' = Append(queue, Head(out))
    /\ out' = Tail(out)
    /\ UNCHANGED <<cur, todo, routerVars, iterations, history, ghosts>>

(* Procedure p is the next to see the event, which is of this type.        *)
Turn(p, type) ==
    /\ cur # None /\ cur.type = type
    /\ todo # <<>> /\ Head(todo) = p
    /\ out = <<>>

(* The procedure is done but for emitting these events.                    *)
Done(events) ==
    /\ todo' = Tail(todo)
    /\ out' = events
    /\ UNCHANGED <<queue, cur>>

(* on_write: one execution for each procedure that matches the key.  `by`  *)
(* tells the router's own write of "inbound:{id}" from the loop's.         *)
Fire(m, by) == spawned' = spawned \cup {[proc |-> p, turn |-> m, by |-> by] : p \in Triggers}

(* After the procedures the loop writes the event to the registry itself.  *)
Finish ==
    /\ cur # None
    /\ todo = <<>> /\ out = <<>>
    /\ IF cur.type = "inbound" THEN Fire(cur.turn, "loop") ELSE UNCHANGED spawned
    /\ cur' = None
    /\ UNCHANGED <<queue, todo, out, routing, inbox, waiters, decided, silent,
                   iterations, history, ghosts>>

----------------------------------------------------------------------------
(* InboundRouter::handle.                                                  *)

(* Mutant: fires the write before it subscribes.                           *)
FireFirst ==
    /\ Turn("inbound_router", "inbound")
    /\ \/ /\ routing = "none"
          /\ Fire(cur.turn, "router")
          /\ routing' = "subscribed"
          /\ UNCHANGED waiters
       \/ /\ routing = "subscribed"
          /\ waiters' = waiters \cup {cur.turn}
          /\ routing' = "waiting"
          /\ UNCHANGED spawned
    /\ UNCHANGED <<loopVars, inbox, decided, silent, iterations, history, ghosts>>

(* It subscribes to the decision before the write that triggers it.        *)
SubscribeThenFire ==
    /\ Turn("inbound_router", "inbound")
    /\ \/ /\ routing = "none"
          /\ waiters' = waiters \cup {cur.turn}
          /\ routing' = "subscribed"
          /\ UNCHANGED spawned
       \/ /\ routing = "subscribed"
          /\ Fire(cur.turn, "router")
          /\ routing' = "waiting"
          /\ UNCHANGED waiters
    /\ UNCHANGED <<loopVars, inbox, decided, silent, iterations, history, ghosts>>

EndRouting(events) ==
    /\ Done(events)
    /\ routing' = "none"
    /\ inbox' = None
    /\ UNCHANGED <<waiters, spawned, decided, iterations, history, ghosts>>

(* The decision came: `.px` answers by itself, or the model is asked.      *)
Route ==
    /\ routing = "waiting" /\ inbox # None
    /\ IF inbox = "procedural"
       THEN /\ silent' = silent \cup {cur.turn}
            /\ EndRouting(<<>>)
       ELSE /\ UNCHANGED silent
            /\ EndRouting(<<ModelRequest(cur.turn, "inbound_router")>>)

(* Mutant: the router waits for a decision without a timeout.              *)
WaitForEver == FALSE

(* The timeout: the model is asked.  The waiter stays in the registry.     *)
FallBack ==
    /\ routing = "waiting" /\ inbox = None
    /\ UNCHANGED silent
    /\ EndRouting(<<ModelRequest(cur.turn, "inbound_router")>>)

(* A `.px` execution ends: without a result, or with a decision, which     *)
(* goes to whoever still waits for it (execute_triggered).                 *)
Execute(x) ==
    /\ spawned' = spawned \ {x}
    /\ \/ UNCHANGED <<inbox, waiters, decided>>
       \/ \E destination \in {"conversation", "procedural"} :
            /\ decided' = decided \cup {x.turn}
            /\ waiters' = waiters \ {x.turn}
            /\ inbox' = IF x.turn \in waiters /\ routing # "none" /\ cur.turn = x.turn
                        THEN destination ELSE inbox
    /\ UNCHANGED <<loopVars, routing, silent, iterations, history, ghosts>>

----------------------------------------------------------------------------
(* The other procedures.                                                   *)

Remember(entry) ==
    history' = [history EXCEPT ![Chat[cur.turn]] = Append(@, entry)]

(* HistoryRecorder: the user's message, and the model's final answer if it *)
(* has any text.                                                           *)
RecordInbound ==
    /\ Turn("history_recorder", "inbound")
    /\ Remember(<<"user", cur.turn>>)
    /\ Done(<<>>)
    /\ UNCHANGED <<routerVars, iterations, ghosts>>

(* Mutant: records a final answer even if it is empty.                     *)
AnyFinal(response) == response.calls = 0

Recordable(response) == response.calls = 0 /\ response.text

RecordResponse ==
    /\ Turn("history_recorder", "model_response")
    /\ IF Recordable(cur) THEN Remember(<<"assistant", cur.turn>>) ELSE UNCHANGED history
    /\ Done(<<>>)
    /\ UNCHANGED <<routerVars, iterations, ghosts>>

(* ModelInvoker: the model answers, with or without text, calls tools, or  *)
(* fails for good.  As the store holds at least the user's message there   *)
(* always is something to send.                                            *)
Invoke ==
    /\ Turn("model_invoker", "model_request")
    /\ \E reply \in {ModelResponse(cur.turn, k, t) :
                        k \in IF rounds[cur.turn] < MaxRounds THEN 0..MaxCalls ELSE {0},
                        t \in BOOLEAN}
                    \cup {DeliveryRequest(cur.turn, "error", "source")} :
         Done(<<reply>>)
    /\ UNCHANGED <<routerVars, iterations, history, ghosts>>

(* Mutant: an inbound message does not start the count over.               *)
KeepCount ==
    /\ Turn("tool_executor", "inbound")
    /\ Done(<<>>)
    /\ UNCHANGED <<routerVars, iterations, history, ghosts>>

(* ToolExecutor: a message resets the state of its chat.                   *)
ResetOnInbound ==
    /\ Turn("tool_executor", "inbound")
    /\ iterations' = [iterations EXCEPT ![Chat[cur.turn]] = 0]
    /\ Done(<<>>)
    /\ UNCHANGED <<routerVars, history, ghosts>>

(* Mutant: the limit is off by one.                                        *)
OneMore(n) == n > MaxIterations + 1

Exceeded(n) == n > MaxIterations

(* ToolExecutor on a response: a final answer resets the chat; one more    *)
(* round than allowed aborts the loop, with a delivery to the channel      *)
(* "system", and resets; else every call is made and the model is asked    *)
(* again.                                                                  *)
RunTools ==
    /\ Turn("tool_executor", "model_response")
    /\ LET m == cur.turn
           n == iterations[Chat[m]] + 1
       IN \/ /\ cur.calls = 0
             /\ iterations' = [iterations EXCEPT ![Chat[m]] = 0]
             /\ Done(<<>>)
             /\ UNCHANGED rounds
          \/ /\ cur.calls > 0 /\ Exceeded(n)
             /\ iterations' = [iterations EXCEPT ![Chat[m]] = 0]
             /\ Done(<<DeliveryRequest(m, "aborted", "system")>>)
             /\ UNCHANGED rounds
          \/ /\ cur.calls > 0 /\ ~ Exceeded(n)
             /\ iterations' = [iterations EXCEPT ![Chat[m]] = n]
             /\ Done([i \in 1..cur.calls |-> ToolResult(m)]
                     \o <<ModelRequest(m, "tool_executor")>>)
             /\ rounds' = [rounds EXCEPT ![m] = @ + 1]
    /\ UNCHANGED <<routerVars, history, sent, overlapped, delivered>>

(* Mutant: delivers the text of a response that also calls tools.          *)
DeliverAny(calls) == TRUE

Deliverable(calls) == calls = 0

(* ResponseRouter: a final answer, even one without text, goes to the      *)
(* channel its message came from.                                          *)
RouteResponse ==
    /\ Turn("response_router", "model_response")
    /\ LET what == IF cur.text THEN "answer" ELSE "empty"
       IN Done(IF Deliverable(cur.calls) THEN <<DeliveryRequest(cur.turn, what, "source")>>
               ELSE <<>>)
    /\ UNCHANGED <<routerVars, iterations, history, ghosts>>

Loop ==
    \/ Receive
    \/ Emit
    \/ SubscribeThenFire
    \/ Route
    \/ RecordInbound
    \/ RecordResponse
    \/ Invoke
    \/ ResetOnInbound
    \/ RunTools
    \/ RouteResponse
    \/ Finish

Next ==
    \/ \E m \in Messages : Send(m)
    \/ Loop
    \/ FallBack
    \/ \E x \in spawned : Execute(x)

Spec == Init /\ [][Next]_vars

(* The loop runs whenever it can, the router's timer ends, executions end. *)
FairSpec ==
    Spec /\ WF_vars(Loop) /\ WF_vars(FallBack) /\ WF_vars(\E x \in spawned : Execute(x))
----------------------------------------------------------------------------
(* Properties.                                                             *)

Entries == {"user", "assistant"} \X Messages

(* Every variable keeps its shape, the channel its capacity, and a chat    *)
(* never counts more tool rounds than the limit.                           *)
TypeOK ==
    /\ queue \in Seq(SpineEvent) /\ Len(queue) <= Capacity
    /\ cur \in SpineEvent \cup {None}
    /\ todo \in Seq({"inbound_router", "history_recorder", "tool_executor",
                      "model_invoker", "response_router"})
    /\ out \in Seq(SpineEvent)
    /\ cur = None => todo = <<>> /\ out = <<>>
    /\ routing \in {"none", "subscribed", "waiting"}
    /\ routing # "none" => Turn("inbound_router", "inbound")
    /\ inbox \in {None, "conversation", "procedural"}
    /\ waiters \subseteq Messages
    /\ spawned \subseteq [proc : Triggers, turn : Messages, by : {"router", "loop"}]
    /\ iterations \in [Chats -> 0..MaxIterations]
    /\ history \in [Chats -> Seq(Entries)]
    /\ sent \in Seq(Messages) /\ overlapped \subseteq Messages
    /\ decided \subseteq Messages /\ silent \subseteq Messages
    /\ delivered \in Seq(SpineEvent)
    /\ rounds \in [Messages -> Nat]

Deliveries(m) == {i \in DOMAIN delivered : delivered[i].turn = m}

(* A message is answered at most once, and not at all by the model's path  *)
(* if `.px` took it over: of all the procedures that see its events only   *)
(* one ends its turn, however often the decision's trigger fires and       *)
(* however late it ends (inbound_router.rs, response_router.rs,            *)
(* tool_executor.rs, model_invoker.rs).                                    *)
AnsweredOnce ==
    \A m \in Messages : Cardinality(Deliveries(m)) <= IF m \in silent THEN 0 ELSE 1

(* A decision taken while, or before, the router waits for it reaches it,  *)
(* although the procedure that takes it runs on a task of its own          *)
(* (inbound_router.rs "Subscribe BEFORE write so we don't miss").          *)
DecisionNotMissed == routing = "waiting" /\ cur.turn \in decided => inbox # None

Recorded(who, m) ==
    \E i \in DOMAIN history[Chat[m]] : history[Chat[m]][i] = <<who, m>>

(* The store holds what was sent to a chat, each message once, in the      *)
(* order of arrival and leaving none out, each answer once and after its   *)
(* message; the model is not asked about a message before the store has    *)
(* it.  Of the turns that ended in a delivery the store holds an answer    *)
(* exactly if what was delivered is an answer with text: no aborted tool   *)
(* loop, model error or empty answer leaves one (history_recorder.rs; the  *)
(* router emits its request before the recorder sees the message, and the  *)
(* recorder and the response router judge the same response apart).        *)
HistoryFaithful ==
    /\ \A c \in Chats : \A i, j \in DOMAIN history[c] :
        LET e == history[c][i]
        IN /\ e[2] \in Sent /\ Chat[e[2]] = c
           /\ e = history[c][j] => i = j
           /\ e[1] = "user" /\ e[2] = history[c][j][2] => i <= j
    /\ \A a, b \in DOMAIN sent :
        LET said == history[Chat[sent[b]]]
        IN a < b /\ Chat[sent[a]] = Chat[sent[b]] =>
            \A j \in DOMAIN said : said[j] = <<"user", sent[b]>> =>
                \E i \in 1..j : said[i] = <<"user", sent[a]>>
    /\ cur # None /\ cur.type = "model_request" => Recorded("user", cur.turn)
    /\ \A i \in DOMAIN delivered :
        delivered[i].what = "answer" <=> Recorded("assistant", delivered[i].turn)

Aborted(m) == \E i \in Deliveries(m) : delivered[i].what = "aborted"

(* A turn during which nothing else was said in its chat has its full      *)
(* number of tool rounds, whatever earlier turns left in the chat's count, *)
(* and no more (tool_executor.rs).                                         *)
LoneTurnHasItsRounds ==
    \A m \in Messages \ overlapped :
        /\ rounds[m] <= MaxIterations
        /\ Aborted(m) => rounds[m] = MaxIterations

(* Other turns of the chat reset the count under a turn that is still      *)
(* calling tools, at most twice each, so its loop does end.                *)
ToolLoopFinite ==
    \A m \in Messages :
        LET others == {k \in Sent \ {m} : Chat[k] = Chat[m]}
        IN rounds[m] <= MaxIterations * (2 * Cardinality(others) + 1)

(* In a channel that holds all that the turns under way can emit at once,  *)
(* every message sent is answered, or left to `.px`.                       *)
EveryTurnEnds == \A m \in Messages : m \in Sent ~> Ended(m)

(* "How many tool-loop iterations have occurred in the current turn"       *)
(* (tool_executor.rs, ChatLoopState::iterations) is limited: no turn runs  *)
(* more tool rounds than max_iterations.                                   *)
ToolRoundsBounded == \A m \in Messages : rounds[m] <= MaxIterations

(* "The graph runs to quiescence" (praxis/spine/spine.px): whatever has    *)
(* been sent, the loop gets back to an empty channel.                      *)
RunsToQuiescence == []<>(queue = <<>> /\ cur = None)

(* "response goes back to same channel/chat" (ADR-0001): whatever ends the *)
(* turn of a message is delivered to the channel the message came from.    *)
EndsOnItsChannel == \A i \in DOMAIN delivered : delivered[i].channel = "source"

(* "Prior conversation history" (model_invoker.rs): what the store holds   *)
(* when the model is asked about a message was said before that message,   *)
(* which follows it in the prompt.                                         *)
HistoryIsPrior ==
    cur # None /\ cur.type = "model_request" /\ cur.by = "inbound_router" =>
        \A i \in DOMAIN history[Chat[cur.turn]] :
            \E j, k \in DOMAIN sent :
                j < k /\ sent[j] = history[Chat[cur.turn]][i][2] /\ sent[k] = cur.turn
=============================================================================
