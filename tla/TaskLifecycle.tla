--------------------------- MODULE TaskLifecycle ---------------------------
(***************************************************************************)
(* The agent's tasks: crates/radix-core/src/task_manager.rs, and those who *)
(* write to it, the task tools of the model (tools/task_registry.rs), the  *)
(* autonomous dispatch (spine/task_dispatch_actions.rs, task_executor.rs)  *)
(* and the end of a sub-agent (spine/subagent_actor.rs).                   *)
(*                                                                         *)
(* Every method of the manager loads a task, changes its copy and stores   *)
(* the copy whole, without comparing: calls overlap in between.  Which     *)
(* task a dispatch takes is decided by a .px procedure; here it may take   *)
(* any of those it has read.                                               *)
(***************************************************************************)
EXTENDS Naturals, FiniteSets

CONSTANTS
    Tasks,       \* ids, fresh when a task is created
    Callers,     \* calls that may be under way at once
    Conditions,  \* completion conditions of a task
    AckConditions, \* those of them that the requester acknowledges
    MaxAttempts, \* bound of the model: evaluations recorded for a task
    None

ASSUME TaskConstants ==
    /\ AckConditions \subseteq Conditions /\ MaxAttempts \in Nat
    /\ IsFiniteSet(Callers)

VARIABLES
    store,       \* task:*, [Tasks -> Task or None]
    call,        \* [Callers -> Call]
    final,       \* tasks closed by a call that no other overlapped
    marks        \* [Tasks -> marks stored so far]

vars == <<store, call, final, marks>>

(* Ended is Failed or Cancelled; Blocked and Delegated are set by nobody.   *)
Terminal == {"Completed", "Ended"}
Statuses == {"Open", "InProgress"} \cup Terminal
Condition == {"absent", "unsatisfied", "satisfied"}
Task == [status : Statuses, attempts : 0..MaxAttempts, conditions : [Conditions -> Condition],
         parent : Tasks \cup {None}, subtasks : SUBSET Tasks]

ASSUME NoneIsNoTask == None \notin Task

(* One method of the manager on a loaded copy.                             *)
Touch == "set_priority, update_description"
Methods == {"complete", "fail, cancel", "satisfy", "check", "mark", "evaluate", Touch}

Idle == [op |-> "idle"]

(* A call under way: between its load and its store it has a copy.         *)
Copying == {"subtask", "link"} \cup Methods
Call ==
    [op : {"idle"}]
    \cup [op : Copying, task : Tasks, copy : Task]
    \cup [op : {"reload", "emit"}, task : Tasks]
    \cup [op : {"dispatch"}, seen : SUBSET Tasks]

Init ==
    /\ store = [t \in Tasks |-> None]
    /\ call = [c \in Callers |-> Idle]
    /\ final = {}
    /\ marks = [t \in Tasks |-> 0]

Stored == {t \in Tasks : store[t] # None}
Goto(c, next) == call' = [call EXCEPT ![c] = next]
Return(c) == Goto(c, Idle)

(* Tasks a call has read and may write to.                                 *)
Holds(c) ==
    CASE call[c].op = "idle" -> {}
      [] call[c].op = "dispatch" -> call[c].seen
      [] OTHER -> {call[c].task}

NoConditions == [k \in Conditions |-> "absent"]

NewTask(conditions, parent) ==
    [status |-> "Open", attempts |-> 0, conditions |-> conditions,
     parent |-> parent, subtasks |-> {}]

----------------------------------------------------------------------------
(* create_task: the model's task_create, a commitment found in an answer.  *)
CreateTask(t) ==
    /\ t \notin Stored /\ \A c \in Callers : t \notin Holds(c)
    /\ \E conditions \in [Conditions -> Condition \ {"satisfied"}] :
         store' = [store EXCEPT ![t] = NewTask(conditions, None)]
    /\ UNCHANGED <<call, final, marks>>

(* Mutant: the parent is stored first.                                     *)
ParentFirst(c, t, p, copy) ==
    /\ store' = [store EXCEPT ![p] = [copy EXCEPT !.subtasks = @ \cup {t}]]
    /\ Goto(c, [op |-> "link", task |-> t, copy |-> NewTask(NoConditions, p)])

(* The subtask is stored first, then the copy of the parent.               *)
SubtaskFirst(c, t, p, copy) ==
    /\ store' = [store EXCEPT ![t] = NewTask(NoConditions, p)]
    /\ Goto(c, [op |-> "link", task |-> p,
                copy |-> [copy EXCEPT !.subtasks = @ \cup {t}]])

LoadParent(c, p) ==
    /\ call[c] = Idle /\ p \in Stored
    /\ Goto(c, [op |-> "subtask", task |-> p, copy |-> store[p]])
    /\ UNCHANGED <<store, final, marks>>

CreateSubtask(c, t) ==
    /\ call[c].op = "subtask"
    /\ t \notin Stored /\ \A d \in Callers : t \notin Holds(d)
    /\ SubtaskFirst(c, t, call[c].task, call[c].copy)
    /\ UNCHANGED <<final, marks>>

LinkParent(c) ==
    /\ call[c].op = "link"
    /\ store' = [store EXCEPT ![call[c].task] = call[c].copy]
    /\ Return(c)
    /\ UNCHANGED <<final, marks>>

----------------------------------------------------------------------------
(* Load, change, store.                                                    *)

Having(r, state) == {k \in Conditions : r.conditions[k] = state}

(* all_conditions_satisfied: there is one, and none is open.               *)
AllSatisfied(r) == Having(r, "satisfied") # {} /\ Having(r, "unsatisfied") = {}

Satisfy(r, ks) ==
    [r EXCEPT !.conditions = [k \in Conditions |->
        IF k \in ks \ Having(r, "absent") THEN "satisfied" ELSE r.conditions[k]]]

(* Mutant: whatever has become of the task.                                *)
AllTasks == Stored

Evaluable == {t \in Stored : store[t].status \in {"Open", "InProgress"}}

(* Mutant: every attempt counts twice, as one retry and one evaluation.    *)
CountTwice(r) == r.attempts + 2

Counted(r) == r.attempts + 1

(* What a method makes of the copy.                                        *)
Changed(method, r) ==
    CASE method = "complete" -> [Satisfy(r, AckConditions) EXCEPT !.status = "Completed"]
      [] method = "fail, cancel" -> [r EXCEPT !.status = "Ended"]
      [] method = "mark" -> [r EXCEPT !.status = "InProgress"]
      [] method = "evaluate" -> [r EXCEPT !.attempts = Counted(r)]
      [] method = "check" -> [r EXCEPT !.status = "Completed"]
      [] OTHER -> r

Load(c, method, t) == Goto(c, [op |-> method, task |-> t, copy |-> store[t]])

(* Calls of the tools and of the manager's users.  complete_task by the    *)
(* model resolves the id first: any task by its id, one still to be done   *)
(* by the beginning of it; both find the task here.                        *)
Begin(c, t) ==
    /\ call[c] = Idle /\ t \in Stored
    /\ \E method \in {"complete", "fail, cancel", "satisfy", Touch} :
         /\ method = "satisfy" => Having(store[t], "absent") # Conditions
         /\ Load(c, method, t)
    /\ UNCHANGED <<store, final, marks>>

(* check_completion stores only what it found satisfied and not closed.    *)
BeginCheck(c, t) ==
    /\ call[c] = Idle /\ t \in Stored
    /\ AllSatisfied(store[t]) /\ store[t].status \notin Terminal
    /\ Load(c, "check", t)
    /\ UNCHANGED <<store, final, marks>>

Alone(c) == \A d \in Callers \ {c} : call[c].task \notin Holds(d)

Store(c) ==
    /\ call[c].op \in Methods \ {"mark", "evaluate", "satisfy"}
    /\ LET t == call[c].task IN
         /\ store' = [store EXCEPT ![t] = Changed(call[c].op, call[c].copy)]
         /\ final' = IF call[c].op # Touch /\ Alone(c) THEN final \cup {t} ELSE final
    /\ Return(c)
    /\ UNCHANGED marks

(* A condition by its index.                                               *)
StoreSatisfied(c) ==
    /\ call[c].op = "satisfy"
    /\ \E k \in Conditions \ Having(call[c].copy, "absent") :
         store' = [store EXCEPT ![call[c].task] = Satisfy(call[c].copy, {k})]
    /\ Return(c)
    /\ UNCHANGED <<final, marks>>

----------------------------------------------------------------------------
(* One autonomous dispatch: read_evaluable_tasks, mark_task_in_progress    *)
(* (update_status, record_evaluation), dispatch_task.                      *)

ReadEvaluable(c) ==
    /\ call[c] = Idle /\ Evaluable # {}
    /\ Goto(c, [op |-> "dispatch", seen |-> Evaluable])
    /\ UNCHANGED <<store, final, marks>>

(* The procedure takes none.                                               *)
DispatchNone(c) ==
    /\ call[c].op = "dispatch"
    /\ Return(c)
    /\ UNCHANGED <<store, final, marks>>

MarkLoad(c) ==
    /\ call[c].op = "dispatch"
    /\ \E t \in call[c].seen : marks[t] < MaxAttempts /\ Load(c, "mark", t)
    /\ UNCHANGED <<store, final, marks>>

(* Stores the status; record_evaluation loads the task again.              *)
MarkStore(c) ==
    /\ call[c].op = "mark" /\ marks[call[c].task] < MaxAttempts
    /\ LET t == call[c].task IN
         /\ store' = [store EXCEPT ![t] = Changed("mark", call[c].copy)]
         /\ marks' = [marks EXCEPT ![t] = @ + 1]
         /\ Goto(c, [op |-> "reload", task |-> t])
    /\ UNCHANGED final

EvaluationLoad(c) ==
    /\ call[c].op = "reload"
    /\ Load(c, "evaluate", call[c].task)
    /\ UNCHANGED <<store, final, marks>>

EvaluationStore(c) ==
    /\ call[c].op = "evaluate"
    /\ store' = [store EXCEPT ![call[c].task] = Changed("evaluate", call[c].copy)]
    /\ Goto(c, [op |-> "emit", task |-> call[c].task])
    /\ UNCHANGED <<final, marks>>

(* The prompt goes to the pipeline; what a turn of the model does about    *)
(* the task are calls of the tools.                                        *)
DispatchTask(c) ==
    /\ call[c].op = "emit"
    /\ Return(c)
    /\ UNCHANGED <<store, final, marks>>

(* The process stops: calls are gone, the store is not.                    *)
Crash ==
    /\ call' = [c \in Callers |-> Idle]
    /\ UNCHANGED <<store, final, marks>>

----------------------------------------------------------------------------
CallerStep(c) ==
    \/ \E t \in Tasks : LoadParent(c, t) \/ CreateSubtask(c, t) \/ Begin(c, t) \/ BeginCheck(c, t)
    \/ LinkParent(c) \/ Store(c) \/ StoreSatisfied(c)
    \/ ReadEvaluable(c) \/ DispatchNone(c) \/ MarkLoad(c) \/ MarkStore(c)
    \/ EvaluationLoad(c) \/ EvaluationStore(c) \/ DispatchTask(c)

Next ==
    \/ \E c \in Callers : CallerStep(c)
    \/ \E t \in Tasks : CreateTask(t)
    \/ Crash

Spec == Init /\ [][Next]_vars

----------------------------------------------------------------------------
TypeOK ==
    /\ store \in [Tasks -> Task \cup {None}]
    /\ call \in [Callers -> Call]
    /\ final \subseteq Tasks
    /\ marks \in [Tasks -> 0..MaxAttempts]

(* A task that was completed, failed or cancelled by a call that no other  *)
(* overlapped stays closed: no dispatch takes it up again, no later write  *)
(* of an old copy opens it, whatever crashes in between.                   *)
ClosedAloneStays == \A t \in final : store[t].status \in Terminal

(* Subtasks are stored before their parent names them, so a parent never   *)
(* names a task that is not there or is not its own, after a crash either. *)
LinksLead ==
    \A p \in Stored : \A t \in store[p].subtasks :
        t \in Stored /\ store[t].parent = p

(* Attempts may be lost to an overlapping write, but are never counted     *)
(* that were not made: a task does not run out of attempts unfairly.       *)
AttemptsMade == \A t \in Stored : store[t].attempts <= marks[t]

----------------------------------------------------------------------------
(* "a Completed task must NOT register as pending work": once closed, a    *)
(* task is never evaluable again.                                          *)
CompletedNotPending ==
    [][\A t \in Stored : store[t].status = "Completed" => t \notin Evaluable']_vars
=============================================================================
