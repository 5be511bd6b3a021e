-------------------------- MODULE AgendaScheduler --------------------------
(***************************************************************************)
(* Scheduled tasks: crates/agenda/src/scheduler.rs.                        *)
(*                                                                         *)
(* The scheduler keeps its tasks in memory, under a lock, and writes each  *)
(* changed task to a store after it has let the lock go: `pending` holds   *)
(* those writes, which land in any order.  A loop wakes every ten seconds, *)
(* takes a copy of the tasks that are due, starts each on a task of its    *)
(* own and marks it; when an execution ends it marks the task again and    *)
(* writes it to the store.  A process that stops loses all but the store.  *)
(*                                                                         *)
(* A unit of time is one period of the loop.  Executions of one task that  *)
(* start in the same unit, which takes an add in between, count as one.    *)
(***************************************************************************)
EXTENDS Naturals, FiniteSets

CONSTANTS
    Tasks,      \* task ids
    Users,      \* callers of add, remove and set_enabled
    Schedule,   \* [Tasks -> Schedules]
    MinuteLen,  \* units in a minute
    Timely,     \* does the loop run at every unit of time?
    MaxTime,    \* bound of the model: the last instant
    MaxCrashes, \* bound of the model: restarts
    MaxCalls,   \* bound of the model: calls of the users
    None        \* the absent value

(* Of a cron expression only the minutes it matches matter.                *)
Schedules ==
    [kind : {"interval"}, every : Nat \ {0}]
    \cup [kind : {"once"}, at : Nat]
    \cup [kind : {"cron"}, minutes : SUBSET Nat]

ASSUME AgendaConstants ==
    /\ \A t \in Tasks :
        \/ Schedule[t].kind = "interval" /\ Schedule[t].every \in Nat \ {0}
        \/ Schedule[t].kind = "once" /\ Schedule[t].at \in Nat
        \/ Schedule[t].kind = "cron" /\ Schedule[t].minutes \subseteq Nat
    /\ MinuteLen \in Nat \ {0}
    /\ Timely \in BOOLEAN
    /\ MaxTime \in Nat
    /\ MaxCrashes \in Nat /\ MaxCalls \in Nat
    /\ None \notin Nat \cup Tasks

VARIABLES
    now,      \* Utc::now()
    up,       \* does the process run?
    crashes, calls, \* counted for the bounds
    tasks,    \* [Tasks -> Task or None], in memory
    store,    \* [Tasks -> Task or None], in PluresDB
    pending,  \* writes to the store that are still to happen
    due,      \* the loop's copy of the due tasks, those still to start
    tickAt,   \* the loop's `now`
    marking,  \* the task just started, still to be marked
    running,  \* executions under way
    launched, \* executions started by this process since the task was added
    kept,     \* tasks whose add has returned, not removed since
    gone,     \* tasks whose remove has returned, not added since
    since     \* [Tasks -> Nat or None]: enabled, without a break, since when

loopVars == <<due, tickAt, marking>>
ghosts == <<launched, kept, gone, since>>
vars == <<now, up, crashes, calls, tasks, store, pending, loopVars, running, ghosts>>

Task == [enabled : BOOLEAN, last : Nat \cup {None}]
NewTask == [enabled |-> TRUE, last |-> None]

ASSUME NoneIsNoTask == None \notin Task

Execution == [task : Tasks, at : Nat]
WriteOp == [by : Users \cup Execution, op : {"add", "enable", "complete"}, task : Tasks, value : Task]
           \cup [by : Users, op : {"remove"}, task : Tasks, value : {None}]

Init ==
    /\ now = 0 /\ up = TRUE /\ crashes = 0 /\ calls = 0
    /\ tasks = [t \in Tasks |-> None]
    /\ store = [t \in Tasks |-> None]
    /\ pending = {}
    /\ due = {} /\ tickAt = None /\ marking = None
    /\ running = {}
    /\ launched = {} /\ kept = {} /\ gone = {}
    /\ since = [t \in Tasks |-> None]

----------------------------------------------------------------------------
(* add, remove, set_enabled: memory first, then the store.                 *)

Enter(u) ==
    /\ up /\ \A w \in pending : w.by # u
    /\ calls < MaxCalls
    /\ calls' = calls + 1

ThenWrite(by, op, t, value) ==
    pending' = pending \cup {[by |-> by, op |-> op, task |-> t, value |-> value]}

Add(u, t) ==
    /\ Enter(u)
    /\ tasks' = [tasks EXCEPT ![t] = NewTask]
    /\ ThenWrite(u, "add", t, NewTask)
    /\ launched' = {x \in launched : x.task # t}
    /\ gone' = gone \ {t}
    /\ since' = [since EXCEPT ![t] = now]
    /\ UNCHANGED <<now, up, crashes, store, loopVars, running, kept>>

Remove(u, t) ==
    /\ Enter(u)
    /\ tasks' = [tasks EXCEPT ![t] = None]
    /\ ThenWrite(u, "remove", t, None)
    /\ kept' = kept \ {t}
    /\ since' = [since EXCEPT ![t] = None]
    /\ UNCHANGED <<now, up, crashes, store, loopVars, running, launched, gone>>

SetEnabled(u, t, enabled) ==
    /\ Enter(u)
    /\ tasks[t] # None
    /\ LET changed == [tasks[t] EXCEPT !.enabled = enabled]
       IN /\ tasks' = [tasks EXCEPT ![t] = changed]
          /\ ThenWrite(u, "enable", t, changed)
    /\ since' = [since EXCEPT ![t] = IF ~ enabled THEN None ELSE IF @ = None THEN now ELSE @]
    /\ UNCHANGED <<now, up, crashes, store, loopVars, running, launched, kept, gone>>

(* A write reaches the store, and the call it belongs to returns.          *)
Persist(w) ==
    /\ pending' = pending \ {w}
    /\ store' = [store EXCEPT ![w.task] = w.value]
    /\ LET others == {v.op : v \in {v \in pending \ {w} : v.task = w.task}}
       IN /\ kept' = IF w.op = "add" /\ tasks[w.task] # None /\ "remove" \notin others
                     THEN kept \cup {w.task} ELSE kept
          /\ gone' = IF w.op = "remove" /\ tasks[w.task] = None /\ "add" \notin others
                     THEN gone \cup {w.task} ELSE gone
    /\ UNCHANGED <<now, up, crashes, calls, tasks, loopVars, running, launched, since>>

----------------------------------------------------------------------------
(* start: the loop.                                                        *)

(* Mutant: a one-time task is due at its instant only.                     *)
DueOnTheDot(t, last) ==
    LET s == Schedule[t]
    IN \/ s.kind = "interval" /\ (last = None \/ now - last >= s.every)
       \/ s.kind = "once" /\ last = None /\ now = s.at
       \/ /\ s.kind = "cron" /\ now \div MinuteLen \in s.minutes
          /\ last = None \/ now - last >= MinuteLen

IsDue(t, last) ==
    LET s == Schedule[t]
    IN \/ s.kind = "interval" /\ (last = None \/ now - last >= s.every)
       \/ s.kind = "once" /\ last = None /\ now >= s.at
       \/ /\ s.kind = "cron" /\ now \div MinuteLen \in s.minutes
          /\ last = None \/ now - last >= MinuteLen

AtRest == due = {} /\ marking = None

Tick ==
    /\ up /\ AtRest
    /\ due' = {t \in Tasks : tasks[t] # None /\ tasks[t].enabled /\ IsDue(t, tasks[t].last)}
    /\ tickAt' = now
    /\ UNCHANGED <<now, up, crashes, calls, tasks, store, pending, marking, running, ghosts>>

(* The copy is not looked at again: a task removed or disabled since the   *)
(* tick is started all the same.                                           *)
Launch(t) ==
    /\ marking = None
    /\ due' = due \ {t}
    /\ marking' = t
    /\ running' = running \cup {[task |-> t, at |-> tickAt]}
    /\ launched' = IF tasks[t] = None THEN launched
                   ELSE launched \cup {[task |-> t, at |-> tickAt]}
    /\ UNCHANGED <<now, up, crashes, calls, tasks, store, pending, tickAt, kept, gone, since>>

SetLast(t, instant) ==
    tasks' = IF tasks[t] = None THEN tasks ELSE [tasks EXCEPT ![t].last = instant]

(* Mutant: a started task is marked only when it completes.                *)
MarkNothing ==
    /\ marking # None
    /\ marking' = None
    /\ UNCHANGED <<now, up, crashes, calls, tasks, store, pending, due, tickAt, running, ghosts>>

(* "Mark as run to prevent re-firing": in memory only.                     *)
Mark ==
    /\ marking # None
    /\ SetLast(marking, tickAt)
    /\ marking' = None
    /\ UNCHANGED <<now, up, crashes, calls, store, pending, due, tickAt, running, ghosts>>

CompletedAt == now

(* An execution ends, well or not: the task as it is now is marked and     *)
(* written.  Cutting a long result within a character panics instead.      *)
Complete(x) ==
    /\ running' = running \ {x}
    /\ \/ /\ tasks[x.task] # None
          /\ SetLast(x.task, CompletedAt)
          /\ ThenWrite(x, "complete", x.task, [tasks[x.task] EXCEPT !.last = CompletedAt])
       \/ UNCHANGED <<tasks, pending>>
    /\ UNCHANGED <<now, up, crashes, calls, store, loopVars, ghosts>>

----------------------------------------------------------------------------
(* Time passes; in a timely run only when the loop has done its work.      *)
Advance ==
    /\ now < MaxTime
    /\ Timely /\ up => tickAt = now /\ AtRest
    /\ now' = now + 1
    /\ UNCHANGED <<up, crashes, calls, tasks, store, pending, loopVars, running, ghosts>>

Crash ==
    /\ up /\ crashes < MaxCrashes
    /\ up' = FALSE
    /\ crashes' = crashes + 1
    /\ tasks' = [t \in Tasks |-> None]
    /\ pending' = {} /\ running' = {}
    /\ due' = {} /\ tickAt' = None /\ marking' = None
    /\ since' = [t \in Tasks |-> None]
    /\ launched' = {}
    /\ UNCHANGED <<now, calls, store, kept, gone>>

(* Mutant: only enabled tasks are loaded.                                  *)
LoadEnabled(t) == IF store[t] # None /\ store[t].enabled THEN store[t] ELSE None

Loaded(t) == store[t]

(* load_persisted, before the loop starts.                                 *)
Restart ==
    /\ ~ up
    /\ up' = TRUE
    /\ tasks' = [t \in Tasks |-> Loaded(t)]
    /\ since' = [t \in Tasks |-> IF Loaded(t) # None /\ Loaded(t).enabled THEN now ELSE None]
    /\ UNCHANGED <<now, crashes, calls, store, pending, loopVars, running, launched, kept, gone>>

Call(u, t) == Add(u, t) \/ Remove(u, t) \/ \E b \in BOOLEAN : SetEnabled(u, t, b)

Loop ==
    \/ Tick
    \/ \E t \in due : Launch(t)
    \/ Mark

Next ==
    \/ \E u \in Users, t \in Tasks : Call(u, t)
    \/ \E w \in pending : Persist(w)
    \/ Loop
    \/ \E x \in running : Complete(x)
    \/ Advance
    \/ Crash
    \/ Restart

Spec == Init /\ [][Next]_vars

(* The loop keeps being scheduled.                                         *)
FairSpec == Spec /\ WF_vars(Loop)
----------------------------------------------------------------------------
(* Properties.                                                             *)

(* Every variable keeps its shape; nothing ran in the future; a process    *)
(* that is down has nothing under way.                                     *)
TypeOK ==
    /\ now \in 0..MaxTime /\ up \in BOOLEAN /\ crashes \in 0..MaxCrashes /\ calls \in 0..MaxCalls
    /\ tasks \in [Tasks -> Task \cup {None}]
    /\ store \in [Tasks -> Task \cup {None}]
    /\ \A t \in Tasks : tasks[t] # None => tasks[t].last \in 0..now \cup {None}
    /\ pending \subseteq WriteOp
    /\ due \subseteq Tasks /\ tickAt \in 0..now \cup {None}
    /\ marking \in Tasks \cup {None}
    /\ running \subseteq Execution /\ launched \subseteq Execution
    /\ kept \subseteq Tasks /\ gone \subseteq Tasks
    /\ since \in [Tasks -> 0..now \cup {None}]
    /\ ~ up => pending = {} /\ running = {} /\ AtRest

(* Within a process a one-time task starts once, an interval task not      *)
(* before its interval is over, a cron task once a minute at most, however *)
(* long executions take, overlap, and race the loop's own mark (start,     *)
(* is_due).                                                                *)
NoRefire ==
    \A x, y \in launched : x.task = y.task /\ x.at < y.at =>
        LET s == Schedule[x.task]
        IN /\ s.kind # "once"
           /\ y.at - x.at >= IF s.kind = "interval" THEN s.every ELSE MinuteLen

(* A task whose add has returned is there until it is removed, restarts    *)
(* and late writes of executions notwithstanding ("schedules survive       *)
(* process restarts").                                                     *)
AddedSurvives == up => \A t \in kept : tasks[t] # None

(* A one-time task that is enabled when its time comes is started, unless  *)
(* it is disabled or removed first, the process stops, or an execution of  *)
(* the task it replaced marks it, however late the loop gets to it.        *)
DueTaskRuns ==
    \A t \in Tasks : Schedule[t].kind = "once" =>
        (since[t] # None /\ now >= Schedule[t].at)
            ~> (since[t] = None \/ tasks[t].last # None)

(* A task whose remove has returned is not there again until it is added   *)
(* (the test delete_persisted_task_removes_from_store).                    *)
RemovedStaysRemoved == \A t \in gone : tasks[t] = None

(* "Run on a cron expression": a cron task that is enabled throughout a    *)
(* minute its expression matches is started in that minute, when the loop  *)
(* is never late.                                                          *)
CronFiresInItsMinutes ==
    \A t \in Tasks : Schedule[t].kind = "cron" =>
        \A k \in Schedule[t].minutes :
            since[t] # None /\ since[t] <= k * MinuteLen /\ now >= (k + 1) * MinuteLen
            => \E x \in launched : x.task = t /\ x.at \div MinuteLen = k
=============================================================================
