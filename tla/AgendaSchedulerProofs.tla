----------------------- MODULE AgendaSchedulerProofs -----------------------
(***************************************************************************)
(* Proofs about AgendaScheduler, for any tasks, schedules, users, lengths  *)
(* of a minute and bounds.                                                 *)
(*                                                                         *)
(* NoRefire is about what has been started; is_due looks at `last` alone.  *)
(* The invariant ties the two: whatever this process has started of a task *)
(* is no later than the task's `last`, but for the one start the loop is   *)
(* about to mark; and a task waiting in the loop's copy has kept its       *)
(* distance from every earlier start.  AddedSurvives holds because a task  *)
(* that counts as kept is in the store and no removal is on its way.       *)
(***************************************************************************)
EXTENDS AgendaScheduler, TLAPS

(* As the schedule asks: how far apart two starts of a task must be.       *)
Apart(t, early, late) ==
    LET s == Schedule[t]
    IN /\ s.kind # "once"
       /\ late - early >= IF s.kind = "interval" THEN s.every ELSE MinuteLen

LaunchedPast ==
    \A x \in launched : tickAt # None /\ x.at <= tickAt

LaunchedMarked ==
    \A x \in launched : tasks[x.task] # None =>
        \/ marking = x.task
        \/ tasks[x.task].last # None /\ x.at <= tasks[x.task].last

DueApart ==
    \A t \in due, x \in launched : x.task = t /\ x.at < tickAt => Apart(t, x.at, tickAt)

NothingWhileDown == ~ up => launched = {} /\ pending = {} /\ running = {} /\ AtRest

(* due and marking belong to a tick.                                       *)
TickSound == ~ AtRest => tickAt # None

KeptStored ==
    \A t \in kept :
        /\ store[t] # None
        /\ \A w \in pending : w.task = t => w.op # "remove"

Past(task) == task # None => task.last \in 0..now \cup {None}

(* What is stored, or on its way there, has not run in the future either.  *)
StoredPast ==
    /\ \A t \in Tasks : Past(store[t])
    /\ \A w \in pending : Past(w.value)

AgendaInv ==
    /\ TypeOK /\ StoredPast /\ LaunchedPast /\ LaunchedMarked /\ DueApart /\ NothingWhileDown /\ TickSound
    /\ NoRefire /\ KeptStored /\ AddedSurvives

LEMMA InitKeeps == Init => AgendaInv
<1> SUFFICES ASSUME Init PROVE AgendaInv
  OBVIOUS
<1>1. TypeOK
  BY AgendaConstants DEF Init, TypeOK, AtRest
<1> QED BY <1>1 DEF Init, AgendaInv, StoredPast, Past, LaunchedPast, LaunchedMarked, DueApart, NothingWhileDown,
                    TickSound, NoRefire, KeptStored, AddedSurvives, AtRest

(* Only Launch adds to `launched`; the rest of the loop's invariant then   *)
(* stands or falls with the marks of the tasks started.                    *)
LEMMA NothingLaunched ==
    ASSUME NoRefire, launched' \subseteq launched
    PROVE  NoRefire'
  BY DEF NoRefire

LEMMA AddKeeps ==
    ASSUME AgendaInv, NEW u \in Users, NEW t \in Tasks, Add(u, t)
    PROVE  AgendaInv'
<1>1. TypeOK'
  <2>1. NewTask \in Task
    BY DEF NewTask, Task
  <2>2. pending' \subseteq WriteOp
    BY <2>1 DEF AgendaInv, TypeOK, Add, ThenWrite, WriteOp
  <2>3. calls' \in 0..MaxCalls
    BY AgendaConstants DEF AgendaInv, TypeOK, Add, Enter
  <2>4. \A k \in Tasks : tasks'[k] # None => tasks'[k].last \in 0..now' \cup {None}
    BY <2>1 DEF AgendaInv, TypeOK, Add, NewTask
  <2>5. since' \in [Tasks -> 0..now' \cup {None}]
    BY AgendaConstants DEF AgendaInv, TypeOK, Add
  <2> QED BY <2>1, <2>2, <2>3, <2>4, <2>5 DEF AgendaInv, TypeOK, Add, Enter, loopVars, AtRest
<1>2. LaunchedMarked'
  BY DEF AgendaInv, LaunchedMarked, TypeOK, Add, loopVars, Execution
<1>3. LaunchedPast' /\ DueApart' /\ TickSound' /\ NothingWhileDown' /\ NoRefire'
  BY NothingLaunched DEF AgendaInv, LaunchedPast, DueApart, Apart, TickSound, NothingWhileDown, AtRest,
                         Add, Enter, loopVars
<1>4. KeptStored' /\ AddedSurvives'
  <2>1. NewTask # None
    <3>1. NewTask \in Task
      BY DEF NewTask, Task
    <3> QED BY <3>1, NoneIsNoTask
  <2> QED BY <2>1 DEF AgendaInv, KeptStored, AddedSurvives, TypeOK, Add, ThenWrite
<1>5. StoredPast'
  BY DEF AgendaInv, StoredPast, Past, Add, ThenWrite, NewTask
<1> QED BY <1>1, <1>2, <1>3, <1>4, <1>5 DEF AgendaInv

LEMMA RemoveKeeps ==
    ASSUME AgendaInv, NEW u \in Users, NEW t \in Tasks, Remove(u, t)
    PROVE  AgendaInv'
<1>1. TypeOK'
  <2>1. pending' \subseteq WriteOp
    BY DEF AgendaInv, TypeOK, Remove, ThenWrite, WriteOp
  <2>2. calls' \in 0..MaxCalls
    BY AgendaConstants DEF AgendaInv, TypeOK, Remove, Enter
  <2>3. \A k \in Tasks : tasks'[k] # None => tasks'[k] = tasks[k]
    BY DEF AgendaInv, TypeOK, Remove
  <2> QED BY <2>1, <2>2, <2>3 DEF AgendaInv, TypeOK, Remove, Enter, loopVars, AtRest
<1>2. LaunchedMarked'
  BY DEF AgendaInv, LaunchedMarked, TypeOK, Remove, loopVars, Execution
<1>3. LaunchedPast' /\ DueApart' /\ TickSound' /\ NothingWhileDown' /\ NoRefire'
  BY NothingLaunched DEF AgendaInv, LaunchedPast, DueApart, Apart, TickSound, NothingWhileDown, AtRest,
                         Remove, Enter, loopVars
<1>4. KeptStored' /\ AddedSurvives'
  BY DEF AgendaInv, KeptStored, AddedSurvives, TypeOK, Remove, ThenWrite
<1>5. StoredPast'
  BY DEF AgendaInv, StoredPast, Past, Remove, ThenWrite
<1> QED BY <1>1, <1>2, <1>3, <1>4, <1>5 DEF AgendaInv

LEMMA SetEnabledKeeps ==
    ASSUME AgendaInv, NEW u \in Users, NEW t \in Tasks, NEW b \in BOOLEAN, SetEnabled(u, t, b)
    PROVE  AgendaInv'
<1> DEFINE changed == [tasks[t] EXCEPT !.enabled = b]
<1>1. tasks[t] \in Task /\ tasks[t] # None
  BY DEF AgendaInv, TypeOK, SetEnabled
<1>2. changed \in Task /\ changed.last = tasks[t].last /\ changed # None
  BY <1>1, NoneIsNoTask DEF Task
<1>3. /\ tasks' = [tasks EXCEPT ![t] = changed]
      /\ ThenWrite(u, "enable", t, changed)
  BY DEF SetEnabled
<1> HIDE DEF changed
<1>4. TypeOK'
  <2>1. pending' \subseteq WriteOp
    BY <1>2, <1>3 DEF AgendaInv, TypeOK, ThenWrite, WriteOp
  <2>2. calls' \in 0..MaxCalls
    BY AgendaConstants DEF AgendaInv, TypeOK, SetEnabled, Enter
  <2>3. \A k \in Tasks : tasks'[k] # None => tasks[k] # None /\ tasks'[k].last = tasks[k].last
    BY <1>1, <1>2, <1>3 DEF AgendaInv, TypeOK
  <2>4. since' \in [Tasks -> 0..now' \cup {None}]
    BY AgendaConstants DEF AgendaInv, TypeOK, SetEnabled
  <2>5. tasks' \in [Tasks -> Task \cup {None}]
    BY <1>2, <1>3 DEF AgendaInv, TypeOK
  <2> QED BY <2>1, <2>2, <2>3, <2>4, <2>5 DEF AgendaInv, TypeOK, SetEnabled, Enter, loopVars, AtRest
<1>5. LaunchedMarked'
  <2>1. \A k \in Tasks : tasks'[k] # None => tasks[k] # None /\ tasks'[k].last = tasks[k].last
    BY <1>1, <1>2, <1>3 DEF AgendaInv, TypeOK
  <2> QED BY <2>1 DEF AgendaInv, LaunchedMarked, TypeOK, SetEnabled, loopVars, Execution
<1>6. LaunchedPast' /\ DueApart' /\ TickSound' /\ NothingWhileDown' /\ NoRefire'
  BY NothingLaunched DEF AgendaInv, LaunchedPast, DueApart, Apart, TickSound, NothingWhileDown, AtRest,
                         SetEnabled, Enter, loopVars
<1>7. KeptStored' /\ AddedSurvives'
  BY <1>2, <1>3 DEF AgendaInv, KeptStored, AddedSurvives, TypeOK, SetEnabled, ThenWrite
<1>8. StoredPast'
  BY <1>1, <1>2, <1>3 DEF AgendaInv, TypeOK, StoredPast, Past, SetEnabled, ThenWrite
<1> QED BY <1>4, <1>5, <1>6, <1>7, <1>8 DEF AgendaInv

(* The write that makes a task count as kept puts it in the store, and no  *)
(* removal of it is still to come.                                         *)
LEMMA PersistKeeps ==
    ASSUME AgendaInv, NEW w \in pending, Persist(w)
    PROVE  AgendaInv'
<1>1. /\ w \in WriteOp /\ w.task \in Tasks
      /\ w.op # "remove" => w.value \in Task /\ w.value # None
      /\ w.value \in Task \cup {None}
  BY NoneIsNoTask DEF AgendaInv, TypeOK, WriteOp
<1>2. TypeOK'
  <2>1. store' \in [Tasks -> Task \cup {None}]
    BY <1>1 DEF AgendaInv, TypeOK, Persist
  <2>2. kept' \subseteq Tasks /\ gone' \subseteq Tasks
    BY <1>1 DEF AgendaInv, TypeOK, Persist
  <2> QED BY <2>1, <2>2 DEF AgendaInv, TypeOK, Persist, loopVars, AtRest
<1>3. /\ LaunchedMarked' /\ LaunchedPast' /\ DueApart' /\ TickSound' /\ NoRefire'
  BY NothingLaunched DEF AgendaInv, LaunchedMarked, LaunchedPast, DueApart, Apart, TickSound,
                         AtRest, Persist, loopVars
<1>4. NothingWhileDown'
  BY DEF AgendaInv, NothingWhileDown, AtRest, Persist, loopVars
<1>5. ASSUME NEW t \in kept'
      PROVE  /\ store'[t] # None
             /\ \A v \in pending' : v.task = t => v.op # "remove"
             /\ up => tasks[t] # None
  <2>1. CASE t \in kept
    <3>1. w.task = t => w.op # "remove"
      BY <2>1 DEF AgendaInv, KeptStored
    <3> QED BY <1>1, <2>1, <3>1 DEF AgendaInv, KeptStored, AddedSurvives, TypeOK, Persist
  <2>2. CASE t \notin kept
    <3>1. /\ w.op = "add" /\ t = w.task /\ tasks[t] # None
          /\ "remove" \notin {v.op : v \in {v \in pending \ {w} : v.task = w.task}}
      BY <2>2 DEF Persist
    <3> QED BY <1>1, <3>1 DEF AgendaInv, TypeOK, Persist
  <2> QED BY <2>1, <2>2
<1>6. KeptStored' /\ AddedSurvives'
  BY <1>5 DEF KeptStored, AddedSurvives, Persist
<1>7. StoredPast'
  BY <1>1 DEF AgendaInv, TypeOK, StoredPast, Past, Persist
<1> QED BY <1>2, <1>3, <1>4, <1>6, <1>7 DEF AgendaInv

(* is_due: a task that is due has kept its distance from its `last`, and   *)
(* so from all that was started.                                           *)
LEMMA TickKeeps == ASSUME AgendaInv, Tick PROVE AgendaInv'
<1>1. TypeOK'
  BY AgendaConstants DEF AgendaInv, TypeOK, Tick, AtRest, ghosts
<1>2. ASSUME NEW t \in due', NEW x \in launched, x.task = t
      PROVE  Apart(t, x.at, now)
  <2>1. t \in Tasks /\ tasks[t] # None /\ IsDue(t, tasks[t].last)
    BY <1>2 DEF Tick
  <2>2. tasks[t].last # None /\ x.at <= tasks[t].last
    BY <1>2, <2>1, AgendaConstants DEF AgendaInv, LaunchedMarked, Tick, AtRest
  <2>3. tasks[t].last \in Nat /\ x.at \in Nat /\ now \in Nat
    BY <2>1, <2>2, AgendaConstants DEF AgendaInv, TypeOK, Execution
  <2> QED BY <2>1, <2>2, <2>3, AgendaConstants DEF IsDue, Apart
<1>3. \A t \in Tasks, a \in Nat : Apart(t, a, now)' <=> Apart(t, a, now)
  BY DEF Apart, Tick
<1>4. DueApart'
  BY <1>2, <1>3 DEF AgendaInv, TypeOK, DueApart, Tick, ghosts, Execution, Apart
<1>5. LaunchedPast'
  BY AgendaConstants DEF AgendaInv, LaunchedPast, TypeOK, Tick, ghosts, Execution
<1>6. LaunchedMarked' /\ TickSound' /\ NothingWhileDown' /\ NoRefire' /\ KeptStored' /\ AddedSurvives'
  BY AgendaConstants, NothingLaunched
     DEF AgendaInv, TypeOK, LaunchedMarked, TickSound, NothingWhileDown, KeptStored, AddedSurvives,
         Tick, ghosts, AtRest
<1>7. StoredPast'
  BY DEF AgendaInv, StoredPast, Past, Tick
<1> QED BY <1>1, <1>4, <1>5, <1>6, <1>7 DEF AgendaInv

LEMMA LaunchKeeps ==
    ASSUME AgendaInv, NEW t \in due, Launch(t)
    PROVE  AgendaInv'
<1> DEFINE new == [task |-> t, at |-> tickAt]
<1>1. up /\ t \in Tasks /\ tickAt \in Nat /\ new \in Execution
  BY AgendaConstants DEF AgendaInv, NothingWhileDown, TickSound, AtRest, TypeOK, Execution
<1>2. running' = running \cup {new} /\ launched' \subseteq launched \cup {new}
  BY DEF Launch
<1>3. new.task = t /\ new.at = tickAt
  OBVIOUS
<1> HIDE DEF new
<1>4. TypeOK'
  BY <1>1, <1>2 DEF AgendaInv, TypeOK, Launch, AtRest
<1>5. LaunchedPast'
  BY <1>1, <1>2, <1>3, AgendaConstants DEF AgendaInv, LaunchedPast, Launch
<1>6. LaunchedMarked'
  BY <1>2, <1>3, AgendaConstants DEF AgendaInv, TypeOK, LaunchedMarked, Launch, Execution
<1>7. DueApart'
  BY <1>1, <1>2, <1>3 DEF AgendaInv, DueApart, Apart, Launch
<1>8. NoRefire'
  <2> SUFFICES ASSUME NEW x \in launched', NEW y \in launched', x.task = y.task, x.at < y.at
               PROVE  Apart(x.task, x.at, y.at)
    BY DEF NoRefire, Apart
  <2>1. CASE x \in launched /\ y \in launched
    BY <2>1 DEF AgendaInv, NoRefire, Apart
  <2>2. CASE x \in launched /\ y = new
    BY <1>3, <2>2 DEF AgendaInv, DueApart
  <2>3. CASE x = new
    BY <1>1, <1>2, <1>3, <2>3 DEF AgendaInv, LaunchedPast, TypeOK, Execution
  <2> QED BY <1>2, <2>1, <2>2, <2>3
<1>9. NothingWhileDown' /\ TickSound' /\ KeptStored' /\ AddedSurvives'
  BY <1>1, AgendaConstants DEF AgendaInv, NothingWhileDown, TickSound, KeptStored, AddedSurvives, Launch
<1>10. StoredPast'
  BY DEF AgendaInv, StoredPast, Past, Launch
<1> QED BY <1>4, <1>5, <1>6, <1>7, <1>8, <1>9, <1>10 DEF AgendaInv

(* What Mark and Complete do to a task: only its `last` changes.           *)
LEMMA LastSet ==
    ASSUME TypeOK, NEW t \in Tasks, NEW instant \in 0..now, SetLast(t, instant)
    PROVE  /\ tasks' \in [Tasks -> Task \cup {None}]
           /\ \A k \in Tasks : (tasks'[k] = None) <=> (tasks[k] = None)
           /\ \A k \in Tasks : tasks'[k] # None =>
                tasks'[k].last = IF k = t THEN instant ELSE tasks[k].last
<1>1. instant \in Nat
  BY AgendaConstants DEF TypeOK
<1>2. CASE tasks[t] = None
  BY <1>2 DEF SetLast, TypeOK
<1>3. CASE tasks[t] # None
  <2> DEFINE changed == [tasks[t] EXCEPT !.last = instant]
  <2>1. changed \in Task /\ changed # None /\ changed.last = instant
    BY <1>1, <1>3, NoneIsNoTask DEF TypeOK, Task
  <2>2. tasks' = [tasks EXCEPT ![t] = changed]
    BY <1>3 DEF SetLast, TypeOK
  <2> HIDE DEF changed
  <2> QED BY <1>3, <2>1, <2>2 DEF TypeOK
<1> QED BY <1>2, <1>3

LEMMA MarkKeeps == ASSUME AgendaInv, Mark PROVE AgendaInv'
<1>1. marking \in Tasks /\ tickAt \in 0..now /\ tickAt \in Nat /\ up
  BY AgendaConstants DEF AgendaInv, TypeOK, Mark, TickSound, AtRest, NothingWhileDown
<1>2. /\ tasks' \in [Tasks -> Task \cup {None}]
      /\ \A k \in Tasks : (tasks'[k] = None) <=> (tasks[k] = None)
      /\ \A k \in Tasks : tasks'[k] # None =>
           tasks'[k].last = IF k = marking THEN tickAt ELSE tasks[k].last
  BY <1>1, LastSet DEF AgendaInv, Mark
<1>3. UNCHANGED <<now, up, crashes, calls, store, pending, due, tickAt, running, launched, kept, gone, since>>
  BY DEF Mark, ghosts
<1>4. TypeOK'
  BY <1>1, <1>2, <1>3 DEF AgendaInv, TypeOK, AtRest, Mark
<1>5. LaunchedMarked'
  BY <1>1, <1>2, <1>3, AgendaConstants DEF AgendaInv, TypeOK, LaunchedMarked, LaunchedPast, Execution
<1>6. LaunchedPast' /\ DueApart' /\ TickSound' /\ NothingWhileDown' /\ NoRefire'
  BY <1>1, <1>3, NothingLaunched DEF AgendaInv, LaunchedPast, DueApart, Apart, TickSound, NothingWhileDown, AtRest, Mark
<1>7. KeptStored' /\ AddedSurvives'
  BY <1>2, <1>3 DEF AgendaInv, KeptStored, AddedSurvives, TypeOK
<1>8. StoredPast'
  BY <1>3 DEF AgendaInv, StoredPast, Past
<1> QED BY <1>4, <1>5, <1>6, <1>7, <1>8 DEF AgendaInv

LEMMA CompleteKeeps ==
    ASSUME AgendaInv, NEW x \in running, Complete(x)
    PROVE  AgendaInv'
<1>1. x \in Execution /\ x.task \in Tasks /\ now \in 0..now /\ now \in Nat /\ up
  BY AgendaConstants DEF AgendaInv, TypeOK, Execution, NothingWhileDown
<1>2. UNCHANGED <<now, up, crashes, calls, store, due, tickAt, marking, launched, kept, gone, since>>
  BY DEF Complete, ghosts, loopVars
<1>3. /\ tasks' \in [Tasks -> Task \cup {None}]
      /\ \A k \in Tasks : (tasks'[k] = None) <=> (tasks[k] = None)
      /\ \A k \in Tasks : tasks'[k] # None =>
           tasks'[k].last = now \/ tasks'[k].last = tasks[k].last
  <2>1. CASE SetLast(x.task, now)
    BY <1>1, <2>1, LastSet DEF AgendaInv
  <2>2. CASE UNCHANGED tasks
    BY <2>2 DEF AgendaInv, TypeOK
  <2> QED BY <2>1, <2>2 DEF Complete, CompletedAt
<1>4. /\ pending' \subseteq WriteOp
      /\ \A w \in pending' : w \in pending \/ (w.op # "remove" /\ w.value.last = now)
  <2>1. CASE UNCHANGED pending
    BY <2>1 DEF AgendaInv, TypeOK
  <2>2. CASE tasks[x.task] # None /\ ThenWrite(x, "complete", x.task, [tasks[x.task] EXCEPT !.last = CompletedAt])
    <3> DEFINE done == [tasks[x.task] EXCEPT !.last = CompletedAt]
    <3>1. done \in Task /\ done.last = now
      BY <1>1, <2>2 DEF AgendaInv, TypeOK, Task, CompletedAt
    <3>2. pending' = pending \cup {[by |-> x, op |-> "complete", task |-> x.task, value |-> done]}
      BY <2>2 DEF ThenWrite
    <3> HIDE DEF done
    <3>3. [by |-> x, op |-> "complete", task |-> x.task, value |-> done] \in WriteOp
      BY <1>1, <3>1 DEF WriteOp
    <3> QED BY <3>1, <3>2, <3>3 DEF AgendaInv, TypeOK
  <2> QED BY <2>1, <2>2 DEF Complete
<1>5. TypeOK'
  BY <1>1, <1>2, <1>3, <1>4 DEF AgendaInv, TypeOK, AtRest, Complete
<1>6. LaunchedMarked'
  <2> SUFFICES ASSUME NEW y \in launched, tasks'[y.task] # None, marking # y.task
               PROVE  tasks'[y.task].last # None /\ y.at <= tasks'[y.task].last
    BY <1>2 DEF LaunchedMarked
  <2>1. y.task \in Tasks /\ y.at \in Nat /\ y.at <= now
    BY AgendaConstants DEF AgendaInv, TypeOK, LaunchedPast, Execution
  <2> QED BY <1>1, <1>3, <2>1, AgendaConstants DEF AgendaInv, LaunchedMarked
<1>7. LaunchedPast' /\ DueApart' /\ TickSound' /\ NothingWhileDown' /\ NoRefire'
  BY <1>1, <1>2, NothingLaunched DEF AgendaInv, LaunchedPast, DueApart, Apart, TickSound, NothingWhileDown, AtRest
<1>8. KeptStored' /\ AddedSurvives'
  BY <1>2, <1>3, <1>4 DEF AgendaInv, KeptStored, AddedSurvives, TypeOK
<1>9. StoredPast'
  BY <1>1, <1>2, <1>4 DEF AgendaInv, StoredPast, Past
<1> QED BY <1>5, <1>6, <1>7, <1>8, <1>9 DEF AgendaInv

LEMMA AdvanceKeeps == ASSUME AgendaInv, Advance PROVE AgendaInv'
<1>1. now \in Nat /\ now' \in 0..MaxTime /\ \A i \in 0..now : i \in 0..now'
  BY AgendaConstants DEF AgendaInv, TypeOK, Advance
<1>2. TypeOK'
  BY <1>1 DEF AgendaInv, TypeOK, Advance, loopVars, ghosts, AtRest
<1>3. StoredPast'
  BY <1>1 DEF AgendaInv, StoredPast, Past, Advance
<1> QED BY <1>2, <1>3, NothingLaunched
        DEF AgendaInv, Advance, loopVars, ghosts, LaunchedPast, LaunchedMarked, DueApart, Apart, NothingWhileDown,
            TickSound, KeptStored, AddedSurvives, AtRest

LEMMA CrashKeeps == ASSUME AgendaInv, Crash PROVE AgendaInv'
<1>1. TypeOK'
  <2>1. crashes' \in 0..MaxCrashes
    BY AgendaConstants DEF AgendaInv, TypeOK, Crash
  <2>2. \A t \in Tasks : tasks'[t] = None
    BY DEF Crash
  <2>3. tasks' \in [Tasks -> Task \cup {None}] /\ since' \in [Tasks -> 0..now' \cup {None}]
    BY DEF Crash
  <2> QED BY <2>1, <2>2, <2>3 DEF AgendaInv, TypeOK, Crash, AtRest
<1>3. StoredPast'
  BY DEF AgendaInv, StoredPast, Past, Crash
<1>2. KeptStored'
  BY DEF AgendaInv, KeptStored, Crash
<1> QED BY <1>1, <1>2, <1>3 DEF AgendaInv, Crash, LaunchedPast, LaunchedMarked, DueApart, NothingWhileDown, TickSound,
                          NoRefire, AddedSurvives, AtRest

LEMMA RestartKeeps == ASSUME AgendaInv, Restart PROVE AgendaInv'
<1>1. TypeOK'
  <2>1. tasks' \in [Tasks -> Task \cup {None}] /\ \A t \in Tasks : tasks'[t] = store[t]
    BY DEF AgendaInv, TypeOK, Restart, Loaded
  <2>2. \A t \in Tasks : tasks'[t] # None => tasks'[t].last \in 0..now' \cup {None}
    BY <2>1 DEF AgendaInv, StoredPast, Past, Restart
  <2>3. since' \in [Tasks -> 0..now' \cup {None}]
    BY AgendaConstants DEF AgendaInv, TypeOK, Restart
  <2> QED BY <2>1, <2>2, <2>3 DEF AgendaInv, TypeOK, Restart, loopVars, AtRest
<1>4. StoredPast'
  BY DEF AgendaInv, StoredPast, Past, Restart
<1>2. launched' = {} /\ pending' = {} /\ due' = {} /\ marking' = None
  BY DEF AgendaInv, NothingWhileDown, Restart, loopVars, AtRest
<1>3. KeptStored' /\ AddedSurvives'
  BY <1>2 DEF AgendaInv, TypeOK, KeptStored, AddedSurvives, Restart, Loaded
<1> QED BY <1>1, <1>2, <1>3, <1>4 DEF AgendaInv, Restart, LaunchedPast, LaunchedMarked, DueApart, NothingWhileDown,
                                TickSound, NoRefire, AtRest

LEMMA StepKeeps == AgendaInv /\ [Next]_vars => AgendaInv'
<1> SUFFICES ASSUME AgendaInv, [Next]_vars PROVE AgendaInv'
  OBVIOUS
<1>1. CASE \E u \in Users, t \in Tasks : Call(u, t)
  BY <1>1, AddKeeps, RemoveKeeps, SetEnabledKeeps DEF Call
<1>2. CASE \E w \in pending : Persist(w)
  BY <1>2, PersistKeeps
<1>3. CASE Loop
  BY <1>3, TickKeeps, LaunchKeeps, MarkKeeps DEF Loop
<1>4. CASE \E x \in running : Complete(x)
  BY <1>4, CompleteKeeps
<1>5. CASE Advance \/ Crash \/ Restart
  BY <1>5, AdvanceKeeps, CrashKeeps, RestartKeeps
<1>6. CASE UNCHANGED vars
  BY <1>6 DEF vars, loopVars, ghosts, AgendaInv, TypeOK, StoredPast, Past, LaunchedPast, LaunchedMarked, DueApart, Apart,
              NothingWhileDown, TickSound, NoRefire, KeptStored, AddedSurvives, AtRest
<1> QED BY <1>1, <1>2, <1>3, <1>4, <1>5, <1>6 DEF Next

LEMMA Invariance == Spec => []AgendaInv
<1>1. Init => AgendaInv
  BY InitKeeps
<1>2. AgendaInv /\ [Next]_vars => AgendaInv'
  BY StepKeeps
<1> QED BY <1>1, <1>2, PTL DEF Spec

(* Every variable keeps its shape, and no task has run in the future.      *)
THEOREM AgendaTypes == Spec => []TypeOK
<1>1. AgendaInv => TypeOK
  BY DEF AgendaInv
<1> QED BY <1>1, Invariance, PTL

(* Within a process a one-time task starts once and the others no sooner   *)
(* than their schedules allow (start, is_due), however late the loop is    *)
(* and however executions overlap.                                         *)
THEOREM NeverRefires == Spec => []NoRefire
<1>1. AgendaInv => NoRefire
  BY DEF AgendaInv
<1> QED BY <1>1, Invariance, PTL

(* A task whose add has returned survives restarts (add, load_persisted).  *)
THEOREM AddedTasksSurvive == Spec => []AddedSurvives
<1>1. AgendaInv => AddedSurvives
  BY DEF AgendaInv
<1> QED BY <1>1, Invariance, PTL
=============================================================================
