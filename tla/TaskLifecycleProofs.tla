------------------------ MODULE TaskLifecycleProofs ------------------------
(***************************************************************************)
(* Proofs about TaskLifecycle, for any number of tasks, callers and        *)
(* attempts.                                                               *)
(*                                                                         *)
(* Every method stores a copy it loaded earlier, so what is true of the    *)
(* store has to be true of every copy in somebody's hands: IInv says of    *)
(* the copies what the invariants say of the stored tasks, and counts the  *)
(* marks whose evaluation is still to be recorded.                         *)
(***************************************************************************)
EXTENDS TaskLifecycle, FiniteSetTheorems, TLAPS

(* Calls that have marked a task and will count the attempt.               *)
Pending(t) == {c \in Callers : call[c].op \in {"reload", "evaluate"} /\ call[c].task = t}

(* A call is about stored tasks; its copy is of the task's parent, and     *)
(* names subtasks that are there.                                          *)
CallsSound ==
    \A c \in Callers :
        /\ Holds(c) \subseteq Stored
        /\ call[c].op \in Copying =>
             /\ call[c].copy.parent = store[call[c].task].parent
             /\ \A t \in call[c].copy.subtasks : t \in Stored /\ store[t].parent = call[c].task

(* Nobody is about to mark a task that was closed alone, and every copy of *)
(* it is closed.                                                           *)
FinalSound ==
    \A t \in final :
        /\ t \in Stored /\ store[t].status \in Terminal
        /\ \A c \in Callers : t \in Holds(c) =>
             /\ call[c].op \notin {"dispatch", "mark"}
             /\ call[c].op \in Copying => call[c].copy.status \in Terminal

(* The marks of a task cover the attempts stored, or copied, and those     *)
(* still to be recorded.                                                   *)
Counting ==
    \A t \in Tasks :
        /\ t \in Stored => store[t].attempts + Cardinality(Pending(t)) <= marks[t]
        /\ \A c \in Callers : call[c].op \in Copying /\ call[c].task = t =>
             call[c].copy.attempts + Cardinality(Pending(t)) <= marks[t]

IInv == TypeOK /\ CallsSound /\ FinalSound /\ LinksLead /\ Counting

----------------------------------------------------------------------------
(* The shapes of tasks and calls.                                          *)

LEMMA TaskFields ==
    ASSUME NEW r \in Task
    PROVE  /\ r.status \in Statuses
           /\ r.attempts \in 0..MaxAttempts
           /\ r.conditions \in [Conditions -> Condition]
           /\ r.parent \in Tasks \cup {None}
           /\ r.subtasks \subseteq Tasks
BY DEF Task

LEMMA CallFields ==
    ASSUME NEW k \in Call
    PROVE  /\ k.op \in {"idle", "reload", "emit", "dispatch"} \cup Copying
           /\ k.op \in Copying => k.task \in Tasks /\ k.copy \in Task
           /\ k.op \in {"reload", "emit"} => k.task \in Tasks
           /\ k.op = "dispatch" => k.seen \subseteq Tasks
BY DEF Call, Copying, Methods, Touch

LEMMA IdleOp ==
    /\ Idle.op = "idle"
    /\ Idle.op \notin Copying \cup {"reload", "evaluate", "dispatch", "emit"}
BY DEF Idle, Copying, Methods, Touch

LEMMA CallRecords ==
    /\ Idle \in Call
    /\ \A op \in Copying, t \in Tasks, r \in Task : [op |-> op, task |-> t, copy |-> r] \in Call
    /\ \A op \in {"reload", "emit"}, t \in Tasks : [op |-> op, task |-> t] \in Call
    /\ \A ts \in SUBSET Tasks : [op |-> "dispatch", seen |-> ts] \in Call
BY DEF Call, Idle

LEMMA NewTaskType ==
    ASSUME NEW conditions \in [Conditions -> Condition], NEW p \in Tasks \cup {None}
    PROVE  /\ NewTask(conditions, p) \in Task
           /\ NewTask(conditions, p).parent = p
           /\ NewTask(conditions, p).subtasks = {}
           /\ NewTask(conditions, p).attempts = 0
BY TaskConstants DEF NewTask, Task, Statuses

(* What a method leaves of the copy: parent and subtasks; the attempts, if *)
(* it does not count one; a closed status, if it is not a mark.            *)
LEMMA ChangedTask ==
    ASSUME NEW method \in Methods, NEW r \in Task,
           method = "evaluate" => r.attempts < MaxAttempts
    PROVE  /\ Changed(method, r) \in Task
           /\ Changed(method, r).parent = r.parent
           /\ Changed(method, r).subtasks = r.subtasks
           /\ Changed(method, r).attempts = IF method = "evaluate" THEN r.attempts + 1 ELSE r.attempts
           /\ method # "mark" /\ r.status \in Terminal => Changed(method, r).status \in Terminal
           /\ method \in {"complete", "fail, cancel", "check"} => Changed(method, r).status \in Terminal
<1>1. CASE method = "complete"
  <2>1. Satisfy(r, AckConditions) \in Task
    BY TaskFields, TaskConstants DEF Satisfy, Task, Condition, Having
  <2>2. /\ Satisfy(r, AckConditions).parent = r.parent
        /\ Satisfy(r, AckConditions).subtasks = r.subtasks
        /\ Satisfy(r, AckConditions).attempts = r.attempts
    BY DEF Satisfy, Task
  <2> DEFINE s == Satisfy(r, AckConditions)
  <2>3. Changed(method, r) = [s EXCEPT !.status = "Completed"]
    BY <1>1 DEF Changed
  <2> HIDE DEF s
  <2>4. s \in Task /\ s.parent = r.parent /\ s.subtasks = r.subtasks /\ s.attempts = r.attempts
    BY <2>1, <2>2 DEF s
  <2> QED BY <1>1, <2>3, <2>4 DEF Task, Statuses, Terminal
<1>2. CASE method = "fail, cancel"
  BY <1>2 DEF Changed, Task, Statuses, Terminal
<1>3. CASE method = "mark"
  BY <1>3 DEF Changed, Task, Statuses, Terminal
<1>4. CASE method = "evaluate"
  BY <1>4, TaskConstants DEF Changed, Task, Statuses, Terminal, Counted
<1>5. CASE method = "check"
  BY <1>5 DEF Changed, Task, Statuses, Terminal
<1>6. CASE method \in {"satisfy", Touch}
  BY <1>6 DEF Changed, Touch, Task, Statuses, Terminal
<1> QED BY <1>1, <1>2, <1>3, <1>4, <1>5, <1>6 DEF Methods

LEMMA SatisfiedTask ==
    ASSUME NEW r \in Task, NEW ks \in SUBSET Conditions
    PROVE  /\ Satisfy(r, ks) \in Task
           /\ Satisfy(r, ks).parent = r.parent
           /\ Satisfy(r, ks).subtasks = r.subtasks
           /\ Satisfy(r, ks).attempts = r.attempts
           /\ Satisfy(r, ks).status = r.status
BY TaskFields DEF Satisfy, Task, Condition, Having

LEMMA StoredTasks ==
    ASSUME TypeOK
    PROVE  /\ Stored \subseteq Tasks
           /\ \A t \in Stored : store[t] \in Task
BY DEF TypeOK, Stored

----------------------------------------------------------------------------
(* Counting the pending marks.                                             *)

LEMMA PendingFinite ==
    ASSUME NEW t
    PROVE  IsFiniteSet(Pending(t)) /\ Cardinality(Pending(t)) \in Nat
<1>1. Pending(t) \subseteq Callers /\ IsFiniteSet(Callers)
  BY TaskConstants DEF Pending
<1> QED BY <1>1, FS_Subset, FS_CardinalityType

LEMMA PendingSame ==
    ASSUME TypeOK, NEW c \in Callers, NEW k, call' = [call EXCEPT ![c] = k],
           NEW t, c \in Pending(t) <=> (k.op \in {"reload", "evaluate"} /\ k.task = t)
    PROVE  Pending(t)' = Pending(t)
BY DEF Pending, TypeOK

LEMMA PendingMore ==
    ASSUME TypeOK, NEW c \in Callers, NEW k, call' = [call EXCEPT ![c] = k],
           NEW t, c \notin Pending(t), k.op \in {"reload", "evaluate"}, k.task = t
    PROVE  Cardinality(Pending(t)') = Cardinality(Pending(t)) + 1
<1>1. Pending(t)' = Pending(t) \cup {c}
  BY DEF Pending, TypeOK
<1> QED BY <1>1, PendingFinite, FS_AddElement

LEMMA PendingLess ==
    ASSUME TypeOK, NEW c \in Callers, NEW k, call' = [call EXCEPT ![c] = k],
           NEW t, c \in Pending(t), k.op \notin {"reload", "evaluate"}
    PROVE  /\ Cardinality(Pending(t)') = Cardinality(Pending(t)) - 1
           /\ Cardinality(Pending(t)) >= 1
<1>1. Pending(t)' = Pending(t) \ {c}
  BY DEF Pending, TypeOK
<1>2. Cardinality(Pending(t)') = Cardinality(Pending(t)) - 1
  BY <1>1, PendingFinite, FS_RemoveElement
<1>3. Cardinality(Pending(t)') \in Nat
  <2>1. IsFiniteSet(Pending(t)')
    BY <1>1, PendingFinite, FS_Subset
  <2> QED BY <2>1, FS_CardinalityType
<1> QED BY <1>2, <1>3, PendingFinite

----------------------------------------------------------------------------
(* Steps that change no task: a call becomes k, which holds stored tasks   *)
(* and has, if any, an exact copy.                                         *)

LEMMA CallStep ==
    ASSUME IInv, NEW c \in Callers, NEW k \in Call,
           call' = [call EXCEPT ![c] = k], UNCHANGED <<store, final, marks>>,
           k.op \in Copying => k.task \in Stored /\ k.copy = store[k.task],
           k.op \in {"reload", "emit"} => k.task \in Stored,
           k.op = "dispatch" => k.seen \subseteq Stored \ final,
           k.op = "mark" => k.task \notin final,
           \A t \in Tasks : c \in Pending(t) <=> (k.op \in {"reload", "evaluate"} /\ k.task = t)
    PROVE  IInv'
<1> USE DEF IInv
<1>1. TypeOK'
  BY DEF TypeOK
<1>2. Stored' = Stored /\ \A t \in Stored : store'[t] = store[t]
  BY DEF Stored
<1>3. \A d \in Callers : d # c => call'[d] = call[d] /\ Holds(d)' = Holds(d)
  BY DEF TypeOK, Holds
<1>4. call'[c] = k
  BY DEF TypeOK
<1>5. Holds(c)' \subseteq Stored
  BY <1>4, CallFields DEF Holds
<1>6. CallsSound'
  <2> SUFFICES ASSUME NEW d \in Callers
               PROVE  /\ Holds(d)' \subseteq Stored'
                      /\ call'[d].op \in Copying =>
                           /\ call'[d].copy.parent = store'[call'[d].task].parent
                           /\ \A t \in call'[d].copy.subtasks :
                                t \in Stored' /\ store'[t].parent = call'[d].task
    BY DEF CallsSound
  <2>1. CASE d = c
    BY <2>1, <1>2, <1>4, <1>5 DEF LinksLead
  <2>2. CASE d # c
    BY <2>2, <1>2, <1>3 DEF CallsSound
  <2> QED BY <2>1, <2>2
<1>7. FinalSound'
  <2> SUFFICES ASSUME NEW t \in final
               PROVE  /\ t \in Stored' /\ store'[t].status \in Terminal
                      /\ \A d \in Callers : t \in Holds(d)' =>
                           /\ call'[d].op \notin {"dispatch", "mark"}
                           /\ call'[d].op \in Copying => call'[d].copy.status \in Terminal
    BY DEF FinalSound
  <2>1. t \in Stored /\ store[t].status \in Terminal
    BY DEF FinalSound
  <2>2. t \in Holds(c)' => /\ k.op \notin {"dispatch", "mark"}
                           /\ k.op \in Copying => k.copy.status \in Terminal
    BY <2>1, <1>4, CallFields DEF Holds
  <2> QED BY <2>1, <2>2, <1>2, <1>3, <1>4 DEF FinalSound
<1>8. LinksLead'
  BY <1>2 DEF LinksLead
<1>9. \A t \in Tasks : Pending(t)' = Pending(t)
  BY PendingSame
<1>10. Counting'
  <2> SUFFICES ASSUME NEW t \in Tasks
               PROVE  /\ t \in Stored' => store'[t].attempts + Cardinality(Pending(t)') <= marks'[t]
                      /\ \A d \in Callers : call'[d].op \in Copying /\ call'[d].task = t =>
                           call'[d].copy.attempts + Cardinality(Pending(t)') <= marks'[t]
    BY DEF Counting
  <2>1. t \in Stored => store[t].attempts + Cardinality(Pending(t)) <= marks[t]
    BY DEF Counting
  <2>2. ASSUME NEW d \in Callers, call'[d].op \in Copying, call'[d].task = t
        PROVE  call'[d].copy.attempts + Cardinality(Pending(t)) <= marks[t]
    <3>1. CASE d = c
      BY <2>1, <2>2, <3>1, <1>4
    <3>2. CASE d # c
      BY <2>2, <3>2, <1>3 DEF Counting
    <3> QED BY <3>1, <3>2
  <2> QED BY <2>1, <2>2, <1>2, <1>9
<1> QED BY <1>1, <1>6, <1>7, <1>8, <1>10

----------------------------------------------------------------------------
(* Steps that store r for the task of a call, made from its copy.          *)

LEMMA StoreStep ==
    ASSUME IInv, NEW c \in Callers, call[c].op \in Copying,
           NEW r \in Task, NEW k \in Call, NEW t, t = call[c].task,
           call' = [call EXCEPT ![c] = k], store' = [store EXCEPT ![t] = r],
           k.op \in {"idle", "reload", "emit"}, k.op # "idle" => k.task = t,
           r.parent = call[c].copy.parent,
           r.subtasks \subseteq call[c].copy.subtasks,
           final' \subseteq final \cup {t},
           t \in final' => r.status \in Terminal,
           t \in final' \ final => Alone(c),
           marks' \in [Tasks -> 0..MaxAttempts],
           \A s \in Tasks \ {t} : marks'[s] = marks[s],
           r.attempts + Cardinality(Pending(t)') <= marks'[t],
           Cardinality(Pending(t)') + marks[t] <= Cardinality(Pending(t)) + marks'[t]
    PROVE  IInv'
<1> USE DEF IInv
<1>1. t \in Tasks /\ t \in Stored
  <2>1. t \in Holds(c)
    BY DEF Holds, Copying, Methods, Touch
  <2> QED BY <2>1, StoredTasks DEF CallsSound
<1>2. TypeOK'
  BY <1>1 DEF TypeOK
<1>3. Stored' = Stored /\ store'[t] = r /\ \A s \in Stored \ {t} : store'[s] = store[s]
  BY <1>1, NoneIsNoTask DEF Stored, TypeOK
<1>4. \A d \in Callers : d # c => call'[d] = call[d] /\ Holds(d)' = Holds(d)
  BY DEF TypeOK, Holds
<1>5. call'[c] = k
  BY DEF TypeOK
<1>6. Holds(c)' \subseteq {t} /\ k.op \notin Copying /\ k.op \notin {"dispatch", "mark"}
  BY <1>5 DEF Holds, Copying, Methods, Touch
<1>7. \A s \in Stored : store'[s].parent = store[s].parent
  BY <1>3 DEF CallsSound
<1>8. CallsSound'
  <2> SUFFICES ASSUME NEW d \in Callers
               PROVE  /\ Holds(d)' \subseteq Stored'
                      /\ call'[d].op \in Copying =>
                           /\ call'[d].copy.parent = store'[call'[d].task].parent
                           /\ \A s \in call'[d].copy.subtasks :
                                s \in Stored' /\ store'[s].parent = call'[d].task
    BY DEF CallsSound
  <2>1. CASE d = c
    BY <2>1, <1>1, <1>3, <1>5, <1>6
  <2>2. CASE d # c
    <3>1. call[d].op \in Copying => call[d].task \in Stored
      BY DEF CallsSound, Holds, Copying, Methods, Touch
    <3> QED BY <2>2, <3>1, <1>3, <1>4, <1>7 DEF CallsSound
  <2> QED BY <2>1, <2>2
<1>9. FinalSound'
  <2> SUFFICES ASSUME NEW s \in final'
               PROVE  /\ s \in Stored' /\ store'[s].status \in Terminal
                      /\ \A d \in Callers : s \in Holds(d)' =>
                           /\ call'[d].op \notin {"dispatch", "mark"}
                           /\ call'[d].op \in Copying => call'[d].copy.status \in Terminal
    BY DEF FinalSound
  <2>1. s \in Stored' /\ store'[s].status \in Terminal
    BY <1>1, <1>3 DEF FinalSound
  <2>2. ASSUME NEW d \in Callers, s \in Holds(d)'
        PROVE  /\ call'[d].op \notin {"dispatch", "mark"}
               /\ call'[d].op \in Copying => call'[d].copy.status \in Terminal
    <3>1. CASE d = c
      BY <3>1, <1>5, <1>6
    <3>2. CASE d # c /\ s \in final
      BY <2>2, <3>2, <1>4 DEF FinalSound
    <3>3. CASE d # c /\ s \notin final
      BY <2>2, <3>3, <1>4 DEF Alone
    <3> QED BY <3>1, <3>2, <3>3
  <2> QED BY <2>1, <2>2
<1>10. LinksLead'
  <2>1. \A s \in r.subtasks : s \in Stored /\ store[s].parent = t
    BY DEF CallsSound
  <2>2. \A p \in Stored : \A s \in store'[p].subtasks : s \in Stored /\ store[s].parent = p
    BY <1>3, <2>1 DEF LinksLead
  <2> QED BY <2>2, <1>3, <1>7 DEF LinksLead
<1>11. \A s \in Tasks \ {t} : Pending(s)' = Pending(s)
  BY PendingSame DEF Pending
<1>12. Counting'
  <2> SUFFICES ASSUME NEW s \in Tasks
               PROVE  /\ s \in Stored' => store'[s].attempts + Cardinality(Pending(s)') <= marks'[s]
                      /\ \A d \in Callers : call'[d].op \in Copying /\ call'[d].task = s =>
                           call'[d].copy.attempts + Cardinality(Pending(s)') <= marks'[s]
    BY DEF Counting
  <2>1. s \in Stored' => store'[s].attempts + Cardinality(Pending(s)') <= marks'[s]
    BY <1>3, <1>11 DEF Counting
  <2>2. ASSUME NEW d \in Callers, call'[d].op \in Copying, call'[d].task = s
        PROVE  call'[d].copy.attempts + Cardinality(Pending(s)') <= marks'[s]
    <3>1. d # c /\ call[d] \in Call /\ call'[d] = call[d]
      BY <2>2, <1>4, <1>5, <1>6 DEF TypeOK
    <3>2. call[d].copy.attempts \in 0..MaxAttempts
      BY <2>2, <3>1, CallFields, TaskFields
    <3>3. call[d].copy.attempts + Cardinality(Pending(s)) <= marks[s]
      BY <2>2, <3>1 DEF Counting
    <3>4. CASE s # t
      BY <3>1, <3>3, <3>4, <1>11
    <3>5. CASE s = t
      <4>1. Cardinality(Pending(t)) \in Nat /\ Cardinality(Pending(t)') \in Nat
        <5>1. Pending(t)' \subseteq Callers /\ IsFiniteSet(Callers)
          BY TaskConstants DEF Pending
        <5> QED BY <5>1, PendingFinite, FS_Subset, FS_CardinalityType
      <4>2. marks[t] \in Nat /\ marks'[t] \in Nat
        <5>1. marks \in [Tasks -> 0..MaxAttempts]
          BY DEF TypeOK
        <5>2. marks[t] \in 0..MaxAttempts /\ marks'[t] \in 0..MaxAttempts
          BY <5>1, <1>1
        <5> QED BY <5>2, TaskConstants
      <4> QED BY <3>1, <3>2, <3>3, <3>5, <4>1, <4>2, TaskConstants
    <3> QED BY <3>4, <3>5
  <2> QED BY <2>1, <2>2
<1> QED BY <1>2, <1>8, <1>9, <1>10, <1>12

----------------------------------------------------------------------------
(* Steps that store a new task t: nothing was said of it before.           *)

LEMMA NewStep ==
    ASSUME IInv, NEW t \in Tasks, t \notin Stored, \A d \in Callers : t \notin Holds(d),
           NEW r \in Task, r.subtasks = {}, r.attempts = 0,
           store' = [store EXCEPT ![t] = r], UNCHANGED <<call, final, marks>>
    PROVE  IInv'
<1> USE DEF IInv
<1>1. TypeOK'
  BY DEF TypeOK
<1>2. Stored' = Stored \cup {t} /\ store'[t] = r /\ \A s \in Stored : store'[s] = store[s]
  BY NoneIsNoTask DEF Stored, TypeOK
<1>3. \A d \in Callers : call[d].op \in Copying => call[d].task \in Stored
  BY DEF CallsSound, Holds, Copying, Methods, Touch
<1>4. \A d \in Callers : Holds(d)' = Holds(d)
  BY DEF Holds
<1>5. CallsSound'
  BY <1>2, <1>3, <1>4 DEF CallsSound
<1>6. FinalSound'
  BY <1>2, <1>4 DEF FinalSound
<1>7. LinksLead'
  BY <1>2 DEF LinksLead
<1>8. \A s \in Tasks : Pending(s)' = Pending(s)
  BY DEF Pending
<1>9. Counting'
  <2>1. Pending(t) = {}
    BY DEF Pending, Holds
  <2>2. Cardinality(Pending(t)) = 0
    BY <2>1, FS_EmptySet
  <2>3. marks[t] \in Nat
    BY TaskConstants DEF TypeOK
  <2>4. store'[t].attempts + Cardinality(Pending(t)') <= marks'[t]
    BY <1>2, <1>8, <2>2, <2>3
  <2> QED BY <1>2, <1>8, <2>4 DEF Counting
<1> QED BY <1>1, <1>5, <1>6, <1>7, <1>9

----------------------------------------------------------------------------
(* The steps of a call.                                                    *)

LEMMA SubtaskKeeps ==
    ASSUME IInv, NEW c \in Callers, NEW t \in Tasks, CreateSubtask(c, t)
    PROVE  IInv'
<1> USE DEF IInv
<1> DEFINE p == call[c].task
           r == NewTask(NoConditions, p)
           copy == [call[c].copy EXCEPT !.subtasks = @ \cup {t}]
           k == [op |-> "link", task |-> p, copy |-> copy]
<1>1. call[c] \in Call /\ call[c].op = "subtask"
  BY DEF CreateSubtask, TypeOK
<1>2. p \in Tasks /\ p \in Stored /\ call[c].copy \in Task
  BY <1>1, CallFields DEF CallsSound, Holds, Copying
<1>3. r \in Task /\ r.parent = p /\ r.subtasks = {} /\ r.attempts = 0
  BY <1>2, NewTaskType DEF NoConditions, Condition
<1>4. copy \in Task
  BY <1>2 DEF Task
<1>5. k \in Call
  BY <1>2, <1>4, CallRecords DEF Copying
<1>6. /\ t \notin Stored /\ \A d \in Callers : t \notin Holds(d)
      /\ store' = [store EXCEPT ![t] = r] /\ call' = [call EXCEPT ![c] = k]
      /\ UNCHANGED <<final, marks>>
  BY DEF CreateSubtask, SubtaskFirst, Goto
<1> HIDE DEF r
<1>7. TypeOK'
  BY <1>3, <1>5, <1>6 DEF TypeOK
<1>8. Stored' = Stored \cup {t} /\ store'[t] = r /\ \A s \in Stored : store'[s] = store[s]
  BY <1>3, <1>6, NoneIsNoTask DEF Stored, TypeOK
<1>9. call'[c] = k /\ \A d \in Callers : d # c => call'[d] = call[d] /\ Holds(d)' = Holds(d)
  BY <1>6 DEF TypeOK, Holds
<1>10. Holds(c)' = {p} /\ Holds(c) = {p} /\ k.op \in Copying /\ k.op \notin {"dispatch", "mark", "reload", "evaluate"}
  BY <1>1, <1>9 DEF Holds, Copying
<1>11. /\ k.copy.parent = call[c].copy.parent /\ k.copy.status = call[c].copy.status
       /\ k.copy.attempts = call[c].copy.attempts
       /\ k.copy.subtasks = call[c].copy.subtasks \cup {t}
  BY <1>2 DEF Task
<1> HIDE DEF k
<1>12. call'[c].task = p
  BY <1>9 DEF k
<1>13. CallsSound'
  <2> SUFFICES ASSUME NEW d \in Callers
               PROVE  /\ Holds(d)' \subseteq Stored'
                      /\ call'[d].op \in Copying =>
                           /\ call'[d].copy.parent = store'[call'[d].task].parent
                           /\ \A s \in call'[d].copy.subtasks :
                                s \in Stored' /\ store'[s].parent = call'[d].task
    BY DEF CallsSound
  <2>1. CASE d = c
    <3>1. call[c].copy.parent = store[p].parent
      BY <1>1 DEF CallsSound, Copying
    <3>2. \A s \in call[c].copy.subtasks : s \in Stored /\ store[s].parent = p
      BY <1>1 DEF CallsSound, Copying
    <3> QED BY <2>1, <3>1, <3>2, <1>2, <1>3, <1>8, <1>9, <1>10, <1>11, <1>12
  <2>2. CASE d # c
    <3>1. call[d].op \in Copying => call[d].task \in Stored
      BY DEF CallsSound, Holds, Copying, Methods, Touch
    <3> QED BY <2>2, <3>1, <1>8, <1>9 DEF CallsSound
  <2> QED BY <2>1, <2>2
<1>14. FinalSound'
  <2>1. ASSUME NEW s \in final, NEW d \in Callers, s \in Holds(d)'
        PROVE  /\ call'[d].op \notin {"dispatch", "mark"}
               /\ call'[d].op \in Copying => call'[d].copy.status \in Terminal
    <3>1. CASE d = c
      <4>1. s \in Holds(c)
        BY <2>1, <3>1, <1>10
      <4>2. call[c].copy.status \in Terminal
        BY <4>1, <1>1 DEF FinalSound, Copying
      <4> QED BY <3>1, <4>2, <1>9, <1>10, <1>11
    <3>2. CASE d # c
      BY <2>1, <3>2, <1>9 DEF FinalSound
    <3> QED BY <3>1, <3>2
  <2> QED BY <2>1, <1>6, <1>8 DEF FinalSound
<1>15. LinksLead'
  BY <1>3, <1>8 DEF LinksLead
<1>16. \A s \in Tasks : Pending(s)' = Pending(s)
  BY <1>1, <1>6, <1>10, PendingSame DEF Pending
<1>17. Counting'
  <2>1. Cardinality(Pending(t)) = 0
    <3>1. Pending(t) = {}
      BY <1>6 DEF Pending, Holds
    <3> QED BY <3>1, FS_EmptySet
  <2>2. marks[t] \in Nat
    BY TaskConstants DEF TypeOK
  <2>3. r.attempts + Cardinality(Pending(t)) <= marks[t]
    BY <1>3, <2>1, <2>2
  <2>4. ASSUME NEW s \in Tasks, s \in Stored'
        PROVE  store'[s].attempts + Cardinality(Pending(s)) <= marks[s]
    BY <2>3, <2>4, <1>8 DEF Counting
  <2>5. ASSUME NEW s \in Tasks, NEW d \in Callers, call'[d].op \in Copying, call'[d].task = s
        PROVE  call'[d].copy.attempts + Cardinality(Pending(s)) <= marks[s]
    <3>1. CASE d = c
      <4>1. call[c].copy.attempts + Cardinality(Pending(p)) <= marks[p]
        BY <1>1, <1>2 DEF Counting, Copying
      <4> QED BY <2>5, <3>1, <4>1, <1>9, <1>11, <1>12
    <3>2. CASE d # c
      BY <2>5, <3>2, <1>9 DEF Counting
    <3> QED BY <3>1, <3>2
  <2> QED BY <2>4, <2>5, <1>6, <1>16 DEF Counting
<1> QED BY <1>7, <1>13, <1>14, <1>15, <1>17

(* The steps that load, give up or end, and change no task.                *)
LEMMA LoadsKeep ==
    ASSUME IInv, NEW c \in Callers, NEW t,
           \/ LoadParent(c, t) \/ Begin(c, t) \/ BeginCheck(c, t)
           \/ ReadEvaluable(c) \/ DispatchNone(c) \/ MarkLoad(c)
           \/ EvaluationLoad(c) \/ DispatchTask(c)
    PROVE  IInv'
<1>1. /\ TypeOK /\ call[c] \in Call /\ UNCHANGED <<store, final, marks>>
      /\ \A s \in Stored : s \in Tasks /\ store[s] \in Task
      /\ \A s \in final : s \in Stored /\ store[s].status \in Terminal
      /\ Holds(c) \subseteq Stored
  BY StoredTasks DEF IInv, TypeOK, FinalSound, CallsSound, LoadParent, Begin, BeginCheck,
     ReadEvaluable, DispatchNone, MarkLoad, EvaluationLoad, DispatchTask
<1>2. ASSUME NEW k \in Call, k.op \in Methods \cup {"subtask"},
             k.task \in Stored, k.copy = store[k.task],
             call' = [call EXCEPT ![c] = k],
             k.op = "mark" => k.task \notin final,
             k.op = "evaluate" => call[c].op = "reload" /\ call[c].task = k.task,
             k.op # "evaluate" => call[c].op \in {"idle", "dispatch"}
      PROVE  IInv'
  <2>1. k.op \notin {"reload", "emit", "dispatch"}
    BY <1>2 DEF Methods, Touch
  <2>2. \A u \in Tasks : c \in Pending(u) <=> (k.op \in {"reload", "evaluate"} /\ k.task = u)
    BY <1>2, <2>1 DEF Pending
  <2> QED BY <1>1, <1>2, <2>1, <2>2, CallStep
<1>3. ASSUME call' = [call EXCEPT ![c] = Idle], call[c].op \in {"dispatch", "emit"}
      PROVE  IInv'
  <2>1. Idle \in Call /\ Idle.op = "idle"
    BY CallRecords DEF Idle
  <2>2. Idle.op \notin Copying \cup {"reload", "emit", "dispatch", "mark"}
    BY <2>1 DEF Copying, Methods, Touch
  <2>3. \A u \in Tasks : c \in Pending(u) <=> (Idle.op \in {"reload", "evaluate"} /\ Idle.task = u)
    BY <1>3, <2>1 DEF Pending
  <2> QED BY <1>1, <1>3, <2>2, <2>3, <2>1, CallStep
<1>4. CASE LoadParent(c, t)
  <2> DEFINE k == [op |-> "subtask", task |-> t, copy |-> store[t]]
  <2>1. call' = [call EXCEPT ![c] = k] /\ t \in Stored /\ call[c].op = "idle"
    BY <1>4 DEF LoadParent, Goto, Idle
  <2>2. k \in Call /\ k.op = "subtask" /\ k.task = t /\ k.copy = store[t]
    BY <2>1, <1>1, CallRecords DEF Copying, Methods
  <2> HIDE DEF k
  <2> QED BY <1>2, <2>1, <2>2 DEF Methods, Touch
<1>5. CASE Begin(c, t)
  <2>1. PICK method \in {"complete", "fail, cancel", "satisfy", Touch} : Load(c, method, t)
    BY <1>5 DEF Begin
  <2>2. method \in Methods /\ method \notin {"mark", "evaluate"}
    BY DEF Methods, Touch
  <2> DEFINE k == [op |-> method, task |-> t, copy |-> store[t]]
  <2>3. call' = [call EXCEPT ![c] = k]
    BY <2>1 DEF Load, Goto
  <2>4. call[c] = Idle /\ t \in Stored
    BY <1>5 DEF Begin
  <2>5. k \in Call /\ k.op = method /\ k.task = t /\ k.copy = store[t]
    BY <2>2, <2>4, <1>1, CallRecords DEF Copying, Methods
  <2> HIDE DEF k
  <2>6. call[c].op = "idle" /\ method \in Methods \cup {"subtask"}
    <3>1. call[c].op = "idle"
      BY <2>4, IdleOp
    <3> QED BY <2>2, <3>1
  <2> QED BY <1>2, <2>2, <2>3, <2>4, <2>5, <2>6
<1>6. CASE BeginCheck(c, t)
  <2> DEFINE k == [op |-> "check", task |-> t, copy |-> store[t]]
  <2>1. call' = [call EXCEPT ![c] = k] /\ t \in Stored /\ call[c].op = "idle"
    BY <1>6 DEF BeginCheck, Load, Goto, Idle
  <2>2. k \in Call /\ k.op = "check" /\ k.task = t /\ k.copy = store[t]
    BY <2>1, <1>1, CallRecords DEF Copying, Methods
  <2> HIDE DEF k
  <2> QED BY <1>2, <2>1, <2>2 DEF Methods, Touch
<1>7. CASE ReadEvaluable(c)
  <2> DEFINE k == [op |-> "dispatch", seen |-> Evaluable]
  <2>1. Evaluable \subseteq Stored \ final
    BY <1>1 DEF Evaluable, Terminal
  <2>2. k \in Call /\ k.op = "dispatch" /\ k.seen = Evaluable
    BY <1>1, <2>1, CallRecords
  <2>3. k.op \notin Copying \cup {"reload", "emit", "mark"}
    BY DEF Copying, Methods, Touch
  <2>4. \A u \in Tasks : c \in Pending(u) <=> (k.op \in {"reload", "evaluate"} /\ k.task = u)
    BY <1>7, <2>2 DEF Pending, ReadEvaluable, Idle
  <2>5. call' = [call EXCEPT ![c] = k]
    BY <1>7 DEF ReadEvaluable, Goto
  <2> HIDE DEF k
  <2> QED BY <1>1, <2>1, <2>2, <2>3, <2>4, <2>5, CallStep
<1>8. CASE DispatchNone(c)
  BY <1>3, <1>8 DEF DispatchNone, Return, Goto
<1>9. CASE MarkLoad(c)
  <2>1. PICK s \in call[c].seen : Load(c, "mark", s)
    BY <1>9 DEF MarkLoad
  <2>2. call[c].op = "dispatch" /\ s \in Holds(c)
    BY <1>9, <2>1 DEF MarkLoad, Holds
  <2>3. s \in Stored /\ s \notin final
    BY <1>1, <2>2 DEF IInv, FinalSound
  <2> DEFINE k == [op |-> "mark", task |-> s, copy |-> store[s]]
  <2>4. call' = [call EXCEPT ![c] = k]
    BY <2>1 DEF Load, Goto
  <2>5. k \in Call /\ k.op = "mark" /\ k.task = s /\ k.copy = store[s]
    BY <2>3, <1>1, CallRecords DEF Copying, Methods
  <2> HIDE DEF k
  <2> QED BY <1>2, <2>2, <2>3, <2>4, <2>5 DEF Methods, Touch
<1>10. CASE EvaluationLoad(c)
  <2>1. call[c].task \in Stored
    BY <1>1, <1>10 DEF EvaluationLoad, Holds
  <2> DEFINE k == [op |-> "evaluate", task |-> call[c].task, copy |-> store[call[c].task]]
  <2>2. call' = [call EXCEPT ![c] = k] /\ call[c].op = "reload"
    BY <1>10 DEF EvaluationLoad, Load, Goto
  <2>3. k \in Call /\ k.op = "evaluate" /\ k.task = call[c].task /\ k.copy = store[call[c].task]
    BY <2>1, <1>1, CallRecords DEF Copying, Methods
  <2> HIDE DEF k
  <2> QED BY <1>2, <2>1, <2>2, <2>3 DEF Methods, Touch
<1>11. CASE DispatchTask(c)
  BY <1>3, <1>11 DEF DispatchTask, Return, Goto
<1> QED BY <1>4, <1>5, <1>6, <1>7, <1>8, <1>9, <1>10, <1>11

(* What a call that stores has in hand.                                    *)
LEMMA CopyInHand ==
    ASSUME IInv, NEW c \in Callers, call[c].op \in Copying
    PROVE  /\ call[c].task \in Tasks /\ call[c].copy \in Task
           /\ call[c].task \in Holds(c)
           /\ call[c].task \in final => call[c].op # "mark" /\ call[c].copy.status \in Terminal
           /\ call[c].copy.attempts + Cardinality(Pending(call[c].task)) <= marks[call[c].task]
           /\ call[c].copy.attempts \in Nat
           /\ marks \in [Tasks -> 0..MaxAttempts]
<1>1. call[c].task \in Tasks /\ call[c].copy \in Task
  BY CallFields DEF IInv, TypeOK
<1>2. call[c].task \in Holds(c)
  BY DEF Holds, Copying, Methods, Touch
<1>3. call[c].copy.attempts \in Nat
  BY <1>1, TaskFields, TaskConstants
<1> QED BY <1>1, <1>2, <1>3 DEF IInv, FinalSound, Counting, TypeOK

(* A store that counts nothing and leaves the marks.                       *)
LEMMA PlainStore ==
    ASSUME IInv, NEW c \in Callers, call[c].op \in Copying \ {"evaluate", "mark"},
           NEW r \in Task, NEW t, t = call[c].task,
           call' = [call EXCEPT ![c] = Idle], store' = [store EXCEPT ![t] = r],
           r.parent = call[c].copy.parent, r.subtasks \subseteq call[c].copy.subtasks,
           r.attempts = call[c].copy.attempts,
           final' \subseteq final \cup {t}, t \in final' => r.status \in Terminal,
           t \in final' \ final => Alone(c), UNCHANGED marks
    PROVE  IInv'
<1>1. t \in Tasks /\ marks \in [Tasks -> 0..MaxAttempts] /\ r.attempts + Cardinality(Pending(t)) <= marks[t]
  BY CopyInHand
<1>2. Idle \in Call /\ Idle.op = "idle"
  BY CallRecords DEF Idle
<1>3. Pending(t)' = Pending(t)
  <2>1. TypeOK /\ c \notin Pending(t) /\ Idle.op \notin {"reload", "evaluate"}
    BY <1>2 DEF IInv, Pending, Copying, Methods, Touch
  <2> QED BY <2>1, PendingSame
<1>4. Cardinality(Pending(t)) \in Nat /\ marks[t] \in Nat
  <2>1. marks[t] \in 0..MaxAttempts
    BY <1>1
  <2> QED BY <2>1, PendingFinite, TaskConstants
<1>5. r.attempts + Cardinality(Pending(t)') <= marks'[t]
  BY <1>1, <1>3
<1>6. Cardinality(Pending(t)') + marks[t] <= Cardinality(Pending(t)) + marks'[t]
  BY <1>3, <1>4
<1> QED BY <1>1, <1>2, <1>5, <1>6, StoreStep

(* The stores of a copy: the link, a method, a condition, a mark, a count. *)
LEMMA StoresKeep ==
    ASSUME IInv, NEW c \in Callers,
           LinkParent(c) \/ Store(c) \/ StoreSatisfied(c) \/ MarkStore(c) \/ EvaluationStore(c)
    PROVE  IInv'
<1> DEFINE t == call[c].task
           copy == call[c].copy
<1>1. call[c].op \in Copying
  BY DEF LinkParent, Store, StoreSatisfied, MarkStore, EvaluationStore, Copying, Methods
<1>2. /\ t \in Tasks /\ copy \in Task /\ t \in Holds(c)
      /\ t \in final => call[c].op # "mark" /\ copy.status \in Terminal
      /\ copy.attempts + Cardinality(Pending(t)) <= marks[t]
      /\ copy.attempts \in Nat /\ marks[t] \in 0..MaxAttempts
      /\ marks \in [Tasks -> 0..MaxAttempts]
  BY <1>1, CopyInHand
<1>3. TypeOK
  BY DEF IInv
<1>4. CASE LinkParent(c)
  <2>1. /\ call[c].op \in Copying \ {"evaluate", "mark"}
        /\ call' = [call EXCEPT ![c] = Idle] /\ store' = [store EXCEPT ![t] = copy]
        /\ UNCHANGED <<final, marks>>
    BY <1>1, <1>4 DEF LinkParent, Return, Goto
  <2> QED BY <1>2, <2>1, PlainStore
<1>5. CASE Store(c)
  <2> DEFINE r == Changed(call[c].op, copy)
  <2>1. call[c].op \in Methods \ {"mark", "evaluate", "satisfy"} /\ call[c].op \in Copying \ {"evaluate", "mark"}
    BY <1>1, <1>5 DEF Store
  <2>2. /\ r \in Task /\ r.parent = copy.parent /\ r.subtasks = copy.subtasks
        /\ r.attempts = copy.attempts
        /\ copy.status \in Terminal => r.status \in Terminal
        /\ call[c].op # Touch => r.status \in Terminal
    <3>1. PICK m \in Methods : m = call[c].op
      BY <2>1
    <3>2. m = Touch \/ m \in {"complete", "fail, cancel", "check"}
      BY <2>1, <3>1 DEF Methods
    <3>3. m # "evaluate" /\ m # "mark"
      BY <2>1, <3>1
    <3> QED BY <1>2, <3>1, <3>2, <3>3, ChangedTask
  <2>3. /\ call' = [call EXCEPT ![c] = Idle] /\ store' = [store EXCEPT ![t] = r]
        /\ UNCHANGED marks
        /\ final' = IF call[c].op # Touch /\ Alone(c) THEN final \cup {t} ELSE final
    BY <1>5 DEF Store, Return, Goto
  <2>4. /\ final' \subseteq final \cup {t} /\ t \in final' => r.status \in Terminal
        /\ t \in final' \ final => Alone(c)
    BY <1>2, <2>2, <2>3
  <2> HIDE DEF r
  <2> QED BY <1>2, <2>1, <2>2, <2>3, <2>4, PlainStore
<1>6. CASE StoreSatisfied(c)
  <2>1. PICK k \in Conditions : store' = [store EXCEPT ![t] = Satisfy(copy, {k})]
    BY <1>6 DEF StoreSatisfied
  <2> DEFINE r == Satisfy(copy, {k})
  <2>2. /\ r \in Task /\ r.parent = copy.parent /\ r.subtasks = copy.subtasks
        /\ r.attempts = copy.attempts /\ r.status = copy.status
    BY <1>2, SatisfiedTask
  <2>3. /\ call[c].op \in Copying \ {"evaluate", "mark"}
        /\ call' = [call EXCEPT ![c] = Idle] /\ store' = [store EXCEPT ![t] = r]
        /\ UNCHANGED <<final, marks>>
    BY <1>1, <1>6, <2>1 DEF StoreSatisfied, Return, Goto
  <2> HIDE DEF r
  <2> QED BY <1>2, <2>2, <2>3, PlainStore
<1>7. CASE MarkStore(c)
  <2> DEFINE r == Changed("mark", copy)
             k == [op |-> "reload", task |-> t]
  <2>1. /\ r \in Task /\ r.parent = copy.parent /\ r.subtasks = copy.subtasks
        /\ r.attempts = copy.attempts
    BY <1>2, ChangedTask DEF Methods
  <2>2. k \in Call /\ k.op = "reload" /\ k.task = t
    BY <1>2, CallRecords
  <2>3. /\ call' = [call EXCEPT ![c] = k] /\ store' = [store EXCEPT ![t] = r]
        /\ marks' = [marks EXCEPT ![t] = @ + 1] /\ UNCHANGED final
        /\ call[c].op = "mark" /\ marks[t] < MaxAttempts
    BY <1>7 DEF MarkStore, Goto
  <2> HIDE DEF r, k
  <2>4. marks' \in [Tasks -> 0..MaxAttempts] /\ marks'[t] = marks[t] + 1
        /\ \A s \in Tasks \ {t} : marks'[s] = marks[s]
    BY <1>2, <2>3, TaskConstants
  <2>5. ASSUME NEW s, s = t
        PROVE  Cardinality(Pending(s)') = Cardinality(Pending(s)) + 1 /\ Cardinality(Pending(s)) \in Nat
    <3>1. c \notin Pending(s)
      BY <2>3 DEF Pending
    <3> QED BY <1>3, <2>2, <2>3, <2>5, <3>1, PendingMore, PendingFinite
  <2>6. t \notin final
    BY <1>2, <2>3
  <2>7. PICK s : s = t
    OBVIOUS
  <2>8. /\ r.attempts + Cardinality(Pending(s)') <= marks'[s]
        /\ Cardinality(Pending(s)') + marks[s] <= Cardinality(Pending(s)) + marks'[s]
    BY <1>2, <2>1, <2>4, <2>5, <2>7, TaskConstants
  <2> QED BY <1>1, <1>2, <2>1, <2>2, <2>3, <2>4, <2>6, <2>7, <2>8, StoreStep
<1>8. CASE EvaluationStore(c)
  <2> DEFINE r == Changed("evaluate", copy)
             k == [op |-> "emit", task |-> t]
  <2>1. PICK s : s = t
    OBVIOUS
  <2>2. k \in Call /\ k.op = "emit" /\ k.task = t
    BY <1>2, CallRecords
  <2>3. /\ call' = [call EXCEPT ![c] = k] /\ store' = [store EXCEPT ![t] = r]
        /\ UNCHANGED <<final, marks>> /\ call[c].op = "evaluate"
    BY <1>8 DEF EvaluationStore, Goto
  <2> HIDE DEF k
  <2>4. Cardinality(Pending(s)') = Cardinality(Pending(s)) - 1 /\ Cardinality(Pending(s)) >= 1
    <3>1. c \in Pending(s)
      BY <2>1, <2>3 DEF Pending
    <3> QED BY <1>3, <2>2, <2>3, <3>1, PendingLess
  <2>5. Cardinality(Pending(s)) \in Nat
    BY PendingFinite
  <2>6. copy.attempts < MaxAttempts
    BY <1>2, <2>1, <2>4, <2>5, TaskConstants
  <2>7. /\ r \in Task /\ r.parent = copy.parent /\ r.subtasks = copy.subtasks
        /\ r.attempts = copy.attempts + 1
        /\ copy.status \in Terminal => r.status \in Terminal
    BY <1>2, <2>6, ChangedTask DEF Methods
  <2> HIDE DEF r
  <2>8. /\ r.attempts + Cardinality(Pending(s)') <= marks'[s]
        /\ Cardinality(Pending(s)') + marks[s] <= Cardinality(Pending(s)) + marks'[s]
    BY <1>2, <2>1, <2>3, <2>4, <2>5, <2>7, TaskConstants
  <2> QED BY <1>1, <1>2, <2>1, <2>2, <2>3, <2>7, <2>8, StoreStep
<1> QED BY <1>4, <1>5, <1>6, <1>7, <1>8

----------------------------------------------------------------------------
(* The invariant.                                                          *)

LEMMA InitKeeps == Init => IInv
<1> SUFFICES ASSUME Init PROVE IInv
  OBVIOUS
<1>1. TypeOK
  <2>1. Idle \in Call
    BY CallRecords
  <2>2. 0 \in 0..MaxAttempts
    BY TaskConstants
  <2> QED BY <2>1, <2>2 DEF Init, TypeOK
<1>2. Stored = {}
  BY DEF Init, Stored
<1>3. \A c \in Callers : call[c].op = "idle" /\ Holds(c) = {} /\ call[c].op \notin Copying
  BY DEF Init, Idle, Holds, Copying, Methods, Touch
<1>4. final = {}
  BY DEF Init
<1> QED BY <1>1, <1>2, <1>3, <1>4 DEF IInv, CallsSound, FinalSound, LinksLead, Counting

LEMMA CrashKeeps == IInv /\ Crash => IInv'
<1> SUFFICES ASSUME IInv, Crash PROVE IInv'
  OBVIOUS
<1> USE DEF IInv
<1>1. UNCHANGED <<store, final, marks>> /\ Stored' = Stored /\ \A c \in Callers : call'[c] = Idle
  BY DEF Crash, Stored
<1>2. TypeOK'
  BY CallRecords DEF Crash, TypeOK
<1>3. \A c \in Callers : Holds(c)' = {} /\ call'[c].op \notin Copying \cup {"reload", "evaluate"}
  BY <1>1, IdleOp DEF Holds
<1>4. ASSUME NEW t \in Tasks
      PROVE  t \in Stored => store[t].attempts + Cardinality(Pending(t)') <= marks[t]
  <2>1. Pending(t)' = {}
    BY <1>3 DEF Pending
  <2>2. Cardinality(Pending(t)') = 0
    BY <2>1, FS_EmptySet
  <2>3. t \in Stored => store[t].attempts \in Nat
    BY StoredTasks, TaskFields, TaskConstants
  <2>4. marks[t] \in Nat
    BY TaskConstants DEF TypeOK
  <2>5. Cardinality(Pending(t)) \in Nat
    BY PendingFinite
  <2> QED BY <2>2, <2>3, <2>4, <2>5 DEF Counting
<1>5. CallsSound' /\ FinalSound' /\ LinksLead'
  BY <1>1, <1>3 DEF CallsSound, FinalSound, LinksLead
<1>6. Counting'
  BY <1>1, <1>3, <1>4 DEF Counting
<1> QED BY <1>2, <1>5, <1>6

LEMMA NextKeeps == IInv /\ [Next]_vars => IInv'
<1> SUFFICES ASSUME IInv, [Next]_vars PROVE IInv'
  OBVIOUS
<1>1. ASSUME NEW t \in Tasks, CreateTask(t) PROVE IInv'
  <2>1. PICK conditions \in [Conditions -> Condition \ {"satisfied"}] :
            store' = [store EXCEPT ![t] = NewTask(conditions, None)]
    BY <1>1 DEF CreateTask
  <2> DEFINE r == NewTask(conditions, None)
  <2>2. r \in Task /\ r.subtasks = {} /\ r.attempts = 0
    BY NewTaskType
  <2>3. /\ t \notin Stored /\ \A d \in Callers : t \notin Holds(d)
        /\ store' = [store EXCEPT ![t] = r] /\ UNCHANGED <<call, final, marks>>
    BY <1>1, <2>1 DEF CreateTask
  <2> HIDE DEF r
  <2> QED BY <2>2, <2>3, NewStep
<1>2. ASSUME NEW c \in Callers, CallerStep(c) PROVE IInv'
  <2>1. ASSUME NEW t \in Tasks, LoadParent(c, t) \/ Begin(c, t) \/ BeginCheck(c, t) PROVE IInv'
    BY <2>1, LoadsKeep
  <2>2. ASSUME NEW t \in Tasks, CreateSubtask(c, t) PROVE IInv'
    BY <2>2, SubtaskKeeps
  <2>3. CASE ReadEvaluable(c) \/ DispatchNone(c) \/ MarkLoad(c) \/ EvaluationLoad(c) \/ DispatchTask(c)
    <3>1. PICK t : t = None
      OBVIOUS
    <3> QED BY <2>3, <3>1, LoadsKeep
  <2>4. CASE LinkParent(c) \/ Store(c) \/ StoreSatisfied(c) \/ MarkStore(c) \/ EvaluationStore(c)
    BY <2>4, StoresKeep
  <2> QED BY <1>2, <2>1, <2>2, <2>3, <2>4 DEF CallerStep
<1>3. CASE UNCHANGED vars
  BY <1>3 DEF vars, IInv, TypeOK, CallsSound, FinalSound, LinksLead, Counting, Stored, Holds, Pending
<1> QED BY <1>1, <1>2, <1>3, CrashKeeps DEF Next

----------------------------------------------------------------------------
(* Tasks and calls keep their shape (task_manager.rs, task.rs).            *)
THEOREM TypeCorrect == Spec => []TypeOK
<1>1. IInv => TypeOK
  BY DEF IInv
<1> QED BY <1>1, InitKeeps, NextKeeps, PTL DEF Spec

(* A task closed by a call that no other overlapped stays closed, however  *)
(* many calls follow (complete_task, mark_task_in_progress).               *)
THEOREM ClosedStays == Spec => []ClosedAloneStays
<1>1. IInv => ClosedAloneStays
  BY DEF IInv, FinalSound, ClosedAloneStays
<1> QED BY <1>1, InitKeeps, NextKeeps, PTL DEF Spec

(* A parent names only subtasks that are stored and its own, at any point  *)
(* of a crash (create_subtask).                                            *)
THEOREM LinksAlwaysLead == Spec => []LinksLead
<1>1. IInv => LinksLead
  BY DEF IInv
<1> QED BY <1>1, InitKeeps, NextKeeps, PTL DEF Spec

(* No attempt is counted that was not made (record_evaluation).            *)
THEOREM AttemptsNeverInvented == Spec => []AttemptsMade
<1>1. IInv => AttemptsMade
  <2> SUFFICES ASSUME IInv, NEW t \in Stored PROVE store[t].attempts <= marks[t]
    BY DEF AttemptsMade
  <2>1. t \in Tasks /\ store[t].attempts \in Nat /\ marks[t] \in Nat
    <3>1. t \in Tasks /\ store[t].attempts \in 0..MaxAttempts
      BY StoredTasks, TaskFields DEF IInv
    <3>2. marks[t] \in 0..MaxAttempts
      BY <3>1 DEF IInv, TypeOK
    <3> QED BY <3>1, <3>2, TaskConstants
  <2>2. Cardinality(Pending(t)) \in Nat
    BY PendingFinite
  <2> QED BY <2>1, <2>2 DEF IInv, Counting
<1> QED BY <1>1, InitKeeps, NextKeeps, PTL DEF Spec
=============================================================================
