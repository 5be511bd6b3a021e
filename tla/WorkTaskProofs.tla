--------------------------- MODULE WorkTaskProofs ---------------------------
(***************************************************************************)
(* Proofs about WorkTask, for any number of tasks, sites and executions.   *)
(*                                                                         *)
(* Whatever overlaps, a task has one site, its home, for good, since its   *)
(* id is new; so once its tree is gone it stays gone, and once its changes *)
(* have landed nothing of it is left anywhere else.                        *)
(***************************************************************************)
EXTENDS WorkTask, FiniteSetTheorems, TLAPS

NewExec == [kind : {"new"}, step : {"task", "lease"}, task : Tasks, site : Sites,
            mode : PrModes, expiry : 0..MaxTime]
PrExec == [kind : {"pr"},
           step : {"merging", "merge", "push", "review", "remove", "delete", "prune", "done"},
           task : Tasks, record : TaskRecord]
ReclaimExec == [kind : {"reclaim"},
                step : {"next", "status", "quarantine", "rmdir", "remove", "delete", "prune", "abandon"},
                at : 0..MaxTime, left : SUBSET Tasks,
                task : Tasks \cup {None}, record : TaskRecord \cup {None}]

Executions == {Idle} \cup NewExec \cup PrExec \cup ReclaimExec

(* The shapes TypeOK leaves open.                                          *)
Shapes ==
    /\ exec \in [Commands -> Executions]
    /\ \E n \in 0..MaxWork : Made = 1..n
    /\ \A s \in Sites : /\ branch[s] # None => branch[s] \subseteq Made
                        /\ tree[s] # None => tree[s].dirty \subseteq Made /\ tree[s].for \in ids

(* The site of a task: on record, or about to be.                          *)
Home(t, s) ==
    \/ task[t] # None /\ task[t].site = s
    \/ \E c \in Commands : At(c, "new", "task") /\ exec[c].task = t /\ exec[c].site = s

HomesFixed ==
    /\ \A t \in Known : t \in ids /\ (task[t].mode # "none" => task[t].site # None)
    /\ \A c \in Commands : At(c, "new", "task") =>
         /\ task[exec[c].task] = None /\ exec[c].task \in ids
         /\ \A d \in Commands : At(d, "new", "task") /\ exec[d].task = exec[c].task => d = c
    /\ \A c \in Commands : At(c, "new", "lease") => exec[c].task \in Known

TreesHome ==
    \A s \in Sites, x \in Sites \cup {None} :
        tree[s] # None /\ Home(tree[s].for, x) => x = s

(* A change of a task with a home is there, on main or in quarantine.      *)
WorkAtHome ==
    ~ crossVolume => \A s \in Sites, w \in Made : Home(author[w], s) =>
        \/ w \in main \cup quarantined
        \/ branch[s] # None /\ w \in branch[s]
        \/ tree[s] # None /\ w \in tree[s].dirty

NoTree(t) == \A s \in Sites : tree[s] # None => tree[s].for # t

Landed(t) == ~ crossVolume => \A w \in Made : author[w] = t => w \in main \cup quarantined

(* What an execution knows of its task holds although others act.          *)
Knows(c) ==
    /\ exec[c].kind = "pr" =>
         LET t == exec[c].task IN
         /\ t \in Known
         /\ exec[c].record.site = task[t].site /\ exec[c].record.mode = task[t].mode
         /\ exec[c].step \in {"merge", "push", "remove", "delete"} => task[t].site # None
         /\ exec[c].step \in {"delete", "prune", "done"} => NoTree(t)
         /\ exec[c].step \in {"prune", "done"} => Landed(t)
    /\ exec[c].kind = "reclaim" =>
         LET t == exec[c].task IN
         /\ exec[c].left \subseteq Known
         /\ exec[c].step = "rmdir" => crossVolume
         /\ exec[c].step # "next" =>
              /\ t \in Known /\ exec[c].record # None
              /\ exec[c].record.site = task[t].site /\ exec[c].record.mode = task[t].mode
              /\ task[t].site # None
         /\ exec[c].step \in {"delete", "prune", "abandon"} => NoTree(t)

ExecutionsKnow == \A c \in Commands : Knows(c)

IInv == TypeOK /\ Shapes /\ HomesFixed /\ TreesHome /\ WorkAtHome /\ ExecutionsKnow
        /\ NoWorkLost /\ DoneIsLanded /\ ClosedHasNoTree

----------------------------------------------------------------------------
(* Executions.                                                             *)

LEMMA KindTells ==
    ASSUME Shapes, NEW c \in Commands
    PROVE  /\ exec[c] \in Executions
           /\ exec[c].kind = "new" => exec[c] \in NewExec
           /\ exec[c].kind = "pr" => exec[c] \in PrExec
           /\ exec[c].kind = "reclaim" => exec[c] \in ReclaimExec
<1>1. exec[c] \in Executions
  BY DEF Shapes
<1> QED BY <1>1 DEF Executions, Idle, NewExec, PrExec, ReclaimExec

(* Going on to a step that the kind has.                                   *)
LEMMA GotoTyped ==
    ASSUME Shapes, NEW c \in Commands, NEW step, Goto(c, step),
           \/ exec[c].kind = "new" /\ step \in {"task", "lease"}
           \/ /\ exec[c].kind = "pr"
              /\ step \in {"merging", "merge", "push", "review", "remove", "delete", "prune", "done"}
           \/ /\ exec[c].kind = "reclaim"
              /\ step \in {"next", "status", "quarantine", "rmdir", "remove", "delete", "prune", "abandon"}
    PROVE  /\ exec' \in [Commands -> Executions]
           /\ \A d \in Commands \ {c} : exec'[d] = exec[d]
           /\ exec'[c] = [exec[c] EXCEPT !.step = step]
<1>1. /\ exec \in [Commands -> Executions]
      /\ exec' = [exec EXCEPT ![c] = [exec[c] EXCEPT !.step = step]]
  BY DEF Shapes, Goto
<1>2. [exec[c] EXCEPT !.step = step] \in Executions
  BY KindTells DEF Executions, NewExec, PrExec, ReclaimExec
<1> QED BY <1>1, <1>2

LEMMA FinishTyped ==
    ASSUME Shapes, NEW c \in Commands, Finish(c)
    PROVE  /\ exec' \in [Commands -> Executions]
           /\ \A d \in Commands \ {c} : exec'[d] = exec[d]
           /\ exec'[c] = Idle
BY DEF Shapes, Finish, Executions

LEMMA StartTyped ==
    ASSUME Shapes, NEW c \in Commands, NEW e \in Executions, Start(c, e)
    PROVE  /\ exec' \in [Commands -> Executions]
           /\ \A d \in Commands \ {c} : exec'[d] = exec[d]
           /\ exec'[c] = e
BY DEF Shapes, Start

----------------------------------------------------------------------------
(* What a step does to the files and the branches, whichever action it is. *)

Unchanged == UNCHANGED <<tree, registered, branch, main, remote, merging, quarantined, author>>

Pruned == /\ registered' = {s \in registered : tree[s] # None}
          /\ UNCHANGED <<tree, branch, main, remote, merging, quarantined, author>>

Pushed(s) == /\ tree[s] # None /\ remote' = remote \cup branch[s]
             /\ UNCHANGED <<tree, registered, branch, main, merging, quarantined, author>>

MergeStopped == /\ merging' \in BOOLEAN
                /\ UNCHANGED <<tree, registered, branch, main, remote, quarantined, author>>

Added(t, s) == /\ CanAdd(s)
               /\ tree' = [tree EXCEPT ![s] = [for |-> t, dirty |-> {}]]
               /\ registered' = registered \cup {s}
               /\ branch' = [branch EXCEPT ![s] = {}]
               /\ UNCHANGED <<main, remote, merging, quarantined, author>>

Merged(s) == /\ branch[s] # None /\ main' = main \cup branch[s]
             /\ UNCHANGED <<tree, registered, branch, remote, merging, quarantined, author>>

Removed(s) == CanRemove(s) /\ GitRemove(s) /\ UNCHANGED <<quarantined, author>>

Deleted(s) == CanDelete(s) /\ GitDelete(s) /\ UNCHANGED <<quarantined, author>>

Moved(s) == /\ tree[s] # None
            /\ quarantined' = quarantined \cup tree[s].dirty
            /\ tree' = [tree EXCEPT ![s] = None]
            /\ UNCHANGED <<registered, branch, main, remote, merging, author>>

Copied(s) == /\ tree[s] # None
             /\ quarantined' = quarantined \cup tree[s].dirty
             /\ UNCHANGED <<tree, registered, branch, main, remote, merging, author>>

Erased(s) == /\ tree[s] # None /\ crossVolume
             /\ tree' = [tree EXCEPT ![s] = None]
             /\ UNCHANGED <<registered, branch, main, remote, merging, quarantined, author>>

Edited(s) == /\ Edit(s) /\ UNCHANGED <<ids, task, exec>>

FilesStep ==
    \/ Unchanged \/ Pruned \/ MergeStopped
    \/ \E s \in Sites : \/ Pushed(s) \/ Merged(s) \/ Removed(s) \/ Deleted(s)
                       \/ Moved(s) \/ Copied(s) \/ Erased(s)
                       \/ Edited(s) \/ Commit(s)
    \/ \E t \in Tasks, s \in Sites : GenerateId(t) /\ Added(t, s)

(* The site an execution of new_pr or reclaim is at is one there is.       *)
LEMMA SiteOfTask ==
    ASSUME IInv, NEW c \in Commands,
           \/ exec[c].kind = "pr" /\ exec[c].step \in {"merge", "push", "remove", "delete"}
           \/ exec[c].kind = "reclaim" /\ exec[c].step # "next"
    PROVE  /\ exec[c].record \in TaskRecord /\ exec[c].task \in Known
           /\ exec[c].record.site \in Sites /\ exec[c].record.site = task[exec[c].task].site
<1>1. exec[c].record \in TaskRecord
  BY KindTells DEF IInv, ExecutionsKnow, Knows, PrExec, ReclaimExec
<1>2. /\ exec[c].task \in Known /\ exec[c].record.site = task[exec[c].task].site
      /\ task[exec[c].task].site # None
  BY DEF IInv, ExecutionsKnow, Knows
<1> QED BY <1>1, <1>2 DEF TaskRecord

LEMMA FilesSteps == IInv /\ [Next]_vars => FilesStep /\ crossVolume' = crossVolume
<1> SUFFICES ASSUME IInv, [Next]_vars PROVE FilesStep /\ crossVolume' = crossVolume
  OBVIOUS
<1>1. ASSUME NEW c \in Commands, New(c) PROVE FilesStep /\ crossVolume' = crossVolume
  <2>1. ASSUME NEW t \in Tasks, NEW s \in Sites, NEW mode, NEW expiry, NewAdd(c, t, s, mode, expiry)
        PROVE  GenerateId(t) /\ Added(t, s) /\ crossVolume' = crossVolume
    BY <2>1 DEF NewAdd, Added
  <2>2. ASSUME (\E t \in Tasks : NewEpic(c, t)) \/ NewWriteTask(c) \/ NewWriteLease(c)
        PROVE  Unchanged /\ crossVolume' = crossVolume
    BY <2>2 DEF NewEpic, NewWriteTask, NewWriteLease, git, Unchanged
  <2> QED BY <1>1, <2>1, <2>2 DEF New, FilesStep
<1>2. ASSUME NEW c \in Commands, NewPr(c) PROVE FilesStep /\ crossVolume' = crossVolume
  <2>1. ASSUME (\E t \in Tasks : PrRead(c, t)) \/ PrMerging(c) \/ PrDone(c) \/ PrReview(c)
        PROVE  Unchanged /\ crossVolume' = crossVolume
    BY <2>1 DEF PrRead, PrMerging, PrDone, PrReview, git, Unchanged
  <2>2. ASSUME PrMerge(c) \/ PrRemove(c) \/ PrDelete(c) \/ PrPush(c)
        PROVE  /\ PrSite(c) \in Sites /\ crossVolume' = crossVolume
               /\ Merged(PrSite(c)) \/ Removed(PrSite(c)) \/ Deleted(PrSite(c)) \/ Pushed(PrSite(c))
    <3>1. PrSite(c) \in Sites
      BY <2>2, SiteOfTask DEF PrMerge, PrRemove, PrDelete, PrPush, PrSite, At
    <3> QED BY <2>2, <3>1 DEF PrMerge, PrRemove, PrDelete, PrPush, Merged, Removed, Deleted, Pushed
  <2>3. ASSUME PrConflict(c) PROVE MergeStopped /\ crossVolume' = crossVolume
    BY <2>3 DEF PrConflict, MergeStopped
  <2>4. ASSUME PrPrune(c) PROVE Pruned /\ crossVolume' = crossVolume
    BY <2>4 DEF PrPrune, GitPrune, Pruned
  <2> QED BY <1>2, <2>1, <2>2, <2>3, <2>4 DEF NewPr, FilesStep
<1>3. ASSUME NEW c \in Commands, Reclaim(c) PROVE FilesStep /\ crossVolume' = crossVolume
  <2>1. ASSUME \/ ReclaimList(c) \/ (\E t \in Tasks : ReclaimNext(c, t)) \/ ReclaimStatus(c)
               \/ ReclaimAbandon(c) \/ ReclaimEnd(c)
        PROVE  Unchanged /\ crossVolume' = crossVolume
    BY <2>1 DEF ReclaimList, ReclaimNext, ReclaimStatus, ReclaimAbandon, ReclaimEnd, git, Unchanged
  <2>2. ASSUME ReclaimRemove(c) \/ ReclaimDelete(c) \/ ReclaimQuarantine(c) \/ ReclaimCopy(c) \/ ReclaimRmdir(c)
        PROVE  /\ RcSite(c) \in Sites /\ crossVolume' = crossVolume
               /\ \/ Removed(RcSite(c)) \/ Deleted(RcSite(c)) \/ Moved(RcSite(c))
                  \/ Copied(RcSite(c)) \/ Erased(RcSite(c))
    <3>1. RcSite(c) \in Sites
      BY <2>2, SiteOfTask DEF ReclaimRemove, ReclaimDelete, ReclaimQuarantine, ReclaimCopy, ReclaimRmdir, RcSite, At
    <3>2. CASE ReclaimRmdir(c)
      BY <3>1, <3>2 DEF ReclaimRmdir, IInv, ExecutionsKnow, Knows, At, Erased
    <3>3. CASE ReclaimRemove(c) \/ ReclaimDelete(c)
      BY <3>1, <3>3 DEF ReclaimRemove, ReclaimDelete, Removed, Deleted
    <3>4. CASE ReclaimQuarantine(c) \/ ReclaimCopy(c)
      BY <3>1, <3>4 DEF ReclaimQuarantine, ReclaimCopy, Moved, Copied, git
    <3> QED BY <2>2, <3>2, <3>3, <3>4
  <2>3. ASSUME ReclaimPrune(c) PROVE Pruned /\ crossVolume' = crossVolume
    BY <2>3 DEF ReclaimPrune, GitPrune, Pruned
  <2> QED BY <1>3, <2>1, <2>2, <2>3 DEF Reclaim, FilesStep
<1>4. ASSUME (\E c \in Commands : Fail(c)) \/ Tick \/ Crash \/ UNCHANGED vars
      PROVE  Unchanged /\ crossVolume' = crossVolume
  BY <1>4 DEF Fail, Tick, Crash, vars, git, Unchanged
<1>5. ASSUME AbortMerge PROVE MergeStopped /\ crossVolume' = crossVolume
  BY <1>5 DEF AbortMerge, MergeStopped
<1>6. ASSUME NEW s \in Sites, Edit(s) \/ Commit(s) PROVE FilesStep /\ crossVolume' = crossVolume
  BY <1>6 DEF Edit, Commit, records, FilesStep, Edited
<1> QED BY <1>1, <1>2, <1>3, <1>4, <1>5, <1>6 DEF Next, FilesStep

----------------------------------------------------------------------------
(* Types of the files.                                                     *)

FilesOK ==
    /\ tree \in [Sites -> Tree \cup {None}]
    /\ registered \subseteq Sites
    /\ branch \in [Sites -> (SUBSET Work) \cup {None}]
    /\ main \in SUBSET Made /\ remote \in SUBSET Made /\ quarantined \in SUBSET Made
    /\ merging \in BOOLEAN
    /\ Made \subseteq Work /\ \A w \in Made : author[w] \in ids
    /\ \A s \in Sites : tree[s] # None => s \in registered /\ branch[s] # None
    /\ \E n \in 0..MaxWork : Made = 1..n
    /\ \A s \in Sites : /\ branch[s] # None => branch[s] \subseteq Made
                        /\ tree[s] # None => tree[s].dirty \subseteq Made /\ tree[s].for \in ids

LEMMA EditTyped ==
    ASSUME IInv, NEW s \in Sites, Edited(s)
    PROVE  /\ FilesOK'
           /\ \E w \in Work \ Made :
                /\ Made' = Made \cup {w}
                /\ author' = [v \in Made' |-> IF v = w THEN tree[s].for ELSE author[v]]
                /\ tree' = [tree EXCEPT ![s].dirty = @ \cup {w}]
<1>1. PICK n \in 0..MaxWork : Made = 1..n
  BY DEF IInv, Shapes
<1>2. n \in Nat /\ MaxWork \in Nat /\ Cardinality(Made) = n /\ n < MaxWork
  <2>1. n \in Nat /\ MaxWork \in Nat
    BY WorkTaskConstants
  <2>2. Cardinality(1..n) = n
    BY <2>1, FS_Interval
  <2> QED BY <1>1, <2>1, <2>2 DEF Edited, Edit
<1>3. /\ author' = [v \in 1..(n+1) |-> IF v = n + 1 THEN tree[s].for ELSE author[v]]
      /\ tree' = [tree EXCEPT ![s].dirty = @ \cup {n + 1}]
      /\ UNCHANGED <<registered, branch, main, remote, merging, quarantined, ids>>
      /\ tree[s] # None
  BY <1>2 DEF Edited, Edit
<1>4. n + 1 \in Work \ Made /\ n + 1 \in 0..MaxWork /\ 1..(n + 1) = Made \cup {n + 1} /\ 1..(n+1) \subseteq Work
  BY <1>1, <1>2 DEF Work
<1>5. Made' = Made \cup {n + 1} /\ Made' = 1..(n + 1)
  BY <1>3, <1>4 DEF Made
<1>6. tree[s] \in Tree /\ tree[s].for \in ids
  BY <1>3 DEF IInv, TypeOK, Shapes
<1>7. tree' \in [Sites -> Tree \cup {None}]
  BY <1>3, <1>4, <1>6 DEF IInv, TypeOK, Tree
<1>8. \A w \in Made' : author'[w] \in ids'
  BY <1>3, <1>4, <1>5, <1>6 DEF IInv, TypeOK
<1>9. \A x \in Sites : /\ tree'[x] # None => /\ tree[x] # None /\ tree'[x].for = tree[x].for
                                           /\ tree'[x].dirty \subseteq tree[x].dirty \cup {n + 1}
  BY <1>3, <1>6 DEF IInv, TypeOK, Tree
<1>10. FilesOK'
  BY <1>3, <1>4, <1>5, <1>7, <1>8, <1>9 DEF IInv, TypeOK, Shapes, FilesOK
<1> QED BY <1>3, <1>4, <1>5, <1>10

LEMMA FilesTyped ==
    ASSUME IInv, FilesStep, ids \subseteq ids', ids' \subseteq Tasks
    PROVE  FilesOK'
<1>0. FilesOK
  BY DEF IInv, TypeOK, Shapes, FilesOK
<1>1. ASSUME Unchanged \/ Pruned \/ MergeStopped PROVE FilesOK'
  BY <1>0, <1>1 DEF Unchanged, Pruned, MergeStopped, FilesOK, Made
<1>2. ASSUME NEW s \in Sites, Pushed(s) \/ Merged(s) PROVE FilesOK'
  <2>1. tree[s] # None => branch[s] # None
    BY <1>0 DEF FilesOK
  <2> QED BY <1>0, <1>2, <2>1 DEF Pushed, Merged, FilesOK, Made
<1>3. ASSUME NEW s \in Sites, Removed(s) \/ Deleted(s) PROVE FilesOK'
  BY <1>0, <1>3 DEF Removed, Deleted, CanDelete, GitRemove, GitDelete, FilesOK, Made
<1>4. ASSUME NEW s \in Sites, Moved(s) \/ Copied(s) \/ Erased(s) PROVE FilesOK'
  BY <1>0, <1>4 DEF Moved, Copied, Erased, FilesOK, Made
<1>5. ASSUME NEW s \in Sites, Commit(s) PROVE FilesOK'
  <2>1. /\ branch' = [branch EXCEPT ![s] = branch[s] \cup tree[s].dirty]
        /\ tree' = [tree EXCEPT ![s] = [tree[s] EXCEPT !.dirty = {}]]
        /\ UNCHANGED <<registered, main, remote, merging, quarantined, author, ids>>
        /\ tree[s] # None
    BY <1>5 DEF Commit
  <2>2. tree[s] \in Tree /\ branch[s] \in SUBSET Work /\ branch[s] \cup tree[s].dirty \in SUBSET Work
    BY <1>0, <2>1 DEF FilesOK, Tree
  <2>3. branch[s] \cup tree[s].dirty # None
    BY <2>2, NoneIsNoValue
  <2>4. [tree[s] EXCEPT !.dirty = {}] \in Tree /\ [tree[s] EXCEPT !.dirty = {}].for = tree[s].for
        /\ [tree[s] EXCEPT !.dirty = {}].dirty = {}
    BY <2>2 DEF Tree
  <2> QED BY <1>0, <2>1, <2>2, <2>3, <2>4 DEF FilesOK, Made
<1>6. ASSUME NEW t \in Tasks, NEW s \in Sites, GenerateId(t), Added(t, s) PROVE FilesOK'
  <2>1. [for |-> t, dirty |-> {}] \in Tree /\ {} # None /\ {} \in SUBSET Work
    BY NoneIsNoValue DEF Tree
  <2> QED BY <1>0, <1>6, <2>1 DEF FilesOK, Added, CanAdd, GenerateId, Made
<1> QED BY <1>1, <1>2, <1>3, <1>4, <1>5, <1>6, EditTyped DEF FilesStep

----------------------------------------------------------------------------
(* What a step does to the records and the executions.                     *)

(* new_pr or reclaim writes back the record it read, with another status.  *)
WritesBack(c, status) ==
    /\ exec[c].record \in TaskRecord /\ exec[c].task \in Known
    /\ exec[c].record.site = task[exec[c].task].site
    /\ exec[c].record.mode = task[exec[c].task].mode
    /\ SetStatus(c, status)
    /\ \/ status \in {"merging", "in_review"}
       \/ status = "done" /\ NoTree(exec[c].task) /\ Landed(exec[c].task)
       \/ status = "abandoned" /\ NoTree(exec[c].task)

(* Any step but those of New.                                              *)
OtherStep ==
    /\ exec' \in [Commands -> Executions]
    /\ \A c \in Commands : exec'[c].kind = "new" => exec'[c] = exec[c]
    /\ UNCHANGED <<ids, lease>>
    /\ task' = task \/ \E c \in Commands, status \in Statuses : WritesBack(c, status)

(* The shape of an execution's step by step.                               *)
LEMMA PrMergingIs ==
    ASSUME IInv, NEW c \in Commands, PrMerging(c)
    PROVE  /\ exec[c].record \in TaskRecord
           /\ \/ Goto(c, "merge") /\ exec[c].record.mode = "direct-merge"
              \/ Goto(c, "push") /\ exec[c].record.mode = "github-pr"
              \/ Goto(c, "review")
<1>1. exec[c] \in PrExec
  BY KindTells DEF IInv, PrMerging, At
<1>2. exec[c].record \in TaskRecord /\ exec[c].record.mode \in PrModes
  BY <1>1 DEF PrExec, TaskRecord
<1> QED BY <1>2 DEF PrMerging, PrModes

LEMMA OtherSteps ==
    ASSUME IInv, NEW c \in Commands, NewPr(c) \/ Reclaim(c) \/ Fail(c)
    PROVE  OtherStep /\ \A d \in Commands \ {c} : exec'[d] = exec[d]
<1>0. Shapes /\ TypeOK
  BY DEF IInv
<1> DEFINE Others == /\ exec' \in [Commands -> Executions]
                     /\ \A d \in Commands \ {c} : exec'[d] = exec[d]
                     /\ exec'[c].kind # "new"
<1>1. ASSUME NEW t \in Tasks, PrRead(c, t) PROVE Others /\ UNCHANGED <<task, lease, ids>>
  <2> DEFINE e == [kind |-> "pr", step |-> "merging", task |-> t, record |-> task[t]]
  <2>1. task[t] \in TaskRecord
    BY <1>0, <1>1 DEF PrRead, TypeOK
  <2>2. e \in Executions /\ e.kind = "pr"
    BY <2>1 DEF Executions, PrExec
  <2>3. Start(c, e) /\ UNCHANGED <<task, lease, ids>>
    BY <1>1 DEF PrRead, records
  <2> HIDE DEF e
  <2> QED BY <1>0, <2>2, <2>3, StartTyped
<1>2. ASSUME NEW step \in {"merging", "merge", "push", "review", "remove", "delete", "prune", "done"},
             exec[c].kind = "pr", Goto(c, step)
      PROVE  Others
  BY <1>0, <1>2, GotoTyped, KindTells DEF PrExec
<1>3. ASSUME NEW step \in {"next", "status", "quarantine", "rmdir", "remove", "delete", "prune", "abandon"},
             exec[c].kind = "reclaim", Goto(c, step)
      PROVE  Others
  BY <1>0, <1>3, GotoTyped, KindTells DEF ReclaimExec
<1>4. ASSUME Finish(c) PROVE Others
  BY <1>0, <1>4, FinishTyped DEF Idle
<1>5. ASSUME PrMerging(c) PROVE Others /\ UNCHANGED <<lease, ids>> /\ WritesBack(c, "merging")
  <2>1. exec[c].kind = "pr" /\ UNCHANGED <<lease, ids>> /\ SetStatus(c, "merging")
    BY <1>5 DEF PrMerging, At
  <2> QED BY <1>2, <1>5, <2>1, PrMergingIs DEF IInv, ExecutionsKnow, Knows, WritesBack
<1>6. ASSUME PrMerge(c) \/ PrRemove(c) \/ PrDelete(c) \/ PrPrune(c) \/ PrPush(c)
      PROVE  Others /\ UNCHANGED <<task, lease, ids>>
  BY <1>2, <1>6 DEF PrMerge, PrRemove, PrDelete, PrPrune, PrPush, At, records
<1>7. ASSUME PrConflict(c) \/ Fail(c) \/ ReclaimEnd(c) PROVE Others /\ UNCHANGED <<task, lease, ids>>
  BY <1>4, <1>7 DEF PrConflict, Fail, ReclaimEnd, records
<1>8. ASSUME PrDone(c) \/ PrReview(c)
      PROVE  Others /\ UNCHANGED <<lease, ids>> /\ (WritesBack(c, "done") \/ WritesBack(c, "in_review"))
  <2>1. exec[c].kind = "pr" /\ UNCHANGED <<lease, ids>> /\ Finish(c)
    BY <1>8 DEF PrDone, PrReview, At
  <2>2. exec[c].record \in TaskRecord
    BY <1>0, <2>1, KindTells DEF PrExec
  <2>3. PrDone(c) => WritesBack(c, "done")
    BY <2>1, <2>2 DEF PrDone, At, IInv, ExecutionsKnow, Knows, WritesBack
  <2>4. PrReview(c) => WritesBack(c, "in_review")
    BY <2>1, <2>2 DEF PrReview, At, IInv, ExecutionsKnow, Knows, WritesBack
  <2> QED BY <1>4, <1>8, <2>1, <2>3, <2>4
<1>9. ASSUME ReclaimList(c) PROVE Others /\ UNCHANGED <<task, lease, ids>>
  <2> DEFINE e == [kind |-> "reclaim", step |-> "next", at |-> now, left |-> Known,
                   task |-> None, record |-> None]
  <2>1. e \in Executions /\ e.kind = "reclaim"
    BY <1>0 DEF Executions, ReclaimExec, TypeOK, Known
  <2>2. Start(c, e) /\ UNCHANGED <<task, lease, ids>>
    BY <1>9 DEF ReclaimList, records
  <2> HIDE DEF e
  <2> QED BY <1>0, <2>1, <2>2, StartTyped
<1>10. ASSUME NEW t \in Tasks, ReclaimNext(c, t) PROVE Others /\ UNCHANGED <<task, lease, ids>>
  <2>1. PICK e : /\ e = [exec[c] EXCEPT !.left = @ \ {t}, !.task = e.task, !.record = e.record, !.step = e.step]
                 /\ e.task \in Tasks \cup {None} /\ e.record \in TaskRecord \cup {None}
                 /\ e.step \in {"next", "status"}
                 /\ exec' = [exec EXCEPT ![c] = e]
    <3> DEFINE reclaim == task[t].site # None /\ Expired(t, exec[c].at)
               e == [exec[c] EXCEPT !.left = @ \ {t}, !.task = IF reclaim THEN t ELSE None,
                        !.record = IF reclaim THEN task[t] ELSE None,
                        !.step = IF reclaim THEN "status" ELSE "next"]
    <3>1. exec[c] \in ReclaimExec /\ exec[c].left \subseteq Known /\ t \in exec[c].left
      BY <1>0, <1>10, KindTells DEF ReclaimNext, At, IInv, ExecutionsKnow, Knows
    <3>2. task[t] \in TaskRecord
      BY <1>0, <3>1 DEF TypeOK, Known
    <3>3. exec' = [exec EXCEPT ![c] = e]
      BY <1>10 DEF ReclaimNext
    <3>4. /\ e.task = (IF reclaim THEN t ELSE None) /\ e.record = (IF reclaim THEN task[t] ELSE None)
          /\ e.step = IF reclaim THEN "status" ELSE "next"
      BY <3>1 DEF ReclaimExec
    <3>5. WITNESS e
    <3> QED BY <3>2, <3>3, <3>4
  <2>2. exec[c] \in ReclaimExec
    BY <1>0, <1>10, KindTells DEF ReclaimNext, At
  <2>3. e \in ReclaimExec
    BY <2>1, <2>2 DEF ReclaimExec
  <2>4. e \in Executions /\ e.kind = "reclaim"
    BY <2>3 DEF Executions, ReclaimExec
  <2>5. Others
    BY <1>0, <2>1, <2>4 DEF Shapes
  <2> QED BY <1>10, <2>5 DEF ReclaimNext, records
<1>11. ASSUME \/ ReclaimStatus(c) \/ ReclaimQuarantine(c) \/ ReclaimCopy(c) \/ ReclaimRmdir(c)
              \/ ReclaimRemove(c) \/ ReclaimDelete(c) \/ ReclaimPrune(c)
       PROVE  Others /\ UNCHANGED <<task, lease, ids>>
  BY <1>3, <1>11 DEF ReclaimStatus, ReclaimChoice, ReclaimQuarantine, ReclaimCopy, ReclaimRmdir,
     ReclaimRemove, ReclaimDelete, ReclaimPrune, At, records
<1>12. ASSUME ReclaimAbandon(c) PROVE Others /\ UNCHANGED <<lease, ids>> /\ WritesBack(c, "abandoned")
  <2>1. exec[c].kind = "reclaim" /\ exec[c].step = "abandon" /\ UNCHANGED <<lease, ids>>
        /\ SetStatus(c, "abandoned") /\ Goto(c, "next")
    BY <1>12 DEF ReclaimAbandon, At
  <2>2. exec[c].record \in TaskRecord
    BY <2>1, SiteOfTask
  <2> QED BY <1>3, <2>1, <2>2 DEF IInv, ExecutionsKnow, Knows, WritesBack
<1>13. Others
  BY <1>1, <1>5, <1>6, <1>7, <1>8, <1>9, <1>10, <1>11, <1>12 DEF NewPr, Reclaim
<1>14. UNCHANGED <<ids, lease>>
  BY <1>1, <1>5, <1>6, <1>7, <1>8, <1>9, <1>10, <1>11, <1>12 DEF NewPr, Reclaim
<1>15. task' = task \/ \E d \in Commands, status \in Statuses : WritesBack(d, status)
  BY <1>1, <1>5, <1>6, <1>7, <1>8, <1>9, <1>10, <1>11, <1>12 DEF NewPr, Reclaim, Statuses
<1> QED BY <1>13, <1>14, <1>15 DEF OtherStep

LEMMA StepsOfOthers ==
    ASSUME IInv, [Next]_vars
    PROVE  OtherStep \/ \E c \in Commands : New(c)
<1>1. exec \in [Commands -> Executions]
  BY DEF IInv, Shapes
<1>2. ASSUME UNCHANGED <<task, lease, exec, ids>> PROVE OtherStep
  BY <1>1, <1>2 DEF OtherStep
<1>3. ASSUME NEW s \in Sites, Edit(s) \/ Commit(s) PROVE OtherStep
  BY <1>2, <1>3 DEF Edit, Commit, records
<1>4. ASSUME AbortMerge \/ Tick \/ UNCHANGED vars PROVE OtherStep
  BY <1>2, <1>4 DEF AbortMerge, Tick, vars, records
<1>5. ASSUME Crash PROVE OtherStep
  BY <1>1, <1>5 DEF Crash, OtherStep, Executions, Idle, records
<1> QED BY <1>3, <1>4, <1>5, OtherSteps DEF Next

----------------------------------------------------------------------------
(* Homes.                                                                  *)

HomesStay ==
    /\ \A t \in Known : t \in Known' /\ task'[t].site = task[t].site /\ task'[t].mode = task[t].mode
    /\ ids \subseteq ids' /\ ids' \subseteq Tasks
    /\ \A t \in ids, x \in Sites \cup {None} : Home(t, x)' => Home(t, x)

RecordsOK ==
    /\ task \in [Tasks -> TaskRecord \cup {None}]
    /\ lease \in [Tasks -> 0..MaxTime \cup {None}]
    /\ exec \in [Commands -> Executions]

LEMMA HomesOther ==
    ASSUME IInv, OtherStep
    PROVE  RecordsOK' /\ HomesFixed' /\ HomesStay
<1>0. /\ RecordsOK /\ ids \subseteq Tasks
      /\ exec' \in [Commands -> Executions] /\ UNCHANGED <<ids, lease>>
      /\ \A c \in Commands : exec'[c].kind = "new" => exec'[c] = exec[c]
  BY DEF IInv, TypeOK, Shapes, RecordsOK, OtherStep
<1>1. /\ \A t \in Tasks : task'[t] # None <=> task[t] # None
      /\ \A t \in Known : task'[t].site = task[t].site /\ task'[t].mode = task[t].mode
      /\ task' \in [Tasks -> TaskRecord \cup {None}]
  <2>1. ASSUME NEW c \in Commands, NEW status \in Statuses, WritesBack(c, status)
        PROVE  /\ \A t \in Tasks : task'[t] # None <=> task[t] # None
               /\ \A t \in Known : task'[t].site = task[t].site /\ task'[t].mode = task[t].mode
               /\ task' \in [Tasks -> TaskRecord \cup {None}]
    <3> DEFINE r == [exec[c].record EXCEPT !.status = status]
    <3>1. exec[c].task \in Known /\ task' = [task EXCEPT ![exec[c].task] = r]
      BY <2>1 DEF WritesBack, SetStatus
    <3>2. /\ r \in TaskRecord /\ r.site = task[exec[c].task].site /\ r.mode = task[exec[c].task].mode
      BY <2>1 DEF WritesBack, TaskRecord
    <3>3. r # None
      BY <3>2, NoneIsNoValue
    <3> HIDE DEF r
    <3> QED BY <1>0, <3>1, <3>2, <3>3 DEF RecordsOK, Known
  <2> QED BY <1>0, <2>1 DEF OtherStep, RecordsOK
<1>2. RecordsOK'
  BY <1>0, <1>1 DEF RecordsOK
<1>3. \A c \in Commands, step \in {"task", "lease"} : At(c, "new", step)' => At(c, "new", step) /\ exec'[c] = exec[c]
  BY <1>0 DEF At
<1>4. HomesFixed'
  <2>1. \A t \in Known' : t \in ids' /\ (task'[t].mode # "none" => task'[t].site # None)
    BY <1>0, <1>1 DEF IInv, HomesFixed, Known
  <2>2. ASSUME NEW c \in Commands, At(c, "new", "task")'
        PROVE  /\ task'[exec'[c].task] = None /\ exec'[c].task \in ids'
               /\ \A d \in Commands : At(d, "new", "task")' /\ exec'[d].task = exec'[c].task => d = c
    BY <1>0, <1>1, <1>3, <2>2 DEF IInv, HomesFixed
  <2>3. \A c \in Commands : At(c, "new", "lease")' => exec'[c].task \in Known'
    BY <1>1, <1>3 DEF IInv, HomesFixed, Known
  <2> QED BY <2>1, <2>2, <2>3 DEF HomesFixed
<1>5. HomesStay
  BY <1>0, <1>1, <1>3 DEF HomesStay, Home, Known
<1> QED BY <1>2, <1>4, <1>5

LEMMA HomesEpic ==
    ASSUME IInv, NEW c \in Commands, NEW t \in Tasks, NewEpic(c, t)
    PROVE  RecordsOK' /\ HomesFixed' /\ HomesStay
<1> DEFINE r == [site |-> None, mode |-> "none", status |-> "planned"]
<1>0. /\ RecordsOK /\ ids \subseteq Tasks /\ HomesFixed
      /\ t \notin ids /\ ids' = ids \cup {t} /\ UNCHANGED <<lease, exec>>
      /\ task' = [task EXCEPT ![t] = r]
  BY DEF IInv, TypeOK, Shapes, RecordsOK, NewEpic, GenerateId
<1>1. r \in TaskRecord /\ r.mode = "none"
  BY DEF TaskRecord, PrModes, Statuses
<1>2. r # None
  BY <1>1, NoneIsNoValue
<1>3. Known' = Known \cup {t} /\ t \notin Known /\ \A u \in Tasks \ {t} : task'[u] = task[u]
  BY <1>0, <1>2 DEF RecordsOK, Known, HomesFixed
<1> HIDE DEF r
<1>4. RecordsOK'
  BY <1>0, <1>1 DEF RecordsOK
<1>5. HomesFixed'
  <2>1. \A u \in Known' : u \in ids' /\ (task'[u].mode # "none" => task'[u].site # None)
    BY <1>0, <1>1, <1>3 DEF HomesFixed, RecordsOK, Known
  <2> QED BY <1>0, <1>3, <2>1 DEF HomesFixed, At
<1>6. HomesStay
  BY <1>0, <1>3 DEF HomesStay, Home, Known, At
<1> QED BY <1>4, <1>5, <1>6

LEMMA HomesAdd ==
    ASSUME IInv, NEW c \in Commands, NEW t \in Tasks, NEW s \in Sites, NEW mode \in PrModes,
           NEW expiry \in 0..MaxTime, NewAdd(c, t, s, mode, expiry)
    PROVE  /\ RecordsOK' /\ HomesFixed' /\ HomesStay /\ GenerateId(t)
           /\ \A x \in Sites \cup {None} : Home(t, x)' => x = s
<1> DEFINE e == [kind |-> "new", step |-> "task", task |-> t, site |-> s, mode |-> mode, expiry |-> expiry]
<1>0. /\ RecordsOK /\ Shapes /\ ids \subseteq Tasks /\ HomesFixed
      /\ t \notin ids /\ ids' = ids \cup {t} /\ UNCHANGED <<task, lease>>
      /\ Start(c, e)
  BY DEF IInv, TypeOK, Shapes, RecordsOK, NewAdd, GenerateId, records
<1>1. e \in Executions /\ e.kind = "new" /\ e.step = "task" /\ e.task = t /\ e.site = s
  BY DEF Executions, NewExec
<1> HIDE DEF e
<1>2. /\ exec' \in [Commands -> Executions]
      /\ \A d \in Commands \ {c} : exec'[d] = exec[d]
      /\ exec'[c] = e
  BY <1>0, <1>1, StartTyped
<1>3. RecordsOK'
  BY <1>0, <1>2 DEF RecordsOK
<1>4. t \notin Known /\ task[t] = None
  BY <1>0 DEF HomesFixed, Known
<1>5. HomesFixed'
  <2>1. \A d \in Commands : At(d, "new", "task") => exec[d].task # t
    BY <1>0 DEF HomesFixed
  <2>2. \A d \in Commands \ {c} : \A step \in {"task", "lease"} : At(d, "new", step)' <=> At(d, "new", step)
    BY <1>2 DEF At
  <2>3. \A u \in Known' : u \in ids' /\ (task'[u].mode # "none" => task'[u].site # None)
    BY <1>0 DEF HomesFixed, Known
  <2>4. ASSUME NEW d \in Commands, At(d, "new", "task")'
        PROVE  /\ task'[exec'[d].task] = None /\ exec'[d].task \in ids'
               /\ \A f \in Commands : At(f, "new", "task")' /\ exec'[f].task = exec'[d].task => f = d
    BY <1>0, <1>1, <1>2, <1>4, <2>1, <2>2, <2>4 DEF HomesFixed
  <2>5. \A d \in Commands : At(d, "new", "lease")' => exec'[d].task \in Known'
    BY <1>0, <1>1, <1>2 DEF HomesFixed, Known, At
  <2> QED BY <2>3, <2>4, <2>5 DEF HomesFixed
<1>6. HomesStay
  BY <1>0, <1>1, <1>2 DEF HomesStay, Home, Known, At
<1>7. \A x \in Sites \cup {None} : Home(t, x)' => x = s
  BY <1>0, <1>1, <1>2, <1>4 DEF Home, HomesFixed, At
<1> QED BY <1>0, <1>3, <1>5, <1>6, <1>7 DEF GenerateId

LEMMA HomesWriteTask ==
    ASSUME IInv, NEW c \in Commands, NewWriteTask(c)
    PROVE  RecordsOK' /\ HomesFixed' /\ HomesStay
<1> DEFINE t == exec[c].task
           r == [site |-> exec[c].site, mode |-> exec[c].mode, status |-> "active"]
<1>0. /\ RecordsOK /\ Shapes /\ ids \subseteq Tasks /\ HomesFixed
      /\ UNCHANGED <<lease, ids>> /\ At(c, "new", "task") /\ Goto(c, "lease")
      /\ task' = [task EXCEPT ![t] = r]
  BY DEF IInv, TypeOK, Shapes, RecordsOK, NewWriteTask
<1>1. exec[c] \in NewExec
  BY <1>0, KindTells DEF At
<1>2. r \in TaskRecord /\ r.site = exec[c].site /\ r.site \in Sites /\ t \in Tasks
  BY <1>1 DEF NewExec, TaskRecord, Statuses
<1>3. r # None /\ r.site # None
  BY <1>2, NoneIsNoValue, WorkTaskConstants
<1>4. /\ exec' \in [Commands -> Executions]
      /\ \A d \in Commands \ {c} : exec'[d] = exec[d]
      /\ exec'[c] = [exec[c] EXCEPT !.step = "lease"]
  BY <1>0, GotoTyped DEF At
<1>5. exec'[c].kind = "new" /\ exec'[c].step = "lease" /\ exec'[c].task = t
  BY <1>1, <1>4 DEF NewExec
<1>6. t \notin Known /\ t \in ids /\ Known' = Known \cup {t} /\ task'[t] = r
      /\ \A u \in Tasks \ {t} : task'[u] = task[u]
  BY <1>0, <1>2, <1>3 DEF RecordsOK, HomesFixed, Known
<1> HIDE DEF r, t
<1>7. RecordsOK'
  BY <1>0, <1>2, <1>4 DEF RecordsOK
<1>8. HomesFixed'
  <2>1. \A u \in Known' : u \in ids' /\ (task'[u].mode # "none" => task'[u].site # None)
    BY <1>0, <1>3, <1>6 DEF HomesFixed, RecordsOK, Known
  <2>2. ASSUME NEW d \in Commands, At(d, "new", "task")'
        PROVE  /\ task'[exec'[d].task] = None /\ exec'[d].task \in ids'
               /\ \A f \in Commands : At(f, "new", "task")' /\ exec'[f].task = exec'[d].task => f = d
    <3>1. d # c /\ At(d, "new", "task") /\ exec'[d] = exec[d]
      BY <1>4, <1>5, <2>2 DEF At
    <3>2. exec[d].task # t /\ task[exec[d].task] = None /\ exec[d].task \in ids
      BY <1>0, <3>1 DEF HomesFixed, t
    <3>3. \A f \in Commands : At(f, "new", "task")' => f # c /\ At(f, "new", "task") /\ exec'[f] = exec[f]
      BY <1>4, <1>5 DEF At
    <3> QED BY <1>0, <1>6, <3>1, <3>2, <3>3 DEF HomesFixed
  <2>3. \A d \in Commands : At(d, "new", "lease")' => exec'[d].task \in Known'
    BY <1>0, <1>4, <1>5, <1>6 DEF HomesFixed, At
  <2> QED BY <2>1, <2>2, <2>3 DEF HomesFixed
<1>9. HomesStay
  <2>1. ASSUME NEW u \in ids, NEW x \in Sites \cup {None}, Home(u, x)' PROVE Home(u, x)
    <3>1. CASE u = t
      <4>1. \A d \in Commands : At(d, "new", "task")' => exec'[d].task # t
        BY <1>6, <1>8, <1>3 DEF HomesFixed, Known
      <4>2. x = exec[c].site
        BY <1>2, <1>6, <2>1, <3>1, <4>1 DEF Home
      <4> QED BY <1>0, <3>1, <4>2 DEF Home, t
    <3>2. CASE u # t
      BY ZenonT(40), <1>0, <1>4, <1>5, <1>6, <2>1, <3>2 DEF Home, At
    <3> QED BY <3>1, <3>2
  <2> QED BY <1>0, <1>6, <2>1 DEF HomesStay, Known
<1> QED BY <1>7, <1>8, <1>9

LEMMA HomesWriteLease ==
    ASSUME IInv, NEW c \in Commands, NewWriteLease(c)
    PROVE  RecordsOK' /\ HomesFixed' /\ HomesStay
<1>0. /\ RecordsOK /\ Shapes /\ ids \subseteq Tasks /\ HomesFixed
      /\ UNCHANGED <<task, ids>> /\ At(c, "new", "lease") /\ Finish(c)
      /\ lease' = [lease EXCEPT ![exec[c].task] = exec[c].expiry]
  BY DEF IInv, TypeOK, Shapes, RecordsOK, NewWriteLease
<1>1. exec[c].expiry \in 0..MaxTime
  BY <1>0, KindTells DEF At, NewExec
<1>2. /\ exec' \in [Commands -> Executions]
      /\ \A d \in Commands \ {c} : exec'[d] = exec[d]
      /\ exec'[c] = Idle
  BY <1>0, FinishTyped
<1>3. RecordsOK'
  BY <1>0, <1>1, <1>2 DEF RecordsOK
<1>4. \A d \in Commands : \A step \in {"task", "lease"} :
         At(d, "new", step)' => At(d, "new", step) /\ exec'[d] = exec[d]
  BY <1>2 DEF At, Idle
<1>5. HomesFixed'
  <2>1. \A u \in Known' : u \in ids' /\ (task'[u].mode # "none" => task'[u].site # None)
    BY <1>0 DEF HomesFixed, Known
  <2>2. ASSUME NEW d \in Commands, At(d, "new", "task")'
        PROVE  /\ task'[exec'[d].task] = None /\ exec'[d].task \in ids'
               /\ \A f \in Commands : At(f, "new", "task")' /\ exec'[f].task = exec'[d].task => f = d
    BY <1>0, <1>4, <2>2 DEF HomesFixed
  <2>3. \A d \in Commands : At(d, "new", "lease")' => exec'[d].task \in Known'
    BY <1>0, <1>4 DEF HomesFixed, Known
  <2> QED BY <2>1, <2>2, <2>3 DEF HomesFixed
<1>6. HomesStay
  BY <1>0, <1>4 DEF HomesStay, Home, Known
<1> QED BY <1>3, <1>5, <1>6

LEMMA HomesKeep ==
    ASSUME IInv, [Next]_vars
    PROVE  RecordsOK' /\ HomesFixed' /\ HomesStay
BY StepsOfOthers, HomesOther, HomesEpic, HomesAdd, HomesWriteTask, HomesWriteLease DEF New

----------------------------------------------------------------------------
(* Trees and changes from step to step.                                    *)

(* A tree is new, or was there and for the same task.                      *)
TreesStay ==
    \A s \in Sites : tree'[s] # None =>
        \/ tree[s] # None /\ tree'[s].for = tree[s].for
        \/ tree'[s].for \notin ids

(* Changes stay whose they are, and new ones are made in a tree.           *)
WorkStays ==
    /\ main \subseteq main' /\ quarantined \subseteq quarantined'
    /\ \A w \in Made : w \in Made' /\ author'[w] = author[w]
    /\ \A w \in Made' \ Made :
         \E s \in Sites : tree[s] # None /\ author'[w] = tree[s].for
                          /\ tree'[s] # None /\ w \in tree'[s].dirty /\ tree'[s].for = tree[s].for

LEMMA FilesStay ==
    ASSUME IInv, FilesStep
    PROVE  TreesStay /\ WorkStays
<1>0. FilesOK
  BY DEF IInv, TypeOK, Shapes, FilesOK
<1>1. ASSUME Unchanged \/ Pruned \/ MergeStopped PROVE TreesStay /\ WorkStays
  BY <1>1 DEF Unchanged, Pruned, MergeStopped, TreesStay, WorkStays, Made
<1>2. ASSUME NEW s \in Sites, \/ Pushed(s) \/ Merged(s) \/ Removed(s) \/ Deleted(s)
                              \/ Moved(s) \/ Copied(s) \/ Erased(s)
      PROVE  TreesStay /\ WorkStays
  BY <1>0, <1>2 DEF FilesOK, Pushed, Merged, Removed, Deleted, GitRemove, GitDelete, Moved, Copied, Erased,
     TreesStay, WorkStays, Made
<1>3. ASSUME NEW s \in Sites, Commit(s) PROVE TreesStay /\ WorkStays
  <2>1. /\ tree' = [tree EXCEPT ![s] = [tree[s] EXCEPT !.dirty = {}]]
        /\ UNCHANGED <<main, quarantined, author>> /\ tree[s] # None
    BY <1>3 DEF Commit
  <2>2. [tree[s] EXCEPT !.dirty = {}].for = tree[s].for
    BY <1>0, <2>1 DEF FilesOK, Tree
  <2> QED BY <1>0, <2>1, <2>2 DEF FilesOK, TreesStay, WorkStays, Made
<1>4. ASSUME NEW s \in Sites, Edited(s) PROVE TreesStay /\ WorkStays
  <2>1. PICK w \in Work \ Made :
                /\ Made' = Made \cup {w}
                /\ author' = [v \in Made' |-> IF v = w THEN tree[s].for ELSE author[v]]
                /\ tree' = [tree EXCEPT ![s].dirty = @ \cup {w}]
    BY <1>4, EditTyped
  <2>2. UNCHANGED <<main, quarantined>> /\ tree[s] # None
    BY <1>4 DEF Edited, Edit
  <2>3. tree[s] \in Tree
    BY <1>0, <2>2 DEF FilesOK
  <2>4. /\ tree'[s] = [tree[s] EXCEPT !.dirty = @ \cup {w}]
        /\ \A x \in Sites \ {s} : tree'[x] = tree[x]
    BY <1>0, <2>1 DEF FilesOK
  <2>5. tree'[s].for = tree[s].for /\ tree'[s].dirty = tree[s].dirty \cup {w} /\ tree'[s] \in Tree
    <3>1. tree[s].dirty \cup {w} \in SUBSET Work
      BY <2>3 DEF Tree
    <3> QED BY <2>3, <2>4, <3>1 DEF Tree
  <2>6. tree'[s] # None
    BY <2>5, NoneIsNoValue
  <2>7. TreesStay
    BY <2>2, <2>4, <2>5 DEF TreesStay
  <2>8. \A v \in Made : v \in Made' /\ author'[v] = author[v]
    BY <2>1
  <2>9. author'[w] = tree[s].for
    BY <2>1
  <2>10. \A v \in Made' \ Made : v = w
    BY <2>1
  <2> QED BY <2>2, <2>5, <2>6, <2>7, <2>8, <2>9, <2>10 DEF WorkStays
<1>5. ASSUME NEW t \in Tasks, NEW s \in Sites, GenerateId(t), Added(t, s) PROVE TreesStay /\ WorkStays
  <2>1. [for |-> t, dirty |-> {}].for \notin ids
    BY <1>5 DEF GenerateId
  <2> QED BY <1>0, <1>5, <2>1 DEF FilesOK, Added, TreesStay, WorkStays, Made
<1> QED BY <1>1, <1>2, <1>3, <1>4, <1>5 DEF FilesStep

(* A task without a tree never gets one, and what has landed has landed.   *)
LEMMA NoTreeStays ==
    ASSUME TreesStay, NEW t \in ids, NoTree(t)
    PROVE  NoTree(t)'
BY DEF TreesStay, NoTree

LEMMA LandedStays ==
    ASSUME WorkStays, crossVolume' = crossVolume, NEW t, NoTree(t), Landed(t)
    PROVE  Landed(t)'
<1> SUFFICES ASSUME ~ crossVolume, NEW w \in Made', author'[w] = t
             PROVE  w \in main' \cup quarantined'
  BY DEF Landed
<1>1. w \in Made
  BY DEF WorkStays, NoTree
<1> QED BY <1>1 DEF WorkStays, Landed

----------------------------------------------------------------------------
(* Where the changes are.                                                  *)

(* A step only takes changes from a place when they are safe in another.   *)
KeptAt(w, s) ==
    \/ w \in main \cup quarantined
    \/ branch[s] # None /\ w \in branch[s]
    \/ tree[s] # None /\ w \in tree[s].dirty

LEMMA WorkMoves ==
    ASSUME IInv, FilesStep, ~ crossVolume, NEW s \in Sites, NEW w, KeptAt(w, s)
    PROVE  KeptAt(w, s)'
<1>0. FilesOK
  BY DEF IInv, TypeOK, Shapes, FilesOK
<1>1. ASSUME Unchanged \/ Pruned \/ MergeStopped PROVE KeptAt(w, s)'
  BY <1>1 DEF Unchanged, Pruned, MergeStopped, KeptAt
<1>2. ASSUME NEW x \in Sites, Pushed(x) \/ Merged(x) \/ Copied(x) PROVE KeptAt(w, s)'
  BY <1>2 DEF Pushed, Merged, Copied, KeptAt
<1>3. ASSUME NEW x \in Sites, Removed(x) PROVE KeptAt(w, s)'
  BY <1>0, <1>3 DEF Removed, CanRemove, Clean, GitRemove, KeptAt, FilesOK
<1>4. ASSUME NEW x \in Sites, Deleted(x) PROVE KeptAt(w, s)'
  BY <1>0, <1>4 DEF Deleted, CanDelete, GitDelete, KeptAt, FilesOK
<1>5. ASSUME NEW x \in Sites, Moved(x) \/ Erased(x) PROVE KeptAt(w, s)'
  BY <1>0, <1>5 DEF Moved, Erased, KeptAt, FilesOK
<1>6. ASSUME NEW x \in Sites, Edited(x) PROVE KeptAt(w, s)'
  <2>1. PICK v \in Work : tree' = [tree EXCEPT ![x] = [tree[x] EXCEPT !.dirty = tree[x].dirty \cup {v}]]
    BY <1>6, EditTyped
  <2>2. tree[x] \in Tree /\ UNCHANGED <<main, quarantined, branch>>
    BY <1>0, <1>6 DEF FilesOK, Edited, Edit
  <2>3. tree[x].dirty \cup {v} \in SUBSET Work
    BY <2>2 DEF Tree
  <2>4. /\ [tree[x] EXCEPT !.dirty = tree[x].dirty \cup {v}] \in Tree
        /\ [tree[x] EXCEPT !.dirty = tree[x].dirty \cup {v}].dirty = tree[x].dirty \cup {v}
    BY <2>2, <2>3 DEF Tree
  <2> QED BY <1>0, <2>1, <2>2, <2>4, NoneIsNoValue DEF KeptAt, FilesOK
<1>7. ASSUME NEW x \in Sites, Commit(x) PROVE KeptAt(w, s)'
  <2>1. /\ branch' = [branch EXCEPT ![x] = branch[x] \cup tree[x].dirty]
        /\ tree' = [tree EXCEPT ![x] = [tree[x] EXCEPT !.dirty = {}]]
        /\ UNCHANGED <<main, quarantined>> /\ tree[x] # None
    BY <1>7 DEF Commit
  <2>2. tree[x] \in Tree /\ branch[x] \in SUBSET Work /\ branch[x] \cup tree[x].dirty \in SUBSET Work
    BY <1>0, <2>1 DEF FilesOK, Tree
  <2>3. branch[x] \cup tree[x].dirty # None
    BY <2>2, NoneIsNoValue
  <2> QED BY <1>0, <2>1, <2>3 DEF FilesOK, KeptAt
<1>8. ASSUME NEW t \in Tasks, NEW x \in Sites, Added(t, x) PROVE KeptAt(w, s)'
  BY <1>0, <1>8 DEF FilesOK, Added, CanAdd, KeptAt
<1> QED BY <1>1, <1>2, <1>3, <1>4, <1>5, <1>6, <1>7, <1>8 DEF FilesStep

LEMMA WorkKeeps ==
    ASSUME IInv, [Next]_vars
    PROVE  WorkAtHome' /\ NoWorkLost'
<1>0. FilesStep /\ crossVolume' = crossVolume /\ HomesStay /\ FilesOK
  BY FilesSteps, HomesKeep DEF IInv, TypeOK, Shapes, FilesOK
<1>1. TreesStay /\ WorkStays
  BY <1>0, FilesStay
<1>2. ASSUME ~ crossVolume, NEW w \in Made' \ Made
      PROVE  \E s \in Sites : /\ tree[s] # None /\ author'[w] = tree[s].for /\ KeptAt(w, s)'
  BY <1>1 DEF WorkStays, KeptAt
<1>3. WorkAtHome'
  <2> SUFFICES ASSUME ~ crossVolume, NEW s \in Sites, NEW w \in Made', NEW t, t = author'[w], Home(t, s)'
               PROVE  KeptAt(w, s)'
    BY <1>0 DEF WorkAtHome, KeptAt, Home
  <2>1. CASE w \in Made
    <3>1. t = author[w] /\ t \in ids
      BY <1>1, <2>1, <1>0 DEF WorkStays, FilesOK
    <3>2. Home(t, s)
      BY <1>0, <3>1 DEF HomesStay
    <3>3. KeptAt(w, s)
      BY <2>1, <3>1, <3>2 DEF IInv, WorkAtHome, KeptAt
    <3> QED BY <1>0, <3>3, WorkMoves
  <2>2. CASE w \notin Made
    <3>1. PICK x \in Sites : tree[x] # None /\ t = tree[x].for /\ KeptAt(w, x)'
      BY <1>2, <2>2
    <3>2. Home(t, s)
      BY <1>0, <3>1 DEF HomesStay, FilesOK
    <3>3. x = s
      BY <3>1, <3>2 DEF IInv, TreesHome
    <3> QED BY <3>1, <3>3
  <2> QED BY <2>1, <2>2
<1>4. NoWorkLost'
  <2> SUFFICES ASSUME ~ crossVolume, NEW w \in Made'
               PROVE  w \in Safe'
    BY <1>0 DEF NoWorkLost
  <2>1. ASSUME NEW s \in Sites, KeptAt(w, s)' PROVE w \in Safe'
    BY <2>1 DEF KeptAt, Safe
  <2>2. CASE w \in Made
    <3>1. w \in Safe
      BY <2>2 DEF IInv, NoWorkLost
    <3>2. w \in remote \/ w \in main \cup quarantined \/ \E s \in Sites : KeptAt(w, s)
      BY <3>1 DEF Safe, KeptAt
    <3>3. remote \subseteq remote'
      BY <1>0 DEF FilesStep, Unchanged, Pruned, MergeStopped, Pushed, Merged, Removed, Deleted, GitRemove,
         GitDelete, Moved, Copied, Erased, Edited, Edit, Commit, Added
    <3>4. CASE \E s \in Sites : KeptAt(w, s)
      BY <1>0, <2>1, <3>4, WorkMoves
    <3>5. CASE w \in main \cup quarantined
      BY <1>1, <3>5 DEF WorkStays, Safe
    <3> QED BY <3>2, <3>3, <3>4, <3>5 DEF Safe
  <2>3. CASE w \notin Made
    BY <1>2, <2>1, <2>3
  <2> QED BY <2>2, <2>3
<1> QED BY <1>3, <1>4

LEMMA TreesHomeKeeps ==
    ASSUME IInv, [Next]_vars
    PROVE  TreesHome'
<1>0. FilesStep /\ HomesStay /\ RecordsOK' /\ FilesOK /\ TreesHome
  BY FilesSteps, HomesKeep DEF IInv, TypeOK, Shapes, FilesOK
<1>1. FilesOK' /\ TreesStay
  BY <1>0, FilesTyped, FilesStay DEF HomesStay
<1> SUFFICES ASSUME NEW s \in Sites, NEW x \in Sites \cup {None}, tree'[s] # None,
                    NEW u, u = tree'[s].for, Home(u, x)'
             PROVE  x = s
  BY DEF TreesHome, Home
<1>2. ASSUME tree[s] # None, u = tree[s].for PROVE x = s
  BY <1>0, <1>2 DEF HomesStay, FilesOK, TreesHome
<1>3. CASE ids' = ids
  BY <1>1, <1>2, <1>3 DEF FilesOK, TreesStay
<1>4. ASSUME NEW c \in Commands, NEW t \in Tasks, NEW y \in Sites, NEW mode \in PrModes,
             NEW expiry \in 0..MaxTime, NewAdd(c, t, y, mode, expiry)
      PROVE  x = s
  <2>1. tree' = [tree EXCEPT ![y] = [for |-> t, dirty |-> {}]]
    BY <1>4 DEF NewAdd
  <2>2. CASE s = y
    <3>1. u = t
      BY <1>0, <2>1, <2>2 DEF FilesOK
    <3> QED BY <1>4, <2>2, <3>1, HomesAdd
  <2>3. CASE s # y
    BY <1>0, <1>2, <2>1, <2>3 DEF FilesOK
  <2> QED BY <2>2, <2>3
<1>5. ASSUME NEW c \in Commands, NEW t \in Tasks, NewEpic(c, t) PROVE x = s
  BY <1>2, <1>5 DEF NewEpic, git
<1>6. ASSUME NEW c \in Commands, NewWriteTask(c) \/ NewWriteLease(c) PROVE x = s
  BY <1>3, <1>6 DEF NewWriteTask, NewWriteLease
<1>7. CASE OtherStep
  BY <1>3, <1>7 DEF OtherStep
<1> QED BY <1>4, <1>5, <1>6, <1>7, StepsOfOthers DEF New

----------------------------------------------------------------------------
(* What executions know.                                                   *)

LEMMA KnowsStays ==
    ASSUME IInv, HomesStay, TreesStay, WorkStays, crossVolume' = crossVolume,
           NEW c \in Commands, exec'[c] = exec[c]
    PROVE  Knows(c)'
<1>1. Knows(c) /\ \A t \in Known : t \in ids
  BY DEF IInv, ExecutionsKnow, HomesFixed
<1>2. ASSUME exec[c].kind = "pr", exec[c].step \in {"delete", "prune", "done"} PROVE NoTree(exec[c].task)'
  BY <1>1, <1>2, NoTreeStays DEF Knows
<1>3. ASSUME exec[c].kind = "pr", exec[c].step \in {"prune", "done"} PROVE Landed(exec[c].task)'
  BY <1>1, <1>3, LandedStays DEF Knows
<1>4. ASSUME exec[c].kind = "reclaim", exec[c].step \in {"delete", "prune", "abandon"} PROVE NoTree(exec[c].task)'
  BY <1>1, <1>4, NoTreeStays DEF Knows
<1>5. (exec[c].kind = "pr" =>
         LET t == exec[c].task IN
         /\ t \in Known
         /\ exec[c].record.site = task[t].site /\ exec[c].record.mode = task[t].mode
         /\ exec[c].step \in {"merge", "push", "remove", "delete"} => task[t].site # None)'
  BY <1>1 DEF Knows, HomesStay
<1>6. (exec[c].kind = "reclaim" =>
         LET t == exec[c].task IN
         /\ exec[c].left \subseteq Known
         /\ exec[c].step = "rmdir" => crossVolume
         /\ exec[c].step # "next" =>
              /\ t \in Known /\ exec[c].record # None
              /\ exec[c].record.site = task[t].site /\ exec[c].record.mode = task[t].mode
              /\ task[t].site # None)'
  BY <1>1 DEF Knows, HomesStay
<1> QED BY <1>2, <1>3, <1>4, <1>5, <1>6 DEF Knows

(* The tree of a task without another home is at its site or nowhere.      *)
LEMMA TreeGone ==
    ASSUME IInv, NEW t \in Known, NEW s \in Sites, task[t].site = s, tree[s] = None \/ tree[s].for # t
    PROVE  NoTree(t)
BY DEF IInv, TreesHome, Home, NoTree, Known

(* Once its branch is merged and both are gone, all of a task has landed.  *)
LEMMA BranchLands ==
    ASSUME IInv, NEW t \in Known, NEW s \in Sites, task[t].site = s, CanDelete(s)
    PROVE  Landed(t)
<1> SUFFICES ASSUME ~ crossVolume, NEW w \in Made, author[w] = t
             PROVE  w \in main \cup quarantined
  BY DEF Landed
<1>1. Home(author[w], s)
  BY DEF Home, Known
<1>2. tree[s] = None
  BY DEF CanDelete, IInv, TypeOK
<1> QED BY <1>1, <1>2 DEF IInv, WorkAtHome, CanDelete

(* The execution that acts: what a step of new_pr learns.                  *)
LEMMA KnowsPr ==
    ASSUME IInv, [Next]_vars, NEW c \in Commands, NewPr(c)
    PROVE  Knows(c)'
<1>0. /\ HomesStay /\ HomesFixed /\ TypeOK /\ Shapes /\ TreesStay /\ WorkStays /\ crossVolume' = crossVolume
      /\ Knows(c)
  BY HomesKeep, FilesSteps, FilesStay DEF IInv, ExecutionsKnow
<1>1. ASSUME exec'[c] = Idle PROVE Knows(c)'
  BY <1>1 DEF Knows, Idle
<1>2. ASSUME NEW t \in Tasks, PrRead(c, t) PROVE Knows(c)'
  <2> DEFINE e == [kind |-> "pr", step |-> "merging", task |-> t, record |-> task[t]]
  <2>1. task[t] \in TaskRecord /\ t \in Known
    BY <1>0, <1>2 DEF PrRead, TypeOK, Known
  <2>2. Start(c, e) /\ task' = task
    BY <1>2 DEF PrRead, records
  <2>3. exec'[c] = e
    BY <1>0, <2>2 DEF Start, Shapes
  <2> QED BY <2>1, <2>2, <2>3 DEF Knows, Known
<1>3. ASSUME NEW step, Goto(c, step), exec[c].kind = "pr"
      PROVE  /\ exec'[c].kind = "pr" /\ exec'[c].step = step
             /\ exec'[c].task = exec[c].task /\ exec'[c].record = exec[c].record
             /\ exec[c].task \in Known'
             /\ exec[c].record.site = task'[exec[c].task].site
             /\ exec[c].record.mode = task'[exec[c].task].mode
             /\ exec[c].task \in Known /\ exec[c].record.site = task[exec[c].task].site
  <2>1. exec[c] \in PrExec /\ exec' = [exec EXCEPT ![c] = [exec[c] EXCEPT !.step = step]]
    BY <1>0, <1>3, KindTells DEF Goto
  <2>2. exec'[c] = [exec[c] EXCEPT !.step = step]
    BY <1>0, <2>1 DEF Shapes
  <2>3. /\ exec'[c].kind = "pr" /\ exec'[c].step = step
        /\ exec'[c].task = exec[c].task /\ exec'[c].record = exec[c].record
    BY <2>1, <2>2 DEF PrExec
  <2> QED BY <1>0, <1>3, <2>3 DEF Knows, HomesStay
<1>4. ASSUME PrMerging(c) PROVE Knows(c)'
  <2>1. exec[c].kind = "pr"
    BY <1>4 DEF PrMerging, At
  <2>2. exec[c].record.mode # "none" => exec[c].record.site # None
    BY <1>0, <2>1 DEF Knows, HomesFixed
  <2> QED BY <1>3, <1>4, <2>1, <2>2, PrMergingIs DEF Knows
<1>5. ASSUME PrMerge(c) \/ PrPush(c) PROVE Knows(c)'
  <2>1. exec[c].kind = "pr" /\ exec[c].record.site # None
    BY <1>0, <1>5 DEF PrMerge, PrPush, At, Knows
  <2>2. Goto(c, "remove") \/ Goto(c, "review")
    BY <1>5 DEF PrMerge, PrPush
  <2> QED BY <1>3, <2>1, <2>2 DEF Knows
<1>6. ASSUME PrRemove(c) PROVE Knows(c)'
  <2>1. /\ exec[c].kind = "pr" /\ exec[c].record.site \in Sites /\ Goto(c, "delete")
        /\ GitRemove(exec[c].record.site) /\ CanRemove(exec[c].record.site)
    BY <1>6, SiteOfTask DEF PrRemove, At, PrSite
  <2> DEFINE s == exec[c].record.site
             t == exec[c].task
  <2>2. tree' = [tree EXCEPT ![s] = None] /\ t \in Known /\ task[t].site = s
    BY <1>3, <2>1 DEF GitRemove
  <2>3. NoTree(t)'
    BY <1>0, <1>3, <2>1, <2>2 DEF NoTree, TypeOK, IInv, TreesHome, Home, Known
  <2>4. s # None
    BY <2>1, WorkTaskConstants
  <2> QED BY <1>3, <2>1, <2>3, <2>4 DEF Knows
<1>7. ASSUME PrDelete(c) PROVE Knows(c)'
  <2>1. /\ exec[c].kind = "pr" /\ exec[c].record.site \in Sites /\ Goto(c, "prune")
        /\ CanDelete(exec[c].record.site) /\ NoTree(exec[c].task)
    BY <1>0, <1>7, SiteOfTask DEF PrDelete, At, PrSite, Knows
  <2>2. Landed(exec[c].task) /\ exec[c].task \in ids
    BY <1>0, <1>3, <2>1, BranchLands DEF HomesFixed
  <2>3. NoTree(exec[c].task)' /\ Landed(exec[c].task)'
    BY <1>0, <1>3, <2>1, <2>2, NoTreeStays, LandedStays
  <2> QED BY <1>3, <2>1, <2>3 DEF Knows
<1>8. ASSUME PrPrune(c) PROVE Knows(c)'
  <2>1. exec[c].kind = "pr" /\ Goto(c, "done") /\ NoTree(exec[c].task) /\ Landed(exec[c].task) /\ exec[c].task \in ids
    BY <1>0, <1>8 DEF PrPrune, At, Knows, HomesFixed
  <2>2. NoTree(exec[c].task)' /\ Landed(exec[c].task)'
    BY <1>0, <1>3, <2>1, NoTreeStays, LandedStays
  <2> QED BY <1>3, <2>1, <2>2 DEF Knows
<1>9. ASSUME PrConflict(c) \/ PrDone(c) \/ PrReview(c) PROVE Knows(c)'
  <2>1. exec'[c] = Idle
    BY <1>0, <1>9, FinishTyped DEF PrConflict, PrDone, PrReview
  <2> QED BY <1>1, <2>1
<1> QED BY <1>2, <1>4, <1>5, <1>6, <1>7, <1>8, <1>9 DEF NewPr

LEMMA KnowsReclaim ==
    ASSUME IInv, [Next]_vars, NEW c \in Commands, Reclaim(c)
    PROVE  Knows(c)'
<1>0. /\ HomesStay /\ HomesFixed /\ TypeOK /\ Shapes /\ TreesStay /\ WorkStays /\ crossVolume' = crossVolume
      /\ Knows(c)
  BY HomesKeep, FilesSteps, FilesStay DEF IInv, ExecutionsKnow
<1>1. ASSUME ReclaimList(c) PROVE Knows(c)'
  <2> DEFINE e == [kind |-> "reclaim", step |-> "next", at |-> now, left |-> Known,
                   task |-> None, record |-> None]
  <2>1. Start(c, e) /\ task' = task
    BY <1>1 DEF ReclaimList, records
  <2>2. exec'[c] = e
    BY <1>0, <2>1 DEF Start, Shapes
  <2> QED BY <2>1, <2>2 DEF Knows, Known
<1>2. ASSUME NEW t \in Tasks, ReclaimNext(c, t) PROVE Knows(c)'
  <2> DEFINE reclaim == task[t].site # None /\ Expired(t, exec[c].at)
             e == [exec[c] EXCEPT !.left = @ \ {t}, !.task = IF reclaim THEN t ELSE None,
                      !.record = IF reclaim THEN task[t] ELSE None,
                      !.step = IF reclaim THEN "status" ELSE "next"]
  <2>1. exec[c] \in ReclaimExec /\ exec[c].left \subseteq Known /\ t \in Known
    BY <1>0, <1>2, KindTells DEF ReclaimNext, At, Knows
  <2>2. exec' = [exec EXCEPT ![c] = e] /\ task' = task
    BY <1>2 DEF ReclaimNext, records
  <2>3. exec'[c] = e
    BY <1>0, <2>2 DEF Shapes
  <2>4. /\ e.kind = "reclaim" /\ e.task = (IF reclaim THEN t ELSE None)
        /\ e.record = (IF reclaim THEN task[t] ELSE None)
        /\ e.step = (IF reclaim THEN "status" ELSE "next") /\ e.left \subseteq Known
    BY <2>1 DEF ReclaimExec
  <2> HIDE DEF e
  <2> QED BY <2>1, <2>2, <2>3, <2>4 DEF Knows, Known
<1>3. ASSUME NEW step, Goto(c, step), exec[c].kind = "reclaim", exec[c].step # "next"
      PROVE  /\ exec'[c].kind = "reclaim" /\ exec'[c].step = step
             /\ exec'[c].left = exec[c].left /\ exec[c].left \subseteq Known'
             /\ exec'[c].task = exec[c].task /\ exec'[c].record = exec[c].record
             /\ exec[c].record # None /\ exec[c].record.site \in Sites /\ exec[c].record.site # None
             /\ exec[c].task \in Known' /\ exec[c].task \in Known /\ exec[c].task \in ids
             /\ exec[c].record.site = task'[exec[c].task].site
             /\ exec[c].record.mode = task'[exec[c].task].mode
             /\ exec[c].record.site = task[exec[c].task].site
  <2>1. exec[c] \in ReclaimExec /\ exec' = [exec EXCEPT ![c] = [exec[c] EXCEPT !.step = step]]
    BY <1>0, <1>3, KindTells DEF Goto
  <2>2. exec'[c] = [exec[c] EXCEPT !.step = step]
    BY <1>0, <2>1 DEF Shapes
  <2>3. /\ exec'[c].kind = "reclaim" /\ exec'[c].step = step /\ exec'[c].left = exec[c].left
        /\ exec'[c].task = exec[c].task /\ exec'[c].record = exec[c].record
    BY <2>1, <2>2 DEF ReclaimExec
  <2>4. exec[c].record.site \in Sites /\ exec[c].record.site # None
    BY <1>3, SiteOfTask, WorkTaskConstants
  <2> QED BY <1>0, <1>3, <2>3, <2>4 DEF Knows, HomesStay, HomesFixed
<1>4. ASSUME ReclaimStatus(c) PROVE Knows(c)'
  <2>1. exec[c].kind = "reclaim" /\ exec[c].step # "next" /\ (Goto(c, "remove") \/ Goto(c, "quarantine"))
    BY <1>4 DEF ReclaimStatus, ReclaimChoice, At
  <2> QED BY <1>3, <2>1 DEF Knows
<1>5. ASSUME ReclaimCopy(c) PROVE Knows(c)'
  <2>1. exec[c].kind = "reclaim" /\ exec[c].step # "next" /\ Goto(c, "rmdir") /\ crossVolume
    BY <1>5 DEF ReclaimCopy, At
  <2> QED BY <1>0, <1>3, <2>1 DEF Knows
<1>6. ASSUME ReclaimQuarantine(c) \/ ReclaimRmdir(c) \/ ReclaimRemove(c) PROVE Knows(c)'
  <2> DEFINE s == exec[c].record.site
             t == exec[c].task
  <2>1. /\ exec[c].kind = "reclaim" /\ exec[c].step # "next" /\ (Goto(c, "abandon") \/ Goto(c, "delete"))
        /\ tree' = [tree EXCEPT ![s] = None]
    BY <1>6 DEF ReclaimQuarantine, ReclaimRmdir, ReclaimRemove, At, RcSite, GitRemove
  <2>2. t \in Known /\ task[t].site = s /\ s \in Sites
    BY <1>3, <2>1
  <2>3. NoTree(t)'
    BY <1>0, <1>3, <2>1, <2>2 DEF NoTree, TypeOK, IInv, TreesHome, Home, Known
  <2> QED BY <1>3, <2>1, <2>3 DEF Knows
<1>7. ASSUME ReclaimDelete(c) \/ ReclaimPrune(c) PROVE Knows(c)'
  <2>1. /\ exec[c].kind = "reclaim" /\ exec[c].step # "next" /\ (Goto(c, "prune") \/ Goto(c, "abandon"))
        /\ NoTree(exec[c].task)
    BY <1>0, <1>7 DEF ReclaimDelete, ReclaimPrune, At, Knows
  <2>2. NoTree(exec[c].task)'
    BY <1>0, <1>3, <2>1, NoTreeStays
  <2> QED BY <1>3, <2>1, <2>2 DEF Knows
<1>8. ASSUME ReclaimAbandon(c) PROVE Knows(c)'
  <2>1. exec[c].kind = "reclaim" /\ exec[c].step # "next" /\ Goto(c, "next")
    BY <1>8 DEF ReclaimAbandon, At
  <2> QED BY <1>3, <2>1 DEF Knows
<1>9. ASSUME ReclaimEnd(c) PROVE Knows(c)'
  <2>1. exec'[c] = Idle
    BY <1>0, <1>9, FinishTyped DEF ReclaimEnd
  <2> QED BY <2>1 DEF Knows, Idle
<1> QED BY <1>1, <1>2, <1>4, <1>5, <1>6, <1>7, <1>8, <1>9 DEF Reclaim

LEMMA KnowsKeeps ==
    ASSUME IInv, [Next]_vars
    PROVE  ExecutionsKnow'
<1> SUFFICES ASSUME NEW c \in Commands PROVE Knows(c)'
  BY DEF ExecutionsKnow
<1>0. /\ HomesStay /\ TreesStay /\ WorkStays /\ crossVolume' = crossVolume /\ Shapes
  BY HomesKeep, FilesSteps, FilesStay DEF IInv
<1>1. ASSUME exec'[c] = exec[c] PROVE Knows(c)'
  BY <1>0, <1>1, KnowsStays
<1>2. ASSUME exec'[c].kind \notin {"pr", "reclaim"} PROVE Knows(c)'
  BY <1>2 DEF Knows
<1>3. ASSUME NEW d \in Commands, New(d) PROVE Knows(c)'
  <2>1. ASSUME NEW t \in Tasks, NEW s \in Sites, NEW mode \in PrModes, NEW expiry \in 0..MaxTime,
               NewAdd(d, t, s, mode, expiry)
        PROVE  exec'[c] = exec[c] \/ exec'[c].kind \notin {"pr", "reclaim"}
    <3> DEFINE e == [kind |-> "new", step |-> "task", task |-> t, site |-> s, mode |-> mode, expiry |-> expiry]
    <3>1. Start(d, e) /\ e \in Executions /\ e.kind = "new"
      BY <2>1 DEF NewAdd, Executions, NewExec
    <3> HIDE DEF e
    <3> QED BY <1>0, <3>1, StartTyped
  <2>2. ASSUME NewWriteTask(d) PROVE exec'[c] = exec[c] \/ exec'[c].kind \notin {"pr", "reclaim"}
    <3>1. Goto(d, "lease") /\ exec[d].kind = "new"
      BY <2>2 DEF NewWriteTask, At
    <3>2. exec[d] \in NewExec
      BY <1>0, <3>1, KindTells
    <3>3. exec'[d] = [exec[d] EXCEPT !.step = "lease"] /\ (c # d => exec'[c] = exec[c])
      BY <1>0, <3>1, GotoTyped
    <3>4. exec'[d].kind = "new"
      BY <3>2, <3>3 DEF NewExec
    <3> QED BY <3>3, <3>4
  <2>3. ASSUME NewWriteLease(d) PROVE exec'[c] = exec[c] \/ exec'[c].kind \notin {"pr", "reclaim"}
    BY <1>0, <2>3, FinishTyped DEF NewWriteLease, Idle
  <2>4. ASSUME NEW t \in Tasks, NewEpic(d, t) PROVE exec' = exec
    BY <2>4 DEF NewEpic
  <2> QED BY <1>1, <1>2, <1>3, <2>1, <2>2, <2>3, <2>4 DEF New
<1>4. ASSUME NEW d \in Commands, NewPr(d) \/ Reclaim(d) \/ Fail(d) PROVE Knows(c)'
  <2>1. CASE c # d
    BY <1>1, <1>4, <2>1, OtherSteps
  <2>2. CASE c = d /\ Fail(d)
    BY <1>0, <1>2, <2>2, FinishTyped DEF Fail, Idle
  <2> QED BY <1>4, <2>1, <2>2, KnowsPr, KnowsReclaim
<1>5. ASSUME (\E s \in Sites : Edit(s) \/ Commit(s)) \/ AbortMerge \/ Tick \/ UNCHANGED vars
      PROVE  exec' = exec
  BY <1>5 DEF Edit, Commit, AbortMerge, Tick, vars
<1>6. ASSUME Crash PROVE exec'[c] = Idle
  BY <1>6 DEF Crash
<1> QED BY <1>1, <1>2, <1>3, <1>4, <1>5, <1>6 DEF Next, Idle

----------------------------------------------------------------------------
(* Closed tasks.                                                           *)

LEMMA ClosedKeeps ==
    ASSUME IInv, [Next]_vars
    PROVE  DoneIsLanded' /\ ClosedHasNoTree'
<1>0. /\ HomesStay /\ HomesFixed /\ TreesStay /\ WorkStays /\ crossVolume' = crossVolume
      /\ ClosedHasNoTree /\ DoneIsLanded /\ RecordsOK
  BY HomesKeep, FilesSteps, FilesStay DEF IInv, TypeOK, Shapes, RecordsOK
<1>1. ASSUME NEW t \in Known, task[t].status \in {"done", "abandoned"} PROVE NoTree(t)'
  <2>1. NoTree(t) /\ t \in ids
    BY <1>0, <1>1 DEF ClosedHasNoTree, NoTree, HomesFixed
  <2> QED BY <1>0, <2>1, NoTreeStays
<1>2. ASSUME NEW t \in Known, task[t].status = "done" PROVE Landed(t)'
  <2>1. NoTree(t) /\ Landed(t)
    BY <1>0, <1>2 DEF ClosedHasNoTree, NoTree, DoneIsLanded, Landed
  <2> QED BY <1>0, <2>1, LandedStays
<1>3. ASSUME NEW t \in Known', task'[t].status \in {"done", "abandoned"}
      PROVE  NoTree(t)' /\ (task'[t].status = "done" => Landed(t)')
  <2>1. CASE t \in Known /\ task'[t] = task[t]
    BY <1>1, <1>2, <1>3, <2>1
  <2>2. ASSUME NEW c \in Commands, NEW status \in Statuses, WritesBack(c, status), t = exec[c].task
        PROVE  NoTree(t)' /\ (task'[t].status = "done" => Landed(t)')
    <3>1. t \in Known /\ t \in ids /\ task'[t].status = status
      BY <1>0, <2>2 DEF WritesBack, SetStatus, RecordsOK, Known, TaskRecord, HomesFixed
    <3>2. NoTree(t) /\ (task'[t].status = "done" => Landed(t))
      BY <1>3, <2>2, <3>1 DEF WritesBack
    <3> QED BY <1>0, <3>1, <3>2, NoTreeStays, LandedStays
  <2>3. CASE OtherStep
    <3>1. task' = task \/ \E c \in Commands, status \in Statuses :
             WritesBack(c, status) /\ task' = [task EXCEPT ![exec[c].task] = task'[exec[c].task]]
      BY <1>0, <2>3 DEF OtherStep, WritesBack, SetStatus, RecordsOK, Known
    <3>2. \/ t \in Known /\ task'[t] = task[t]
          \/ \E c \in Commands, status \in Statuses : WritesBack(c, status) /\ t = exec[c].task
      BY <1>0, <3>1 DEF RecordsOK, Known
    <3> QED BY <2>1, <2>2, <3>2
  <2>4. ASSUME NEW c \in Commands, New(c) PROVE t \in Known /\ task'[t] = task[t]
    <3>1. ASSUME NEW u \in Tasks, NewEpic(c, u) PROVE t \in Known /\ task'[t] = task[t]
      BY <1>0, <1>3, <3>1 DEF NewEpic, RecordsOK, Known
    <3>2. ASSUME NewWriteTask(c) PROVE t \in Known /\ task'[t] = task[t]
      BY <1>0, <1>3, <3>2 DEF NewWriteTask, RecordsOK, Known
    <3>3. ASSUME NewWriteLease(c) \/ (\E u \in Tasks, s \in Sites, mode \in PrModes, expiry \in 0..MaxTime :
                                        NewAdd(c, u, s, mode, expiry))
          PROVE  t \in Known /\ task'[t] = task[t]
      BY <1>3, <3>3 DEF NewWriteLease, NewAdd, records, Known
    <3> QED BY <2>4, <3>1, <3>2, <3>3 DEF New
  <2> QED BY <2>1, <2>3, <2>4, StepsOfOthers
<1>4. ClosedHasNoTree'
  BY <1>3 DEF ClosedHasNoTree, NoTree
<1>5. DoneIsLanded'
  BY <1>3 DEF DoneIsLanded, Landed
<1> QED BY <1>4, <1>5

----------------------------------------------------------------------------
(* The theorems.                                                           *)

BoundsOK == now \in 0..MaxTime /\ starts \in 0..MaxStarts /\ crashes \in 0..MaxCrashes

LEMMA BoundsKeep ==
    ASSUME IInv, [Next]_vars
    PROVE  BoundsOK'
<1>0. BoundsOK /\ MaxTime \in Nat /\ MaxStarts \in Nat /\ MaxCrashes \in Nat
  BY WorkTaskConstants DEF IInv, TypeOK, BoundsOK
<1>1. ASSUME now' \in {now, now + 1}, now' = now \/ now < MaxTime,
             starts' \in {starts, starts + 1}, starts' = starts \/ starts < MaxStarts,
             crashes' \in {crashes, crashes + 1}, crashes' = crashes \/ crashes < MaxCrashes
      PROVE  BoundsOK'
  BY <1>0, <1>1 DEF BoundsOK
<1>2. ASSUME NEW c \in Commands, New(c) PROVE BoundsOK'
  BY <1>1, <1>2 DEF New, NewEpic, NewAdd, Start, NewWriteTask, NewWriteLease, bounds
<1>3. ASSUME NEW c \in Commands, NewPr(c) PROVE BoundsOK'
  BY <1>1, <1>3 DEF NewPr, PrRead, Start, PrMerging, PrMerge, PrConflict, PrRemove, PrDelete, PrPrune,
     PrDone, PrPush, PrReview, bounds
<1>4. ASSUME NEW c \in Commands, Reclaim(c) PROVE BoundsOK'
  BY <1>1, <1>4 DEF Reclaim, ReclaimList, Start, ReclaimNext, ReclaimStatus, ReclaimQuarantine, ReclaimCopy,
     ReclaimRmdir, ReclaimRemove, ReclaimDelete, ReclaimPrune, ReclaimAbandon, ReclaimEnd, bounds
<1>5. ASSUME (\E c \in Commands : Fail(c)) \/ (\E s \in Sites : Edit(s) \/ Commit(s)) \/ AbortMerge \/ UNCHANGED vars
      PROVE  BoundsOK'
  BY <1>1, <1>5 DEF Fail, Edit, Commit, AbortMerge, vars, bounds
<1>6. ASSUME Tick \/ Crash PROVE BoundsOK'
  BY <1>1, <1>6 DEF Tick, Crash, bounds
<1> QED BY <1>2, <1>3, <1>4, <1>5, <1>6 DEF Next

LEMMA InitHolds == Init => IInv
<1> SUFFICES ASSUME Init PROVE IInv
  OBVIOUS
<1>1. Made = {} /\ Made = 1..0 /\ 0 \in 0..MaxWork
  BY WorkTaskConstants DEF Init, Made
<1>2. TypeOK
  <2>1. now \in 0..MaxTime /\ starts \in 0..MaxStarts /\ crashes \in 0..MaxCrashes /\ crossVolume \in Volumes
    BY WorkTaskConstants DEF Init
  <2>2. /\ task \in [Tasks -> TaskRecord \cup {None}] /\ lease \in [Tasks -> 0..MaxTime \cup {None}]
        /\ DOMAIN exec = Commands /\ tree \in [Sites -> Tree \cup {None}]
        /\ branch \in [Sites -> (SUBSET Work) \cup {None}]
    BY DEF Init
  <2>3. /\ registered \subseteq Sites /\ main \in SUBSET Made /\ remote \in SUBSET Made
        /\ quarantined \in SUBSET Made /\ merging \in BOOLEAN /\ ids \subseteq Tasks
        /\ Made \subseteq Work /\ (\A w \in Made : author[w] \in ids)
        /\ \A s \in Sites : tree[s] = None
    BY <1>1 DEF Init
  <2> QED BY <2>1, <2>2, <2>3 DEF TypeOK
<1>3. Shapes
  BY <1>1 DEF Init, Shapes, Executions
<1>4. HomesFixed /\ TreesHome /\ WorkAtHome /\ ExecutionsKnow
  BY <1>1 DEF Init, HomesFixed, TreesHome, WorkAtHome, ExecutionsKnow, Knows, At, Idle, Known
<1>5. NoWorkLost /\ DoneIsLanded /\ ClosedHasNoTree
  BY <1>1 DEF Init, NoWorkLost, DoneIsLanded, ClosedHasNoTree, Known
<1> QED BY <1>2, <1>3, <1>4, <1>5 DEF IInv

LEMMA NextKeeps == IInv /\ [Next]_vars => IInv'
<1> SUFFICES ASSUME IInv, [Next]_vars PROVE IInv'
  OBVIOUS
<1>1. FilesStep /\ crossVolume' = crossVolume /\ RecordsOK' /\ HomesFixed' /\ HomesStay
  BY FilesSteps, HomesKeep
<1>2. FilesOK' /\ BoundsOK'
  BY <1>1, FilesTyped, BoundsKeep DEF HomesStay
<1>3. TypeOK' /\ Shapes'
  BY <1>1, <1>2 DEF IInv, FilesOK, BoundsOK, RecordsOK, HomesStay, TypeOK, Shapes
<1> QED BY <1>1, <1>3, TreesHomeKeeps, WorkKeeps, KnowsKeeps, ClosedKeeps DEF IInv

(* Every variable keeps its shape.                                         *)
THEOREM TypesHold == Spec => []TypeOK
<1>1. IInv => TypeOK
  BY DEF IInv
<1> QED BY <1>1, InitHolds, NextKeeps, PTL DEF Spec

(* No change is lost, however reclaims, landings, edits and restarts       *)
(* overlap on any number of sites (worktask.px, "dirty worktrees are       *)
(* quarantined (moved), never deleted").                                   *)
THEOREM NothingIsLost == Spec => []NoWorkLost
<1>1. IInv => NoWorkLost
  BY DEF IInv
<1> QED BY <1>1, InitHolds, NextKeeps, PTL DEF Spec

(* A task that is done has all it changed on main, or in quarantine        *)
(* (new_pr's direct merge).                                                *)
THEOREM DoneMeansLanded == Spec => []DoneIsLanded
<1>1. IInv => DoneIsLanded
  BY DEF IInv
<1> QED BY <1>1, InitHolds, NextKeeps, PTL DEF Spec

(* A task that is over has left no tree behind (new_pr, reclaim).          *)
THEOREM ClosedLeavesNoTree == Spec => []ClosedHasNoTree
<1>1. IInv => ClosedHasNoTree
  BY DEF IInv
<1> QED BY <1>1, InitHolds, NextKeeps, PTL DEF Spec

(* What was committed before a step is safe after it, on any volume.       *)
THEOREM CommitsAreKept == Spec => CommitsKept
<1>1. IInv /\ [Next]_vars => [\A s \in Sites : branch[s] # None => branch[s] \subseteq Safe']_vars
  <2> SUFFICES ASSUME IInv, [Next]_vars, NEW s \in Sites, branch[s] # None, NEW w \in branch[s]
               PROVE  w \in Safe'
    OBVIOUS
  <2>0. FilesOK /\ FilesStep /\ WorkStays
    BY FilesSteps, FilesStay DEF IInv, TypeOK, Shapes, FilesOK
  <2>1. ASSUME branch'[s] # None, branch[s] \subseteq branch'[s] PROVE w \in Safe'
    BY <2>1 DEF Safe
  <2>2. ASSUME NEW x \in Sites, Deleted(x) PROVE w \in Safe'
    <3>1. x = s => branch[s] \subseteq main
      BY <2>2 DEF Deleted, CanDelete
    <3>2. x # s => branch'[s] = branch[s]
      BY <2>0, <2>2 DEF Deleted, GitDelete, FilesOK
    <3> QED BY <2>0, <2>1, <3>1, <3>2 DEF WorkStays, Safe
  <2>3. ASSUME NEW x \in Sites, Commit(x) PROVE w \in Safe'
    <3>1. tree[x] \in Tree /\ branch[x] \in SUBSET Work /\ branch[x] \cup tree[x].dirty \in SUBSET Work
      BY <2>0, <2>3 DEF Commit, FilesOK, Tree
    <3>2. branch[x] \cup tree[x].dirty # None
      BY <3>1, NoneIsNoValue
    <3> QED BY <2>0, <2>1, <2>3, <3>2 DEF Commit, FilesOK
  <2>4. ASSUME NEW t \in Tasks, NEW x \in Sites, Added(t, x) PROVE w \in Safe'
    <3>1. x # s /\ branch'[s] = branch[s]
      BY <2>0, <2>4 DEF Added, CanAdd, FilesOK
    <3> QED BY <2>1, <3>1
  <2>5. ASSUME branch' = branch PROVE w \in Safe'
    BY <2>1, <2>5
  <2>6. \/ branch' = branch \/ \E x \in Sites : Deleted(x) \/ Commit(x)
        \/ \E t \in Tasks, x \in Sites : Added(t, x)
    BY <2>0 DEF FilesStep, Unchanged, Pruned, MergeStopped, Pushed, Merged, Removed, GitRemove,
       Moved, Copied, Erased, Edited, Edit
  <2> QED BY <2>2, <2>3, <2>4, <2>5, <2>6
<1> QED BY <1>1, InitHolds, NextKeeps, PTL DEF Spec, CommitsKept
=============================================================================
