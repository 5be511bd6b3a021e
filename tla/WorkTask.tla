------------------------------ MODULE WorkTask ------------------------------
(***************************************************************************)
(* Git work trees with leases: praxis/procedures/worktask.px over the      *)
(* actions of crates/radix-core/src/spine/worktask_actions.rs.             *)
(*                                                                         *)
(* Writing a command key starts an execution of its procedure; executions  *)
(* run side by side and interleave at every action they call.  An action   *)
(* that fails ends its execution.  Git and the file system are external:   *)
(* a work tree, the branch checked out in it, the repository's current     *)
(* branch (main) and a remote are the sets of changes they hold.  A caller *)
(* chooses the path and the branch of a task together: a site.             *)
(***************************************************************************)
EXTENDS Naturals, FiniteSets

CONSTANTS
    Tasks,       \* task ids
    Sites,       \* pairs of a branch name and a work tree path, of one repo
    Commands,    \* executions that may be under way at once
    Volumes,     \* may the quarantine be on another volume than the work trees?
    MaxWork,     \* bound of the model: changes made
    MaxTime,     \* bound of the model: the last instant
    MaxStarts,   \* bound of the model: executions started
    MaxCrashes,  \* bound of the model: restarts of the process
    None         \* the absent value

ASSUME WorkTaskConstants ==
    /\ Volumes \subseteq BOOLEAN
    /\ MaxWork \in Nat /\ MaxTime \in Nat /\ MaxStarts \in Nat /\ MaxCrashes \in Nat
    /\ None \notin Tasks \cup Sites \cup Commands

VARIABLES
    now,         \* timestamp_now
    task,        \* worktask:task:*, [Tasks -> TaskRecord or None]
    lease,       \* worktask:lease:*, [Tasks -> Nat or None]: lease_expires_at
    exec,        \* [Commands -> Execution]
    tree,        \* [Sites -> Tree or None], on disk
    registered,  \* sites whose tree git has on its list
    branch,      \* [Sites -> set of changes, or None]
    main,        \* changes on the repository's current branch
    remote,      \* changes pushed
    merging,     \* is a conflicting merge left unfinished in the repository?
    crossVolume, \* is it?  Never changes
    quarantined, \* changes under the quarantine root
    author,      \* the task each change was made for, so far [1..n -> Tasks]
    ids,         \* the task ids given out so far
    starts, crashes \* counted for the bounds

git == <<tree, registered, branch, main, remote, merging>>
records == <<task, lease>>
bounds == <<starts, crashes>>
vars == <<now, records, exec, git, crossVolume, quarantined, author, ids, bounds>>

Work == 1..MaxWork
Made == DOMAIN author

(* subagent-review lands as github-pr does.                                *)
PrModes == {"github-pr", "direct-merge", "none"}
Statuses == {"planned", "active", "in_review", "merging", "done", "abandoned"}
TaskRecord == [site : Sites \cup {None}, mode : PrModes, status : Statuses]
Tree == [for : Tasks, dirty : SUBSET Work]

ASSUME NoneIsNoValue ==
    /\ None \notin TaskRecord /\ None \notin Tree
    /\ \A changes \in SUBSET Work : None # changes

Idle == [kind |-> "idle"]

Init ==
    /\ now = 0 /\ crossVolume \in Volumes
    /\ task = [t \in Tasks |-> None] /\ lease = [t \in Tasks |-> None]
    /\ exec = [c \in Commands |-> Idle]
    /\ tree = [s \in Sites |-> None] /\ registered = {}
    /\ branch = [s \in Sites |-> None]
    /\ main = {} /\ remote = {} /\ merging = FALSE /\ quarantined = {}
    /\ author = <<>> /\ ids = {}
    /\ starts = 0 /\ crashes = 0

At(c, kind, step) == exec[c].kind = kind /\ exec[c].step = step
Goto(c, step) == exec' = [exec EXCEPT ![c].step = step]
Finish(c) == exec' = [exec EXCEPT ![c] = Idle]
Start(c, e) ==
    /\ exec[c] = Idle /\ starts < MaxStarts
    /\ exec' = [exec EXCEPT ![c] = e]
    /\ starts' = starts + 1

Known == {t \in Tasks : task[t] # None}

(* generate_id: a uuid, never given out before, before a crash included.   *)
GenerateId(t) == t \notin ids /\ ids' = ids \cup {t}

----------------------------------------------------------------------------
(* What git does when asked.                                               *)

(* Mutant: -B, which takes a branch that exists.                           *)
ForceAdd(s) == tree[s] = None /\ s \notin registered

CanAdd(s) == branch[s] = None /\ tree[s] = None /\ s \notin registered

Clean(s) == tree[s] # None => tree[s].dirty = {}

(* Mutant: --force, which takes changes with it.                           *)
ForceRemove(s) == s \in registered

(* worktree remove, without --force: a tree that is gone is no obstacle,   *)
(* changes in it are.                                                      *)
CanRemove(s) == s \in registered /\ Clean(s)

(* Mutant: -D.                                                             *)
ForceDelete(s) == branch[s] # None /\ s \notin registered

(* branch -d: not while checked out, not before it is merged.              *)
CanDelete(s) == branch[s] # None /\ s \notin registered /\ branch[s] \subseteq main

GitRemove(s) ==
    /\ tree' = [tree EXCEPT ![s] = None]
    /\ registered' = registered \ {s}
    /\ UNCHANGED <<branch, main, remote, merging>>

GitDelete(s) ==
    /\ branch' = [branch EXCEPT ![s] = None]
    /\ UNCHANGED <<tree, registered, main, remote, merging>>

(* Mutant: whatever is registered goes.                                    *)
PruneAll ==
    /\ registered' = {}
    /\ UNCHANGED <<tree, branch, main, remote, merging>>

GitPrune ==
    /\ registered' = {s \in registered : tree[s] # None}
    /\ UNCHANGED <<tree, branch, main, remote, merging>>

----------------------------------------------------------------------------
(* new_epic, new_feature, new_bugfix, new_chore.                           *)

NewEpic(c, t) ==
    /\ exec[c] = Idle /\ starts < MaxStarts
    /\ GenerateId(t)
    /\ task' = [task EXCEPT ![t] = [site |-> None, mode |-> "none", status |-> "planned"]]
    /\ starts' = starts + 1
    /\ UNCHANGED <<now, crossVolume, lease, exec, git, quarantined, author, crashes>>

(* Ends at once, without a trace, when git refuses the tree.               *)
NewAdd(c, t, s, mode, expiry) ==
    /\ GenerateId(t) /\ CanAdd(s)
    /\ Start(c, [kind |-> "new", step |-> "task", task |-> t, site |-> s, mode |-> mode, expiry |-> expiry])
    /\ tree' = [tree EXCEPT ![s] = [for |-> t, dirty |-> {}]]
    /\ registered' = registered \cup {s}
    /\ branch' = [branch EXCEPT ![s] = {}]
    /\ UNCHANGED <<now, crossVolume, records, main, remote, merging, quarantined, author, crashes>>

NewWriteTask(c) ==
    /\ At(c, "new", "task")
    /\ task' = [task EXCEPT ![exec[c].task] =
                   [site |-> exec[c].site, mode |-> exec[c].mode, status |-> "active"]]
    /\ Goto(c, "lease")
    /\ UNCHANGED <<now, crossVolume, lease, git, quarantined, author, ids, bounds>>

NewWriteLease(c) ==
    /\ At(c, "new", "lease")
    /\ lease' = [lease EXCEPT ![exec[c].task] = exec[c].expiry]
    /\ Finish(c)
    /\ UNCHANGED <<now, crossVolume, task, git, quarantined, author, ids, bounds>>

----------------------------------------------------------------------------
(* new_pr.  It writes back the record it read, with another status.        *)

PrRead(c, t) ==
    /\ task[t] # None
    /\ Start(c, [kind |-> "pr", step |-> "merging", task |-> t, record |-> task[t]])
    /\ UNCHANGED <<now, crossVolume, records, git, quarantined, author, ids, crashes>>

PrSite(c) == exec[c].record.site

SetStatus(c, status) == task' = [task EXCEPT ![exec[c].task] = [exec[c].record EXCEPT !.status = status]]

PrMerging(c) ==
    /\ At(c, "pr", "merging")
    /\ SetStatus(c, "merging")
    /\ Goto(c, CASE exec[c].record.mode = "direct-merge" -> "merge"
                 [] exec[c].record.mode = "github-pr" -> "push"
                 [] exec[c].record.mode = "none" -> "review")
    /\ UNCHANGED <<now, crossVolume, lease, git, quarantined, author, ids, bounds>>

PrMerge(c) ==
    /\ At(c, "pr", "merge")
    /\ branch[PrSite(c)] # None /\ ~ merging
    /\ main' = main \cup branch[PrSite(c)]
    /\ Goto(c, "remove")
    /\ UNCHANGED <<now, crossVolume, records, tree, registered, branch, remote, merging, quarantined, author, ids, bounds>>

(* A conflict ends the execution and leaves the repository mid-merge.      *)
PrConflict(c) ==
    /\ At(c, "pr", "merge")
    /\ branch[PrSite(c)] # None /\ ~ merging
    /\ branch[PrSite(c)] \ main # {}
    /\ merging' = TRUE
    /\ Finish(c)
    /\ UNCHANGED <<now, crossVolume, records, tree, registered, branch, main, remote, quarantined, author, ids, bounds>>

PrRemove(c) ==
    /\ At(c, "pr", "remove")
    /\ CanRemove(PrSite(c)) /\ GitRemove(PrSite(c))
    /\ Goto(c, "delete")
    /\ UNCHANGED <<now, crossVolume, records, quarantined, author, ids, bounds>>

PrDelete(c) ==
    /\ At(c, "pr", "delete")
    /\ CanDelete(PrSite(c)) /\ GitDelete(PrSite(c))
    /\ Goto(c, "prune")
    /\ UNCHANGED <<now, crossVolume, records, quarantined, author, ids, bounds>>

PrPrune(c) ==
    /\ At(c, "pr", "prune")
    /\ GitPrune
    /\ Goto(c, "done")
    /\ UNCHANGED <<now, crossVolume, records, quarantined, author, ids, bounds>>

PrDone(c) ==
    /\ At(c, "pr", "done")
    /\ SetStatus(c, "done")
    /\ Finish(c)
    /\ UNCHANGED <<now, crossVolume, lease, git, quarantined, author, ids, bounds>>

PrPush(c) ==
    /\ At(c, "pr", "push")
    /\ tree[PrSite(c)] # None
    /\ remote' = remote \cup branch[PrSite(c)]
    /\ Goto(c, "review")
    /\ UNCHANGED <<now, crossVolume, records, tree, registered, branch, main, merging, quarantined, author, ids, bounds>>

PrReview(c) ==
    /\ At(c, "pr", "review")
    /\ SetStatus(c, "in_review")
    /\ Finish(c)
    /\ UNCHANGED <<now, crossVolume, lease, git, quarantined, author, ids, bounds>>

----------------------------------------------------------------------------
(* reclaim.  `left` are the listed tasks still to be examined: the store   *)
(* lists them in no particular order.  `record` is the listed copy, whose  *)
(* status is overwritten, and `at` the time the execution started.         *)

ReclaimList(c) ==
    /\ Start(c, [kind |-> "reclaim", step |-> "next", at |-> now, left |-> Known,
                 task |-> None, record |-> None])
    /\ UNCHANGED <<now, crossVolume, records, git, quarantined, author, ids, crashes>>

Expired(t, instant) == lease[t] # None /\ instant >= lease[t]

ReclaimNext(c, t) ==
    /\ At(c, "reclaim", "next")
    /\ t \in exec[c].left
    /\ LET reclaim == task[t].site # None /\ Expired(t, exec[c].at)
       IN exec' = [exec EXCEPT ![c].left = @ \ {t},
                               ![c].task = IF reclaim THEN t ELSE None,
                               ![c].record = IF reclaim THEN task[t] ELSE None,
                               ![c].step = IF reclaim THEN "status" ELSE "next"]
    /\ UNCHANGED <<now, crossVolume, records, git, quarantined, author, ids, bounds>>

RcSite(c) == exec[c].record.site

(* Mutant: a dirty tree is given up where it stands.                       *)
LeaveDirty(s) == IF Clean(s) THEN "remove" ELSE "abandon"

ReclaimChoice(s) == IF Clean(s) THEN "remove" ELSE "quarantine"

ReclaimStatus(c) ==
    /\ At(c, "reclaim", "status")
    /\ tree[RcSite(c)] # None
    /\ Goto(c, ReclaimChoice(RcSite(c)))
    /\ UNCHANGED <<now, crossVolume, records, git, quarantined, author, ids, bounds>>

(* move_dir, where a rename will do.                                       *)
ReclaimQuarantine(c) ==
    /\ At(c, "reclaim", "quarantine") /\ ~ crossVolume
    /\ tree[RcSite(c)] # None
    /\ quarantined' = quarantined \cup tree[RcSite(c)].dirty
    /\ tree' = [tree EXCEPT ![RcSite(c)] = None]
    /\ Goto(c, "abandon")
    /\ UNCHANGED <<now, crossVolume, records, registered, branch, main, remote, merging, author, ids, bounds>>

(* move_dir across volumes: copy_dir_recursive, then remove_dir_all.       *)
ReclaimCopy(c) ==
    /\ At(c, "reclaim", "quarantine") /\ crossVolume
    /\ tree[RcSite(c)] # None
    /\ quarantined' = quarantined \cup tree[RcSite(c)].dirty
    /\ Goto(c, "rmdir")
    /\ UNCHANGED <<now, crossVolume, records, git, author, ids, bounds>>

ReclaimRmdir(c) ==
    /\ At(c, "reclaim", "rmdir")
    /\ tree[RcSite(c)] # None
    /\ tree' = [tree EXCEPT ![RcSite(c)] = None]
    /\ Goto(c, "abandon")
    /\ UNCHANGED <<now, crossVolume, records, registered, branch, main, remote, merging, quarantined, author, ids, bounds>>

ReclaimRemove(c) ==
    /\ At(c, "reclaim", "remove")
    /\ CanRemove(RcSite(c)) /\ GitRemove(RcSite(c))
    /\ Goto(c, "delete")
    /\ UNCHANGED <<now, crossVolume, records, quarantined, author, ids, bounds>>

ReclaimDelete(c) ==
    /\ At(c, "reclaim", "delete")
    /\ CanDelete(RcSite(c)) /\ GitDelete(RcSite(c))
    /\ Goto(c, "prune")
    /\ UNCHANGED <<now, crossVolume, records, quarantined, author, ids, bounds>>

ReclaimPrune(c) ==
    /\ At(c, "reclaim", "prune")
    /\ GitPrune
    /\ Goto(c, "abandon")
    /\ UNCHANGED <<now, crossVolume, records, quarantined, author, ids, bounds>>

ReclaimAbandon(c) ==
    /\ At(c, "reclaim", "abandon")
    /\ SetStatus(c, "abandoned")
    /\ Goto(c, "next")
    /\ UNCHANGED <<now, crossVolume, lease, git, quarantined, author, ids, bounds>>

(* The outcomes go to worktask:reclaim:*, which nothing reads.             *)
ReclaimEnd(c) ==
    /\ At(c, "reclaim", "next") /\ exec[c].left = {}
    /\ Finish(c)
    /\ UNCHANGED <<now, crossVolume, records, git, quarantined, author, ids, bounds>>

----------------------------------------------------------------------------
(* An action of new_pr or reclaim fails, and the execution with it: the    *)
(* tree or the branch is not as the execution expects it.                  *)
Refused(c) ==
    \/ At(c, "pr", "merge") /\ (PrSite(c) = None \/ merging \/ branch[PrSite(c)] = None)
    \/ At(c, "pr", "remove") /\ ~ CanRemove(PrSite(c))
    \/ At(c, "pr", "delete") /\ ~ CanDelete(PrSite(c))
    \/ At(c, "pr", "push") \* the tree is gone, or the remote out of reach
    \/ At(c, "reclaim", "status") /\ tree[RcSite(c)] = None
    \/ At(c, "reclaim", "quarantine") \* the tree is gone, or the disk full
    \/ At(c, "reclaim", "rmdir") /\ tree[RcSite(c)] = None
    \/ At(c, "reclaim", "remove") /\ ~ CanRemove(RcSite(c))
    \/ At(c, "reclaim", "delete") /\ ~ CanDelete(RcSite(c))

Fail(c) ==
    /\ exec[c] # Idle /\ Refused(c)
    /\ Finish(c)
    /\ UNCHANGED <<now, crossVolume, records, git, quarantined, author, ids, bounds>>

----------------------------------------------------------------------------
(* The agent working in a tree, time, and the end of the process.          *)

Edit(s) ==
    /\ tree[s] # None /\ Cardinality(Made) < MaxWork
    /\ LET w == Cardinality(Made) + 1
       IN /\ author' = [v \in 1..w |-> IF v = w THEN tree[s].for ELSE author[v]]
          /\ tree' = [tree EXCEPT ![s].dirty = @ \cup {w}]
    /\ UNCHANGED <<now, crossVolume, records, exec, registered, branch, main, remote, merging, quarantined, ids, bounds>>

Commit(s) ==
    /\ tree[s] # None /\ tree[s].dirty # {}
    /\ branch' = [branch EXCEPT ![s] = @ \cup tree[s].dirty]
    /\ tree' = [tree EXCEPT ![s].dirty = {}]
    /\ UNCHANGED <<now, crossVolume, records, exec, registered, main, remote, merging, quarantined, author, ids, bounds>>

AbortMerge ==
    /\ merging /\ merging' = FALSE
    /\ UNCHANGED <<now, crossVolume, records, exec, tree, registered, branch, main, remote, quarantined, author, ids, bounds>>

Tick ==
    /\ now < MaxTime /\ now' = now + 1
    /\ UNCHANGED <<crossVolume, records, exec, git, quarantined, author, ids, bounds>>

(* Git, the files and the store outlive the process, executions do not.    *)
Crash ==
    /\ crashes < MaxCrashes /\ crashes' = crashes + 1
    /\ \E c \in Commands : exec[c] # Idle
    /\ exec' = [c \in Commands |-> Idle]
    /\ UNCHANGED <<now, crossVolume, records, git, quarantined, author, ids, starts>>

New(c) ==
    \/ \E t \in Tasks : NewEpic(c, t)
    \/ \E t \in Tasks, s \in Sites, mode \in PrModes, expiry \in 0..MaxTime :
          NewAdd(c, t, s, mode, expiry)
    \/ NewWriteTask(c) \/ NewWriteLease(c)

NewPr(c) ==
    \/ \E t \in Tasks : PrRead(c, t)
    \/ PrMerging(c) \/ PrMerge(c) \/ PrConflict(c) \/ PrRemove(c) \/ PrDelete(c)
    \/ PrPrune(c) \/ PrDone(c) \/ PrPush(c) \/ PrReview(c)

Reclaim(c) ==
    \/ ReclaimList(c) \/ \E t \in Tasks : ReclaimNext(c, t)
    \/ ReclaimStatus(c) \/ ReclaimQuarantine(c) \/ ReclaimCopy(c) \/ ReclaimRmdir(c)
    \/ ReclaimRemove(c) \/ ReclaimDelete(c) \/ ReclaimPrune(c)
    \/ ReclaimAbandon(c) \/ ReclaimEnd(c)

Next ==
    \/ \E c \in Commands : New(c) \/ NewPr(c) \/ Reclaim(c) \/ Fail(c)
    \/ \E s \in Sites : Edit(s) \/ Commit(s)
    \/ AbortMerge \/ Tick \/ Crash

Spec == Init /\ [][Next]_vars

----------------------------------------------------------------------------
(* Properties.                                                             *)

(* Every variable keeps its shape; git lists the trees that are there.     *)
TypeOK ==
    /\ now \in 0..MaxTime /\ crossVolume \in Volumes /\ starts \in 0..MaxStarts /\ crashes \in 0..MaxCrashes
    /\ task \in [Tasks -> TaskRecord \cup {None}]
    /\ lease \in [Tasks -> 0..MaxTime \cup {None}]
    /\ DOMAIN exec = Commands
    /\ tree \in [Sites -> Tree \cup {None}]
    /\ registered \subseteq Sites
    /\ branch \in [Sites -> (SUBSET Work) \cup {None}]
    /\ main \in SUBSET Made /\ remote \in SUBSET Made /\ quarantined \in SUBSET Made
    /\ merging \in BOOLEAN
    /\ ids \subseteq Tasks
    /\ Made \subseteq Work /\ \A w \in Made : author[w] \in ids
    /\ \A s \in Sites : tree[s] # None => s \in registered /\ branch[s] # None

Safe == main \cup remote \cup quarantined
        \cup (UNION {branch[s] : s \in {s \in Sites : branch[s] # None}})
        \cup (UNION {tree[s].dirty : s \in {s \in Sites : tree[s] # None}})

(* No change is ever lost, committed or not, whatever reclaims, landings,  *)
(* edits and restarts overlap, where the quarantine is a rename away       *)
(* ("dirty worktrees are quarantined (moved), never deleted").             *)
NoWorkLost == ~ crossVolume => Made \subseteq Safe

(* "The data is never lost, only relocated" (move_dir), by copying too.    *)
OnlyRelocated == Made \subseteq Safe

(* What is committed is safe on any volume.                                *)
CommitsKept == [][\A s \in Sites :
                    branch[s] # None => branch[s] \subseteq Safe']_vars

(* A task that is done has each of its changes on main, or in quarantine   *)
(* when a reclaim overtook the landing (a rename away, as above).          *)
DoneIsLanded ==
    \A t \in Known : ~ crossVolume /\ task[t].status = "done" =>
        {w \in Made : author[w] = t} \subseteq main \cup quarantined

(* A task that is done or abandoned has no work tree left that nobody      *)
(* would look after.                                                       *)
ClosedHasNoTree ==
    \A t \in Known, s \in Sites :
        task[t].status \in {"done", "abandoned"} => tree[s] = None \/ tree[s].for # t

(* A work tree goes only once its owner's lease has expired, unless its    *)
(* owner's own landing takes it ("Reclaim expired-lease worktrees").       *)
LeaseRespected ==
    [][\A s \in Sites, c \in Commands :
          tree[s] # None /\ tree'[s] = None /\ exec'[c] # exec[c] /\ exec[c].kind = "reclaim"
          => Expired(tree[s].for, now)]_vars

(* A task whose tree is already gone does not stop a reclaim for the tasks *)
(* after it ("exactly one outcome per task").                              *)
ReclaimReachesAll ==
    [][\A c \in Commands :
          exec[c].kind = "reclaim" /\ exec'[c] = Idle /\ crashes' = crashes
          => exec[c].step # "status"]_vars
=============================================================================
