# pares-radix: specifications

TLA+ models of the concurrent and distributed core of pares-radix, checked with
TLC on small instances and, where it matters most, proved with TLAPS for every
value of the constants. Paths are relative to the repository, `core/` stands for
`crates/radix-core/src/`.

| module | what it is |
|---|---|
| `TaskCustody`, `CustodyLedger` | the conditional task store on every host and the handoff of tasks between hosts; what it promises: one ledger entry per task |
| `SpinePipeline` | the event loop that carries every conversation, with the procedures it runs |
| `AgendaScheduler` | scheduled tasks, their store, and restarts |
| `WorkTask` | git work trees with leases, quarantine and landing |
| `ShellSessions` | background sessions of the shell tool |
| `TaskLifecycle` | the agent's tasks and those who write to them |
| `SyncReplica` | one synced entry on several devices, with their offline queues |
| `ModelPool` | the pool of models, the user's overrides and their file |
| `ModelCall` | a model call: session token, retries and fallback |
| `MC...` | the instances of each for TLC, with the `.cfg` files |
| `...Proofs` | the theorems about each; `TaskCustodyProofs` also holds the refinement and what is proved of `SyncReplica` |

Run `tlc -config TaskCustodyRace.cfg MCTaskCustody` (and so on), and
`tlapm TaskCustodyProofs.tla` (and so on) for the proofs. The configurations that
`PROJECT.json` lists as runs are the ones to keep passing (or, where they say so,
failing); section 11 names the others.

## 1. The system

A pares-radix host runs agents. Messages reach an agent through channels
(Telegram, Matrix, the TUI, ...), go through an event pipeline made of Rust
procedures and `.px` rules, are answered with the help of a model and its tools,
and go back through a channel. Around that spine are stores (tasks,
conversations, schedules, key-value state over the PluresDB CRDT), workers
(sub-agents, the task dispatcher, the agenda), and links between hosts (task
handoff, sync).

### Inventory

For each part: its state (S), operations (O), who it talks to (I), what is hard
(H), and what makes it correct (C).

**Task custody** (`core/task_handoff.rs`, `core/spine/task_handoff_actions.rs`).
S: one `CustodyRecord` per task and store. O: `seed_owned`, `prepare_handoff`,
`accept_handoff`, `claim_task`, `set_blocked`, `complete_claimed`,
`fail_claimed`, `evaluable_tasks`. I: called by `.px` verbs; envelopes travel
between hosts as files. H: each operation reads without the lock and swaps under
it; envelopes may be duplicated, stale, altered, lost; callers crash. C: one host
holds a task, one worker runs it, what it reported stays. *Modelled.*

**Spine pipeline** (`core/spine/pipeline.rs`, `event.rs`). S: a bounded channel, a
broadcast of deliveries. O: emit, receive, dispatch to procedures, write to the
registry. I: adapters send into it; its procedures emit back into it. H: the one
consumer is also a producer; turns of one chat interleave event by event. C: every
message is answered once, on its channel, and the loop never stops. *Modelled.*

**Reactive registry** (`core/spine/reactive.rs`). S: waiters per decision, `.px`
triggers. O: `register_waiter`, `on_write`, `execute_triggered`. I: the router
awaits it, the loop writes to it. H: executions are tasks of their own, early, late
or fruitless. C: a decision awaited is not missed. *Modelled as far as inbound
messages go.*

**Conversation procedures** (`core/spine/procedures/*.rs`). S: tool-loop count and
history per chat, the conversation store. O: one handler each. H: three of them see
every response and exactly one may act. C: history in order and without
duplicates, tool loops end, limits hold. *Modelled, but for the commitment
detector; the model call, one choice of outcome here, has a module of its own.*

**Agenda** (`crates/agenda/src`). S: tasks in memory, tasks in the store,
executions under way. O: `load_persisted`, `add`, `remove`, `set_enabled`,
`start`'s tick, the completion of an execution. H: memory is written under a lock
and the store after it, so the store's writes may come in another order;
completions write back a task that may have changed since. C: what is removed or
disabled stays so, a one-time task runs once. *Modelled.*

**Task manager and tool** (`core/task_manager.rs`, `core/task.rs`, `core/tools`).
S: task records. O: create, update, complete, cancel, checkpoint. H: load, modify,
store with no compare: updates are lost, terminal states revived. C: terminal means
terminal, links lead somewhere, attempts are counted once. *Modelled.*

**Task dispatcher** (`core/task_executor.rs`, `core/spine/task_dispatch_actions.rs`).
S: none of its own. O: pick an open task, mark it in progress, inject its prompt as
an inbound event. I: task manager, pipeline. H: injection and marking are two
steps. C: what is closed is not taken up again. *Modelled in `TaskLifecycle`.*

**Sub-agents** (`core/spine/subagent_actor.rs`, `core/subagent_spawn.rs`). S:
requests, running agents, reported states. O: spawn, poll, report. H: polling races
completion. C: a finished agent closes its task and no other. *The end of an agent
is modelled in `TaskLifecycle`; spawning and polling are process I/O.*

**Sync** (`crates/sync/src`). S: an offline queue in memory, peers, topics. O:
enqueue, drain, merge, pair, join. H: what is drained and not delivered must be put
back by the caller; the merge takes the remote side of a tie. C: replicas converge.
*Queue, merge and engine modelled; pairing and discovery are not.*

**Work tasks** (`praxis/procedures/worktask.px`, `core/spine/worktask_actions.rs`). S:
a record and a lease per task, work trees, branches, a quarantine. O: `new_*`,
`new_pr`, `reclaim`, `set_status`. I: each command is an execution of its own over
git. H: executions interleave between any two actions, any of which may fail; the
agent edits meanwhile; paths are used again. C: no work is lost, done means landed,
a lease is respected. *Modelled.*

**Shell sessions** (`core/shell_executor.rs`). S: a map of sessions behind one lock,
two readers and a waiter for each process. O: start, yield, poll, write, kill,
remove, clean up. H: six kinds of tasks race over one session, and one of them keeps
the lock while it waits for a process. C: no process is lost, output is kept and told
once, an end is noticed. *Background sessions modelled.*

**Model pool** (`core/model_pool`). S: models, overrides, a configuration file. O:
discover, disable, enable, prefer, reset, save. H: discoveries are answered without
the lock; a save is a copy, a read, a truncation and a write. C: what a command has
confirmed stays so. *Modelled without scoring and the providers' protocols.*

**Model call** (`core/spine/procedures/model_invoker.rs`, `core/auth/copilot.rs`). S: a
session token behind a mutex, a default model, per call what it tried. O: exchange,
complete with its retries, the fallback loop. H: the mutex is held over a network
exchange; token, URL and default model are read and used long after. C: a token
stays with its URL, no model is asked twice, every call ends. *Modelled.*

**Plugin grants and supervisor** (`core/spine/plugin_privilege_actions.rs`,
`crates/pares-radix-svc/src/supervisor.rs`). S: allowlist, channel owners, model
grants. H: an owner is read and written in two awaits. *Not modelled: only one plugin
is ever spawned, so nothing races.*

**Left aside.** Interpreter of `.px` (a language, whose outcomes the models take as
choices), verbs that call git, shells or GUIs, storage wrappers, logs, formatting,
authentication, telemetry, bindings, indexers, graph hashing, marketplace, MCP
client, the web front end. Each is in `PROJECT.json` with its reason.

## 2. Task custody

### The model

`rec[h][t]` is the record of task `t` in the store of host `h`, or `None`. A caller
(thread, CLI process) has at most one call; `phase` says where it stands:

| phase | code |
|---|---|
| `seed` | `seed_owned`'s insert, before `prepare_handoff` in the same verb |
| `read` | the unlocked `read_record` and the decision on it |
| `swap` | `cas`: compare with the snapshot and write, under the lock |
| `inspect` | `accept_handoff`'s second read, after its insert failed |

`PrepareRead`/`PrepareSwap`, `ClaimRead`/`ClaimSwap`, `UpdateRead`/`UpdateSwap`,
`SeedOwned`, `AcceptInsert`/`AcceptInspect` are the halves of the operations;
between the halves of one, any other caller may act. `Retry` is the loop's way
back. `set_blocked`, `complete_claimed` and `fail_claimed` are the one function
`update_claimed` in the code and here.

Envelopes once issued stay in `net`: delivering one again, late or never is
accepting it again, late or never. `Damage` alters the target of a copy, keeping
its digest. `Crash(h)` forgets the calls on `h`, keeping its store.

`claims`, `outcomes` and `imports` are history: what callers were told. No guard
reads them.

Abstractions, all of data: a task is its id; blake3 is injective, so a digest is
the record it was made of; `Uuid::new_v4` yields an unused token. Assumed of the
callers: an agent's verbs are run on the host of that agent, and a task is seeded
only for the agent that created it, as the commands that use the verbs do. `MaxGen` bounds the
generations that requests name; nothing else is bounded.

### What is checked

| run | instance | states | shows |
|---|---|---|---|
| `custody_race` | 2 hosts, 2 callers, 2 workers, 2 tokens, 2 handoff ids, one task, one transfer, damage, crashes | 72 k | everything that a race can break |

Instances beside the runs: `TaskCustodyRelay.cfg` (3 hosts, 1 caller, two transfers,
damage, crashes; passes: old and altered envelopes against a task that moved on twice),
`TaskCustodyReturns.cfg` (2 hosts, 2 callers, fair; passes) and
`TaskCustodyDuplicate.cfg` (the disagreement below).

- `SingleCustodian`: no two hosts hold a task.
- `OneRunner`: all claims ever handed out for a task are one claim.
- `OutcomeStands`: an acknowledged outcome is on record where the task is held.
- `OneExport`: of competing exports one wins.
- `MovesOn`: a record never returns to a value it had. `cas` compares records, not
  versions; this is what makes that sound.
- `RetriesPay`: a caller starts over only if the record has moved to a later stage
  than the one it read. A record has four stages and an operation swaps from one of
  them, so the unbounded loops of the code do not go round for ever.
- `CallsReturn` (`TaskCustodyReturns.cfg`): weak fairness of each caller's own steps (threads keep being
  scheduled) is enough for every call to end.
- `ImplementsLedger`: read together, the stores are one ledger: the newest record of
  a task registers, is offered, taken, run and reported, one entry at a time.
- `CustodyInv`: the invariant behind the proofs, checked in `TaskCustodyRelay.cfg`;
  it and `TypeOK` are theorems and not part of the run.

Why the bounds suffice: two callers give every interleaving of one operation's
halves with another's; records move on at most three times per store (`MovesOn`),
so a third caller adds no new kind of interference; three hosts give the first
chain with two old envelopes, and a hand-back. The proofs lift all bounds for
everything but `CallsReturn`.

Deadlock is not checked: when all is reported and nobody calls, the system rests.

### What the code disagrees with

`TaskCustodyDuplicate.cfg`: ADR-0036 says "Duplicate identical operations are
idempotent"; importing an identical envelope a second time answers `Conflict` once
the imported task was claimed or exported on.

Noticed, without a run: ADR-0036 speaks of sled's compare-and-swap, the code has a
mutex of one process; `set_blocked` repeated is refused, unlike a repeated
completion; nothing leads out of `Blocked`; a task handed from A to B and back to A
cannot be imported by A (its own `transfer_pending` record is in the way) and is
then held by nobody; `task-handoff.px` names two verbs that have no handler.

### What is proved

`TaskCustodyProofs`, for any finite or infinite sets of hosts, agents, tasks,
workers, tokens and callers, from `CustodyConstants` (the shape of `Host` and
`Origin`; `None` is nobody), `NoneIsNoRecord` and, for the ledger, `NoneIsNoPair` only:

| theorem | states |
|---|---|
| `TypeCorrect` | `Spec => []TypeOK` |
| `CustodyInvariant` | `Spec => []CustodyInv` |
| `SingleCustody`, `SingleRunner`, `OutcomesStand`, `SingleExport` | the four safety properties |
| `RecordsMoveOn` | `Spec => MovesOn` |
| `RetriesAreProgress` | `Spec => RetriesPay` |
| `StoresAreOneLedger` | `Spec => ImplementsLedger` |

The argument. `SingleCustodian` is not inductive: nothing in it says that a pending
transfer will be imported by only one store. `CustodyInv` adds that:

- a store *speaks* for a task if it holds it, or has offered it to a store that has no
  record of it. `OneSpeaker`: at most one does. Export and import pass the voice on;
  an import needs an empty store (insert-only), so an old envelope finds nobody to
  speak to;
- `EnvelopesIssued`: an intact envelope is a pending record still standing in the
  store that issued it, so what is imported is what was offered;
- `GenerationsOrdered`: along the chain of transfers generations grow, so envelopes
  of one generation come from one record (`OneExport`);
- `CallsSound`: a caller about to swap holds a snapshot that satisfied its
  operation's own conditions; together with `cas` the decision is still right when
  it takes effect;
- `OriginFirst`, `RecordsSound`: the bookkeeping that makes the above inductive;
- `ClaimsRecorded`, `OutcomeStands`: what was told is on record with the holder.

`StoreEffect` is the lemma everything rests on: it says, once for all actions, which
seven kinds of change one store record can undergo in a step. `NetEffect`,
`ClaimEffect` and `OutcomeEffect` do the same for the envelopes and the answers.
Each conjunct of `CustodyInv` then has a step lemma of its own.

`RetriesAreProgress` needs one more fact, `SnapshotsBehind`: what a caller has read is
no later than what is stored now, and equal to it if the stage is the same.

`StoresAreOneLedger`. The refinement takes as the ledger's entry for a task the newest
record of any store, which `Newest` picks by `CHOOSE`. `NewestIs` shows that there is
one at most (the holder, or the last to have offered: `OneSpeaker`,
`GenerationsOrdered`), `NewestExists` that a task on record has one, and
`FieldsSound` that an unclaimed record is an open one. Then every kind of change that
`StoreEffect` lists is one step of the ledger: seeding registers, exporting offers,
importing takes, claiming runs, updating reports; all else stutters.

Model-checked only: `CallsReturn` (liveness).

## 3. The spine pipeline

### The model

`queue` is the bounded channel (`mpsc`), `cur` the event in dispatch, `todo` the
procedures that have yet to see it, `out` what the running procedure has yet to
emit. `Send` is an adapter (or the task dispatcher) putting a message in; it waits
while the channel is full. `Receive`, `Emit` and `Finish` are `Pipeline::run`:
a procedure's emits go to the back of the same channel one by one, each waiting for
a place, before the next procedure runs. `Handlers` is the order of registration in
`build_task_aware_runtime`.

| action | code |
|---|---|
| `SubscribeThenFire`, `Route`, `FallBack` | `InboundRouter::handle` up to the wait, after a decision, after the timeout |
| `Execute` | the end of one `.px` execution (`execute_triggered`) |
| `RecordInbound`, `RecordResponse` | `HistoryRecorder::handle` |
| `Invoke` | `ModelInvoker::handle`: answers, calls tools, or fails for good |
| `ResetOnInbound`, `RunTools` | `ToolExecutor::handle` |
| `RouteResponse` | `ResponseRouter::handle` |

An inbound message fires its triggers twice: the router writes `inbound:{id}` and
after the last procedure the loop writes it again (`Finish`). Each firing is a `.px`
execution that may end any time later, without a result or with a decision.

`sent`, `overlapped`, `decided`, `silent`, `delivered`, `rounds` and the `turn` of an
event are history for the properties. No guard of a handler reads them, with one
exception: `Invoke` stops calling tools after `MaxRounds` rounds of a turn. That is a
bound of the model; it lies above every limit the properties speak of.

Abstractions: texts, of which only whether a response has any is kept (a model that
returns no content yields an empty answer, which is delivered all the same and not
recorded); the model call as the choice between an answer and a failure (section 10
is about how it comes to either); a routing decision is "the model answers" (which
the heartbeat does as well) or "`.px` answers". `ToolExecutor`'s reset after an abort
is one step with its emit.
Two branches cannot be reached and are left out: an empty prompt in `ModelInvoker`
(the store holds the message by then) and a dropped sender in the router.

### What is checked

| run | instance | shows |
|---|---|---|
| `pipeline_chat` | two messages in one chat, channel of 4, one extra tool round allowed, fair: 383 k states | all below |
| `pipeline_wedge` | two messages, channel of 1 | the loop waits for itself |

Beside the runs, each a violation: `PipelinePrompt.cfg` (the "prior" history holds the
message itself), `PipelineOverlap.cfg` (a turn exceeds its tool rounds),
`PipelineAbort.cfg` (an abort is delivered elsewhere).

- `AnsweredOnce`: one delivery per message, none if `.px` took it, however late or
  often its triggers end.
- `DecisionNotMissed`: the waiter is registered before the write that fires, so a
  decision is not lost however early it comes.
- `HistoryFaithful`: messages in the order of arrival, once, none left out; answers
  once, after their message; nothing asked before it is recorded, although the router
  emits its request before the recorder sees the message. Of the turns that were
  delivered, exactly those delivered an answer with text have one in the store: the
  recorder and the response router judge the same response separately, and an aborted
  loop, a model error or an empty answer must leave none.
- `LoneTurnHasItsRounds`: a turn alone in its chat gets exactly `max_iterations`
  rounds, whatever an earlier turn that failed left in the count.
- `ToolLoopFinite`: turns that overlap reset each other's count, but only twice per
  message, so loops still end.
- `EveryTurnEnds`: in a channel with room for what the turns under way can emit,
  every message is answered or left to `.px`.

Fairness (`FairSpec`): the loop runs when it can (it is one tokio task that is never
cancelled), the router's timer fires, and `.px` executions end. Nobody has to send.
The model call and the tools are assumed to return, as `Invoke` and `RunTools` are
steps of the loop; the code gives them no timeout here.

Bounds: two messages are the least that overlap, and they do so at every point of
each other's tool loop; four places hold what two turns can have under way (a tool result and a
request each). `MaxRounds` 4 lies above `ToolLoopFinite`'s limit of 3 rounds for two messages and `MaxIterations` 1.

### What is proved

In `SpinePipelineProofs`, for every set of messages, chats and triggers, every capacity
above 0 and every limit on the tool rounds:

| theorem | states |
|---|---|
| `PipelineTypes` | `Spec => []TypeOK`, with it the bound on the channel and on every chat's count |
| `TurnsAnsweredOnce` | `Spec => []AnsweredOnce` |
| `DecisionsReach` | `Spec => []DecisionNotMissed` |
| `StoreIsFaithful` | `Spec => []HistoryFaithful` |
| `LoneTurnsHaveTheirRounds` | `Spec => []LoneTurnHasItsRounds` |
| `ToolLoopsEnd` | `Spec => []ToolLoopFinite` |

`TypeOK` is inductive as it stands; the conjuncts that carry it are that an idle loop
owes no emits and no procedures, and that while the router is between its steps the
message it routes is the one in dispatch, with the router at the head of `todo`.

`AnsweredOnce` is not. `TurnInv` says why it holds: a message's turn is one token. It
is in the channel, or in the event in dispatch while the procedure that ends or
continues the turn is still to see it (`Live`), or among what a procedure has yet to
emit, or delivered, or silent, and never in two of these (`OneToken`). `TodoSound`
ties the place in `todo` to the type of the event, `OutSound` and `StartedOnce` keep a
message from entering twice. `DecisionNotMissed` rests on `Undecided` (nothing is
decided about a message before the router's own write) and `Waits`.

`HistoryFaithful` adds the order of arrival. `ArrivalInv`: what was sent after a message
that waits in the channel, or is in dispatch, waits behind it (the channel is first in,
first out, and one loop empties it). `Past(m, k)` says that message `m` has left the
channel and fewer than `k` procedures are still to see it; `Concluded(m, k)` that its
last answer is with the last `k` procedures, or what ends the turn is on its way or
delivered. `PastStep` and `ConcludedStays` show that neither is taken back. A message is
on record exactly when it is past the recorder (`Recording`), an answer only when its turn
is concluded (`Answering`), so neither is recorded twice; who is in dispatch for the
recorder has nobody before him in the channel (`EarlierPast`), so the entries are in order;
requests, responses (`Asked`) and answers on their way (`AnswersFirst`) come after the
entry; and an answer on record has text and is on its way or delivered as such (`Said`).

The tool rounds rest on the same two predicates: a turn resets the count of its chat as it
gets past the tool executor (`Begun`) and as it is concluded there (`Closed`), and each of
these happens once. `OpenTogether` says that two turns of a chat that were open at a time
are both marked as overlapped; so nothing but a lone turn moves its chat's count
(`LoneCounts`), and the count is the turn's rounds (`CountsOwn`). For any other turn,
`ResetsCounted` bounds its rounds by the limit times the resets of the others that have
happened, plus what the count shows now. The resets are counted by two subsets of the
others' finite set, so no induction is needed.

Assumed: `PipelineConstants` (each message has a chat, the numbers are naturals),
`NoneIsNoEvent` and `NoneIsNoDecision` (the mark for "none" is neither). The bound
`MaxRounds` may be any number. Model-checked only: `EveryTurnEnds`, which is liveness.
`TypeOK` is proved and not part of the run.

### What the code disagrees with

`pipeline_wedge` (a finding of `PROJECT.json`): a handler's emit waits for a place in the channel its own loop
drains; with a channel of K places it takes K messages arriving while one is
handled. `PipelinePrompt.cfg`: the invoker reads the history when it
handles the request, after the message was recorded, and then adds the message again.
`PipelineOverlap.cfg`: the count is per chat, so another turn's message or
answer resets it. `PipelineAbort.cfg`: the delivery goes to "system".

## 4. The agenda

### The model

`tasks` is the map in memory, `store` the one in PluresDB. `Add`, `Remove` and
`SetEnabled` change memory under the lock and leave a write in `pending`; `Persist`
performs one such write, whichever comes first, and so ends the call. `Tick` copies
the tasks that are due, `Launch` starts each and `Mark` marks it, in memory only;
`Complete` is the end of an execution: it marks the task as it is by then and leaves
a write of it, or panics without doing so (a long result cut within a character).
`Crash` loses all but the store, `Restart` is `load_persisted`.

Time advances in periods of the loop (ten seconds in the code). A cron expression is the set of minutes it
matches. With `Timely` the loop runs in every period; without, it may be late by any
amount. `launched`, `kept`, `gone` and `since` are history, which no guard
reads. `MaxTime`, `MaxCrashes` and `MaxCalls` bound the model. Two executions of
one task started in one period (the task added again in between) are one element
of `running`.

### What is checked

| run | instance | shows |
|---|---|---|
| `agenda_restart` | a one-time and a cron task, one crash, 3 calls, late loop, fair: 755 k states | nothing is lost or fires too soon |
| `agenda_removed` | an interval task, one crash | a removed task comes back |

Beside the runs: `AgendaCron.cfg` (a cron task, timely loop), a violation: a matching
minute is skipped.

- `NoRefire`: one start of a one-time task per process, intervals and minutes kept
  apart, however executions overlap with the loop and with each other.
- `AddedSurvives`: an added task is there until removed, over crashes and late writes.
- `DueTaskRuns` (fairness: the loop keeps being scheduled): a one-time task is
  started once its time has come, however late the loop is.

Bounds: one crash separates memory from the store once, which is all a second crash
would do again; three calls are an add, a removal or a change, and another add; the
times cover the instant of the one-time task and the minute of the cron task on
either side. `MinuteLen` is 2 instead of 6 periods: the skipped minute takes fewer
rounds to appear, not another cause. Interval tasks differ from cron tasks by less
than one condition and are part of `agenda_removed` only.

### What is proved

In `AgendaSchedulerProofs`, for any tasks, schedules, users, lengths of a minute and
bounds, from `AgendaConstants` and `NoneIsNoTask`: `AgendaTypes` (`TypeOK`, hence not
part of the run), `NeverRefires` (`NoRefire`) and `AddedTasksSurvive`
(`AddedSurvives`).

`NoRefire` speaks of what was started, the code decides by `last` alone. `AgendaInv`
ties the two: every start is in the past (`LaunchedPast`) and no later than its task's
`last`, but for the one start the loop is about to mark (`LaunchedMarked`); a task
waiting in the loop's copy has kept its distance from every earlier start
(`DueApart`); what is stored or on its way there has not run in the future
(`StoredPast`); a process that is down has nothing under way (`NothingWhileDown`).
`AddedSurvives` needs that a task that counts as kept is stored, with no removal on its
way (`KeptStored`). Model-checked only: `DueTaskRuns` (liveness).

### What the code disagrees with

`agenda_removed`: writes to the store happen after the lock is released, so they land
in another order than the changes they carry, and a completion's write undoes a
removal. For the same reason a disabled task may come back enabled, and a one-time
task that has run as one that has not.
`AgendaCron.cfg`: the 60 seconds of "only fire once per minute" count from the end of
the last execution, so a task that runs every minute drifts until it skips one. A
quick execution takes six such drifts of ten seconds; one that lasts a minute skips
the next at once, as in the run.

## 5. Work tasks

### The model

Writing a command key starts an execution of a `.px` procedure (`exec[c]`); it goes
through its actions one by one (`step`), others come in between, and one that fails
ends it (`Fail`). `New`, `NewPr` and `Reclaim` are the procedures of `worktask.px`; the
actions they call are those of `worktask_actions.rs`. Git and the files are external
and modelled by what they refuse: `CanAdd` (a branch or tree that exists), `CanRemove`
(without `--force`), `CanDelete` (`-d`, not before it is merged). A path and a branch go
together: a *site*. `Edit` and `Commit` are the agent in its tree; `Crash` ends the
executions and leaves git, files and records. `author` is history: which task each
change was made for.

### What is checked

`worktask_reclaim`: two tasks on one site, two executions at once, four in all, two
changes, one tick, one crash, the quarantine on the same volume or another.

- `NoWorkLost`: each change ever made is committed, in a tree, in quarantine, on main or
  pushed, where the quarantine is a rename away.
- `CommitsKept`: what is committed is safe on any volume.
- `DoneIsLanded`: a task that is done has all its changes on main (or in quarantine, if
  a reclaim overtook the landing).
- `ClosedHasNoTree`: no tree is left that belongs to a task that is over.

All of it rests on git's guards and on the order of the steps: the mutants (`--force`,
`-D`, `-B`, a prune of everything, a dirty tree left where it is) break it. One site is
the case of interest, as sites do not touch each other but through main; four
executions are create, land, reclaim and create again. Deadlock is not checked: the
bounds on executions and time end every behaviour.

`worktask_lease` ends in a violation (a finding): nobody clears the path or the lease
of a task that is closed, so the next task on the path loses its tree to a reclaim of
the first.

### What is proved

In `WorkTaskProofs`, for any tasks, sites and executions and any bounds, on the same
volume and across volumes, from `WorkTaskConstants` and `NoneIsNoValue`:

| theorem | states |
|---|---|
| `TypesHold` | `Spec => []TypeOK` |
| `NothingIsLost` | `Spec => []NoWorkLost` |
| `DoneMeansLanded` | `Spec => []DoneIsLanded` |
| `ClosedLeavesNoTree` | `Spec => []ClosedHasNoTree` |
| `CommitsAreKept` | `Spec => CommitsKept` |

The hard question is what an execution that was overtaken still knows when it deletes a
branch or closes a task. The answer is that a task's id is new (`GenerateId`;
`Uuid::new_v4` in the code), so it has one site, its *home*, for good: on record, or
about to be (`HomesFixed`). Trees stand at the home of the task they are for
(`TreesHome`), and a change is in the branch or the tree there, or already on main or in
quarantine (`WorkAtHome`). So a tree of the task that is gone stays gone (`NoTreeStays`),
what has landed stays landed (`LandedStays`), and what `Knows` says of an execution at
each of its steps stays true while any other acts (`KnowsStays`). `FilesSteps` lists,
once for all actions, the changes a step can make to trees and branches.

## 6. Shell sessions

### The model

`sessions` is the map behind the lock, `counter` the ids given out, `process` what is
outside, `reader` the two tasks that copy a pipe, `call` the callers of the executor.
Every step that takes the lock is one action; `lock` is only set by `write_stdin`,
which keeps it while the process takes its input (`WriteBegins`, `WriteByte`,
`WriteEnds`). The limit is looked at under one lock (`CheckLimit`), then the process is
started (`Spawn`), and the session put in under another lock (`Insert`); in between the
process runs outside the map and no task copies its pipes. Every function here is
`async`, so whoever awaits it may drop it: `Dropped` ends a call wherever it waits and
gives the lock back if it has it. A caller dropped between `Spawn` and `Insert` leaves
its process running, as `kill_on_drop` is off. (Nothing in the repository's own code
outside its tests drops such a call; an embedder's timeout or abort does.) The waiter's
three outcomes of `try_wait` are `Waiter`, a look that changes nothing, and
`WaiterFails`; a kill whose signal cannot be sent is `KillFails`. `lost` is history: the
processes whose handle went in one of these two ways. `polled` is what the polls of a session have returned,
history for the properties. Byte k of a stream is the number k. A foreground command
touches no session and is left out.

### What is checked

`shell_sessions`: two callers, one place, one process of at most three bytes per
stream, read two at a time into buffers of two; fair.

- `LimitSlack`: the limit may be passed, but by one per concurrent call at most.
- `NoOrphan`: a process that runs is in the map, is told to be running and has its
  handle, or one call holds it and is about to insert it, or its handle was dropped with
  that call or by the error arm of `try_wait`. Those two are what the code does; the
  property says that no order of kills, kills that fail, yields, removals, clean-ups and
  dropped calls adds a third, early calls on an id that is not in the map yet included.
- `OutputKept`: output stays in order, once, and whole while it fits.
- `OneStreamPolledOnce`: polls return the output of a session with one stream once.
- `EndIsFinal`: whoever sees the end first, the exit code does not change.
- `EndNoticed`: an end is noticed, unless a process keeps its writer waiting for ever.

Fairness: callers and waiters are strongly fair. tokio's `RwLock` serves its waiters
in order, so whoever waits for the lock gets it if it is given back again and again,
which weak fairness would not say. Nothing is asked of the processes.
`ShellSafety.cfg` (two sessions, safety only) passes too.

Two configurations beside the run show what the comments say and the code does not do:

- `ShellPoll.cfg`: "New output since last poll.": one offset over two growing buffers; a
  byte of stderr is told twice and one of stdout never (`PolledOnce`).
- `ShellKill.cfg`: "Kill a running session": the kill that would end a session waits for the
  lock of a write its process does not read (`KillReturns`).

### What is proved

In `ShellSessionsProofs`, for any finite set of callers, any limit on the sessions above 0
and any sizes of chunks, pipes and buffers, from `ShellConstants`:

| theorem | states |
|---|---|
| `TypesHold` | `Spec => []TypeOK` |
| `LimitBendsByCallers` | `Spec => []LimitSlack` |
| `NobodyIsOrphaned` | `Spec => []NoOrphan` |
| `BuffersFollowPipes` | `Spec => []OutputKept` |
| `PollsAddUp` | `Spec => []OneStreamPolledOnce` |
| `EndsStand` | `Spec => EndIsFinal` |

The invariant has several parts. `DataInv` speaks of one session at a time, as a relation of
four values (`Sound`): the session, its process, its readers and what was polled of it. A
buffer follows its reader (`Kept`): it is in order, holds nothing of the chunk the reader
has in hand, and is everything before that as long as all fits. With one stream silent
the combined output only grows at its end, so what the polls returned is its first
`read_offset` bytes (`PolledOf`). `CallsKnow` speaks of the calls, and needs of the sessions
no more than that an ended one stays ended. `Fresh` says whose a session is before it is
in the map: its id was started, is not there, was never polled, and no other call inserts
it or takes it out. With it `Held` (`NoOrphan`) survives the insertion; every other step
is `Calm`: it starts no process and takes no handle of a running one without losing it
in one of the two ways. `LimitSlack` counts: a caller between the look
at the limit and its insert is one that may bend it (`Counted`).

Model-checked only: `EndNoticed` (liveness).

## 7. Tasks

### The model

`store` holds the tasks, `call[c]` a method of the manager between its load and its
store, with its copy. `Begin`/`Store` are complete, fail, cancel, satisfy, set_priority
and update_description; `BeginCheck` is check_completion; `LoadParent`,
`CreateSubtask`, `LinkParent` are create_subtask, which stores twice; `ReadEvaluable`,
`MarkLoad`, `MarkStore`, `EvaluationLoad`, `EvaluationStore`, `DispatchTask` are an
autonomous dispatch. Which task the dispatch takes is up to `.px`: any it has read. The
end of a sub-agent is a call of complete or fail. `Crash` forgets the calls.

### What is checked and proved

`task_calls`: two tasks, two calls at once, one condition, one counted attempt. A third
caller can only undo what a second one can. In `TaskLifecycleProofs`, for any
tasks, any finite set of callers and any conditions, from `TaskConstants` and
`NoneIsNoTask`:

| theorem | states |
|---|---|
| `TypeCorrect` | `TypeOK` |
| `ClosedStays` | `ClosedAloneStays`: a task closed by a call no other overlapped stays closed |
| `LinksAlwaysLead` | `LinksLead`: a parent names only tasks that are stored and its own, wherever the process stops |
| `AttemptsNeverInvented` | `AttemptsMade`: attempts may be lost, none is invented |

The invariant is about copies: what is true of the store must be true of every copy in
somebody's hands. `CallsSound` says so of the links, `FinalSound` of closed tasks (every
copy of one is closed as well), and `Counting` adds, to the attempts of the store and
of each copy, the calls that have marked the task and will count later.

With an overlap a closed task does come back, as `TaskLifecyclePending.cfg` shows: a test in
`runtime.rs` says "a Completed task must NOT register as pending work", but a dispatch
that read the task before its completion stores its own mark over it.

## 8. Sync

### The model

One entry of one topic: `held[d]` is what device `d` has, `queue[d]` its offline queue,
`wire[d]` what is on its way to it. `LocalChange` enqueues; `Drain` is `drain_queue` with
what its caller must do, send to all and enqueue again what did not reach everybody;
`Apply` is `apply_remote_change` with the merge, and its result stored; `Refuse` is
`TopicNotSubscribed`; `Restart` loses queue and topics, which are in memory. The network
delays, reorders and repeats, so a queue's order does not show and it is a set. A local
change is stored and enqueued unchecked, and its `updated_at` is whatever the device's
caller says: the model shares no clock between devices and keeps none, any stamp or none
may come next, before that of the value it replaces as well. `deaf`, `known` (what a
device made or applied) and `over` (what it knew before its last own change) are history.

### What is checked and proved

`sync_replica`: three devices, two changes, each without a stamp or with one of two; two
devices would not show an event that reached one peer and not the other.
`NewestEverywhere`: once all is delivered, a device that no change went past holds one as
new as every change made anywhere, but for those its own user replaced there with an
earlier stamp. With a slow clock that does happen, and the device then keeps an older
value than the others for good; the property says that it is that user's change and not a
delivery that does it, and that the others do not lose the newer value.

`SyncTie.cfg` shows a disagreement: with equal stamps both sides of a concurrent change take
the other's value, against conflict.rs, "to produce a single authoritative value"
(`SingleValue`).

`NewestArrives` (`SyncSpec => []NewestEverywhere`, at the end of `TaskCustodyProofs`)
proves it for any number of devices and changes, from `SyncBounds` (the two bounds are
natural numbers). `NewestEverywhere` speaks of quiet states only; `NothingLost` carries
it there: a device has seen each change, or that change is on its way to it or queued by
another. `SeenIsHeld` says that nothing it has seen is newer than what it holds, but for
what it knew before its last own change. The definitions that every module has are called `SyncInit`, `SyncNext`,
`SyncSpec` and so on here, so that one proof module can extend both components.

It says *a* newest change, not the same one: on equal stamps each side takes the
other's. A change without `updated_at` loses to any other,
so `AllStamped` is its premise.

## 9. The model pool

### The model

`pool`, `overrides`, `providers` are memory, `file` the configuration file. A discovery is
`Discover` (the answers, without the lock) and `Replace`. A command finds its models
(`Lookup`), changes one at a time under the lock (`Disable`, `Enable`; `Reset` all at
once) and saves after each: `CopyOverrides`, `ReadConfig`, `Truncate`, `WriteConfig`, with
anything in between, and `SaveFails`. `Prefer` does not save.

The file is text, and the model keeps of it what saving and loading tell apart: the parts
beside the overrides, the overrides, their layout, and whether it parses. Reasons are
written unescaped: one is readable (`"off"`), makes a text that does not parse
(`"quoted"`: a quote, a line break), or one whose block also ends early for the patcher
(`"broken"`: a break before a blank line or a bracket). `Patched` replaces the blocks in a
text that is `Regular`, as the code itself writes it. A user's own layout (`"free"`) may have
other lines right below a block, a comment after its header or an inline list: there
`Mangled` allows any loss of other parts, overrides that stay, and a text that does not
parse. `Start` needs a file that `Loads`; otherwise `StartFails`. A save cut short leaves
nothing or a piece (`TornFile`).

`last` and `spoilt` are history: the last change of each model and whether its user was
told; whether since the process started a save was cut short, overlapped another or met a
text that is not regular. Where two saves write at once the later text stands: a mixture
of both, which the file system allows, is left out; so are quotes in the names of models
and providers, and edits of the file by hand after the first start.

### What is checked and proved

| run | instance | shows |
|---|---|---|
| `pool_commands` | a model at two providers, one user, two commands, a discovery, two crashes, any layout and reason: 3.5 M states | all three properties |

Two commands suffice to replace a reason and to change a model twice, with a crash in
either or between the two providers of one. A second user adds overlapping saves, which
the last two properties except and which the configurations below show to go wrong.
Deadlock is checked. In `ModelPoolProofs`, for any providers, models, callers, discoveries,
reasons and layouts, from `PoolNumbers`, `NoneIsNothing` and `UsersChoice`:

| theorem | states |
|---|---|
| `TypeCorrect` | `TypeOK` |
| `OverridesAlwaysRule` | `OverridesRule`: a discovery answered before a command does not bring back what it disabled |
| `ConfirmedStands` | `CommandsStand`: what a command has said done is so, in this process and in every later one that comes up |
| `FileMended` | `CanComeBack`: when the commands that replace an unreadable reason are confirmed, the file loads again |

The last two hold as long as `spoilt` is empty; that the process may not come up at all is
the first disagreement below. `PoolInv` follows a change from memory (`MemoryAgrees`) to
the copy a save made (`CopyAgrees`), the text it will write (`TextSound`) and the file
(`FileAgrees`); `OneSave` keeps an older copy from being written after a newer one.
`CopyOwed` and `FileOwed` say that an unreadable reason in a copy or in the file is still in
memory or replaced by a command that has yet to save.

### What the code disagrees with

- `ModelPoolReason.cfg`: "Immediately effective + persisted to config." A model disabled for a
  reason with a quote in it is confirmed and leaves a file `from_config` rejects: after a
  restart the change and the providers are gone.
- `ModelPoolOrder.cfg`: "Runtime changes (via /model command) sync back here." Of two saves the one
  with the older copy may be written last.
- `ModelPoolRest.cfg`: "This preserves all other config content." A save that reads while
  another has emptied the file writes it back without the providers.
- `ModelPoolRest.cfg` with `Layouts = {"free"}`: the same, with a single user: content right below a block of overrides
  goes with the block.

## 10. A model call

### The model

`ModelInvoker::complete_with_fallback` around `CopilotModelClient::complete`. The client
is cloned and shared: `session` is the token behind its mutex, `lock` who holds it,
`handle` the default model, which may be turned at any time. A call waits at one of

| `at` | code |
|---|---|
| `token` | `ensure_fresh_token`, before the first post and again after 401 |
| `issue`, `store` | `exchange_copilot_token` at the service, and its reply, with the mutex held |
| `compose` | the request is put together; the default model is read here |
| `post` | `send_with_transient_retry` and the retries after 421, 401 and 5xx; `post` says which |
| `select` | `select_fallback_model`, which may name anything |

The service is external: it answers any post in any way at any time. `Drop` is whoever
waits giving up, at which Rust drops the future and with it the mutex guard. Messages,
tools and streamed deltas are left out; a call that has ended keeps only what it asked.

### What is checked and proved

`model_call`: two calls, two models, two attempts (four in the code), two tokens, two
URLs, a clock of one tick with a margin of one and tokens that last two: a token is
good, then stale. Two calls give every interleaving at the mutex; two attempts are the
least that can repeat a model. 248 k states, fair.

- `SessionMovesOn`: no call replaces a token that is still good, or puts back an older
  one; it is the mutex held over the exchange that sees to it.
- `TokenToItsBase`: a token is posted to the URL it came with, until it was refused.
- `AskedOnce`: no model is asked in two attempts, though the default changes under the
  call, and attempts are bounded, whatever the selector says.
- `CallsEnd`: every call ends. Fairness is weak, of each call's own steps: the HTTP
  client has timeouts for connecting and reading, the selector is taken to answer, and
  tokio's mutex serves its waiters in order. Weak fairness suffices for the mutex
  because it is wanted a bounded number of times.

`ModelCallProofs` proves `TypeCorrect`, `TokensStayPaired`, `ModelsAskedOnce` and
`SessionsMoveOn` for any numbers of calls, models, tokens, attempts and any clock, from
`CallNumbers` and the assumptions that `None` is none of the things it stands beside.
`CallInv` says per call: the holder of the mutex is the one call at an exchange, so
what it found stale is still what it replaces and what it brings is newer
(`ExchangeSound`); its URL came with its token until 401 (`PostSound`); what it has
asked is among what it has tried, before the next model is chosen (`AskedSound`).
`CallsEnd` is liveness and model-checked only.

## 11. Disagreements and other instances

Beside the runs, configurations for what the code's words say and the code does not do.
Each ends in a violation unless it says otherwise.

| configuration | says | what happens |
|---|---|---|
| `TaskCustodyDuplicate` | ADR-0036: "Duplicate identical operations are idempotent" | section 2 |
| `PipelineOverlap`, `PipelineAbort` | tool rounds are limited; an abort ends on its channel | section 3 |
| `AgendaCron` | a task fires in the minutes it names | section 4 |
| `WorkTaskTwice` | worktask.px: "exactly one outcome per task" | a task whose tree is gone ends a reclaim for the tasks after it |
| `WorkTaskVolume` | `move_dir`: "The data is never lost, only relocated" | on another volume, an edit between the copy and the removal is gone |
| `ShellLimit` | "Maximum concurrent background sessions." | two calls pass it side by side |
| `TaskLifecyclePending` | runtime.rs: "a Completed task must NOT register as pending work" | section 7 |
| `PipelinePrompt` | model_invoker.rs: "Prior conversation history from ConversationStore" | section 3 |
| `ShellPoll`, `ShellKill` | "New output since last poll"; "Kill a running session" | section 6 |
| `SyncTie` | conflict.rs: "a single authoritative value" | section 8 |
| `ModelPoolReason`, `ModelPoolOrder`, `ModelPoolRest` | confirmed commands are saved, the rest of the file is preserved | section 9 |
| `ModelCallRefused` | copilot.rs: "401: token may have expired - refresh and retry once" | a token the clock still trusts is posted again |

`TaskCustodyRelay`, `TaskCustodyReturns` and `ShellSafety` pass.

Noticed while modelling, without a configuration: `copilot.rs:571` cuts the body of a
failed response at byte 200, which panics inside a character of several bytes. After 401 a new token goes to the URL
of the old one; a second 401 counts as any other 4xx and makes the invoker fall back to
other models; a post whose reply times out is sent again and may be answered twice by
the service. A preference is not saved until the next change is. The poll loop of a
sub-agent may give up and leave its task in progress. Every inbound message is written
to the registry twice, as a flat value and as a tagged event, so the `.px` procedures
run twice; that their own side effects bear it is theirs to see to. A waiter whose
receiver timed out stays until a decision for its very message comes. Messages accepted
and not yet answered are gone after a restart. A subscriber that lags behind the
broadcast of deliveries loses the oldest. The mark that keeps a scheduled task from
firing again is not stored before it completes, so a crash in between fires it again. A
task removed or disabled since the tick is started all the same.

## 12. Not modelled

- *Threading* (`core/threading`, `threaded_*`, `thread_*`, the topic bridge): built and
  tested, but nothing registers it; registered beside the unthreaded procedures it
  would deliver twice. `thread_actions.rs` holds placeholders.
- *Plugin host, grants, supervisor*: the runtime in `plugins/` is not wired; grants are
  read and written in two awaits, but one plugin is all that is ever spawned.
- *Epic registry, agenda issues, approval gate, lifecycle engine, pairing*: each
  operation is atomic under one lock or an exclusive borrow, or nothing runs it.
- *Dev-lifecycle verbs, praxis constraints, Rector's placement, repository model,
  privacy filters*: functions of their arguments; tests reach them.
- *The `.px` interpreter*: a language. Where a component calls `.px`, its outcome is a
  choice among all.
- *Verbs that call git, shells, GUIs or the network, storage wrappers, logs, renderers,
  bindings, indexers, marketplace, MCP client, the web front end*: I/O.

`PROJECT.json` lists them all, with their sources. The map covers a small part of the
repository's lines, as most of them are of these kinds.

Every safety invariant and action property of the runs is a theorem; the four liveness
properties are not and cannot be here. What is left, in the order it is worth doing: a
composition of `TaskLifecycle` with `SpinePipeline`, in which a dispatch's prompt is an inbound message
and the turn's tool calls are the task's; pairing and topics in `SyncReplica`; the web
platform's plugin loader.
