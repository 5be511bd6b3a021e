--------------------------- MODULE ShellSessions ---------------------------
(***************************************************************************)
(* Background sessions of the shell tool,                                  *)
(* crates/radix-core/src/shell_executor.rs.                                *)
(*                                                                         *)
(* One map of sessions stands behind a read-write lock.  Every session has *)
(* two readers that copy the pipes of the process into its buffers and a   *)
(* waiter that looks every 250 ms whether the process has ended.  All of   *)
(* them, and the callers, take the lock for one step, except write_stdin,  *)
(* which keeps it while the process takes the input.  The process is       *)
(* external: it writes to its pipes, reads its input or not, and ends when *)
(* it likes.  Byte k of a stream is the number k.  A foreground execution  *)
(* waits for its own process and touches no session.                       *)
(*                                                                         *)
(* A process is started before its session is put in the map, and a caller *)
(* is a future: it can be dropped wherever it waits.                       *)
(***************************************************************************)
EXTENDS Naturals, Sequences, FiniteSets, Functions, FiniteSetsExt

CONSTANTS
    Callers,     \* concurrent calls of the executor
    MaxSessions, \* MAX_SESSIONS
    MaxOutput,   \* MAX_OUTPUT_BYTES, of one buffer
    ReadSize,    \* bytes a reader takes at once
    PipeSize,    \* bytes the kernel keeps for stdin
    Input,       \* bytes of one call of write_stdin
    MaxBytes,    \* bound of the model: bytes all processes write
    MaxSpawned,  \* bound of the model: sessions ever started
    Free         \* nobody keeps the lock

ASSUME ShellConstants ==
    /\ MaxSessions \in Nat \ {0} /\ MaxOutput \in Nat /\ ReadSize \in Nat \ {0}
    /\ PipeSize \in Nat /\ Input \in Nat /\ MaxBytes \in Nat /\ MaxSpawned \in Nat
    /\ IsFiniteSet(Callers) /\ Free \notin Callers

VARIABLES
    sessions,    \* the map: [set of ids -> Session]
    counter,     \* SESSION_COUNTER
    lock,        \* the caller that keeps the write lock across an await
    process,     \* [ids started -> Process]
    reader,      \* [ids started -> [Streams -> Reader]]
    call,        \* [Callers -> Call]
    polled,      \* [ids started -> what polls returned so far]
    lost         \* ids whose handle was dropped by a caller that was, or by try_wait's error

vars == <<sessions, counter, lock, process, reader, call, polled, lost>>

Ids == 1..MaxSpawned
Streams == {"stdout", "stderr"}
Bytes == 1..MaxBytes

Session == [buffer : [Streams -> Seq(Bytes)], read_offset : Nat, child : BOOLEAN,
            exit_code : {"none", "code"}, running : BOOLEAN]
Process == [alive : BOOLEAN, wrote : [Streams -> 0..MaxBytes], stdin : 0..PipeSize]
Reader == [taken : 0..MaxBytes, holds : 0..ReadSize, done : BOOLEAN]

Idle == [op |-> "idle"]
Op(op, s) == [op |-> op, id |-> s]
Call == {Idle, [op |-> "spawn"]}
          \cup [op : {"insert", "yield", "reap", "kill", "write"}, id : Ids]
          \cup [op : {"writing"}, id : Ids, left : 0..Input]

Live == DOMAIN sessions
Started == 1..counter
Total(s) == Len(sessions[s].buffer["stdout"]) + Len(sessions[s].buffer["stderr"])

(* stdout followed by stderr, each byte with the stream it came from.      *)
Combined(s) ==
    LET tag(st) == [i \in DOMAIN sessions[s].buffer[st] |-> <<st, sessions[s].buffer[st][i]>>]
    IN  tag("stdout") \o tag("stderr")

Init ==
    /\ sessions = <<>> /\ counter = 0 /\ lock = Free
    /\ process = <<>> /\ reader = <<>> /\ polled = <<>> /\ lost = {}
    /\ call = [c \in Callers |-> Idle]

Return(c) == call' = [call EXCEPT ![c] = Idle]
Goto(c, next) == call' = [call EXCEPT ![c] = next]
Forget(s) == sessions' = Restrict(sessions, Live \ {s})

----------------------------------------------------------------------------
(* background_exec, alone or as the first half of yield_exec.              *)

(* Mutant: the limit is not looked at.                                     *)
AlwaysRoom == TRUE

(* Looked at under a read lock that is given back before the insertion.    *)
Room == Cardinality(Live) < MaxSessions

CheckLimit(c) ==
    /\ call[c] = Idle /\ lock = Free /\ Room
    /\ Goto(c, [op |-> "spawn"])
    /\ UNCHANGED <<sessions, counter, lock, process, reader, polled, lost>>

(* The process runs.  Until its session is in the map no task copies its   *)
(* pipes, and only this caller has its handle.                             *)
Spawn(c) ==
    /\ call[c].op = "spawn" /\ counter < MaxSpawned
    /\ counter' = counter + 1
    /\ process' = Append(process, [alive |-> TRUE, wrote |-> [st \in Streams |-> 0], stdin |-> 0])
    /\ reader' = Append(reader, [st \in Streams |-> [taken |-> 0, holds |-> 0, done |-> TRUE]])
    /\ polled' = Append(polled, <<>>)
    /\ Goto(c, Op("insert", counter + 1))
    /\ UNCHANGED <<sessions, lock, lost>>

NewSession == [buffer |-> [st \in Streams |-> <<>>], read_offset |-> 0, child |-> TRUE,
               exit_code |-> "none", running |-> TRUE]

NewReader == [st \in Streams |-> [taken |-> 0, holds |-> 0, done |-> FALSE]]

Insert(c, next) ==
    /\ call[c].op = "insert" /\ lock = Free
    /\ sessions' = [s \in Live \cup {call[c].id} |->
                      IF s = call[c].id THEN NewSession ELSE sessions[s]]
    /\ reader' = [reader EXCEPT ![call[c].id] = NewReader]
    /\ Goto(c, next)
    /\ UNCHANGED <<counter, lock, process, polled, lost>>

Background(c) == Insert(c, Idle)
Yield(c) == Insert(c, Op("yield", call[c].id))

(* spawn failed: nothing was started.                                      *)
SpawnFails(c) ==
    /\ call[c].op = "spawn"
    /\ Return(c)
    /\ UNCHANGED <<sessions, counter, lock, process, reader, polled, lost>>

(* yield_exec looks every 50 ms; it copies the buffers of a session that   *)
(* has ended, gives the lock back, and takes the session out.              *)
YieldEnded(c) ==
    /\ call[c].op = "yield" /\ lock = Free
    /\ LET s == call[c].id IN
         /\ s \in Live /\ ~sessions[s].running
         /\ Goto(c, Op("reap", s))
    /\ UNCHANGED <<sessions, counter, lock, process, reader, polled, lost>>

YieldReap(c) ==
    /\ call[c].op = "reap" /\ lock = Free
    /\ Forget(call[c].id)
    /\ Return(c)
    /\ UNCHANGED <<counter, lock, process, reader, polled, lost>>

(* Out of time, or the session is gone: the caller gets the id.            *)
YieldGivesId(c) ==
    /\ call[c].op = "yield" /\ lock = Free
    /\ call[c].id \in Live => sessions[call[c].id].running
    /\ Return(c)
    /\ UNCHANGED <<sessions, counter, lock, process, reader, polled, lost>>

----------------------------------------------------------------------------
(* The tasks of a session.                                                 *)

ReaderTakes(s, st) ==
    LET r == reader[s][st] IN
    /\ ~r.done /\ r.holds = 0
    /\ \E n \in 1..ReadSize :
         /\ r.taken + n <= process[s].wrote[st]
         /\ reader' = [reader EXCEPT ![s][st].holds = n, ![s][st].taken = @ + n]
    /\ UNCHANGED <<sessions, counter, lock, process, call, polled, lost>>

(* Mutant: the room is looked at before the chunk is.                      *)
FitsBefore(len, n) == len < MaxOutput

(* Mutant: a buffer is never quite full.                                   *)
FitsBelow(len, n) == len + n < MaxOutput

Fits(len, n) == len + n <= MaxOutput

(* A chunk that does not fit is dropped whole; the reader goes on.         *)
ReaderStores(s, st) ==
    LET r == reader[s][st] IN
    /\ r.holds > 0 /\ lock = Free
    /\ IF s \in Live
       THEN /\ reader' = [reader EXCEPT ![s][st].holds = 0]
            /\ sessions' = IF Fits(Len(sessions[s].buffer[st]), r.holds)
                           THEN [sessions EXCEPT ![s].buffer[st] =
                                   @ \o [i \in 1..r.holds |-> r.taken - r.holds + i]]
                           ELSE sessions
       ELSE /\ reader' = [reader EXCEPT ![s][st].holds = 0, ![s][st].done = TRUE]
            /\ UNCHANGED sessions
    /\ UNCHANGED <<counter, lock, process, call, polled, lost>>

(* try_wait has a status.  The task ends without a word when the session   *)
(* or its child is gone.                                                   *)
Waiter(s) ==
    /\ lock = Free /\ s \in Live /\ sessions[s].child /\ ~process[s].alive
    /\ sessions' = [sessions EXCEPT ![s].exit_code = "code", ![s].running = FALSE,
                                    ![s].child = FALSE]
    /\ UNCHANGED <<counter, lock, process, reader, call, polled, lost>>

(* try_wait fails: the task gives the handle away and calls the session    *)
(* ended, whatever the process does.                                       *)
WaiterFails(s) ==
    /\ lock = Free /\ s \in Live /\ sessions[s].child
    /\ sessions' = [sessions EXCEPT ![s].running = FALSE, ![s].child = FALSE]
    /\ lost' = lost \cup {s}
    /\ UNCHANGED <<counter, lock, process, reader, call, polled>>

----------------------------------------------------------------------------
(* Calls on a session.                                                     *)

Ask(c, s) ==
    /\ call[c] = Idle
    /\ \E op \in {"kill", "write"} : Goto(c, Op(op, s))
    /\ UNCHANGED <<sessions, counter, lock, process, reader, polled, lost>>

(* The session is not there, or has ended when it should take input.       *)
NotFound(c) ==
    /\ call[c].op \in {"kill", "write"} /\ lock = Free
    /\ call[c].id \in Live => call[c].op = "write" /\ ~sessions[call[c].id].running
    /\ Return(c)
    /\ UNCHANGED <<sessions, counter, lock, process, reader, polled, lost>>

(* Mutant: the cursor moves by what stdout holds.                          *)
StdoutOnly(s) == Len(sessions[s].buffer["stdout"])

Cursor(s) == Len(Combined(s))

(* A poll that waits is one that comes later; one whose deadline passes    *)
(* with nothing to tell changes nothing.                                   *)
Poll(s) ==
    /\ lock = Free /\ s \in Live
    /\ Total(s) > sessions[s].read_offset \/ ~sessions[s].running
    /\ polled' = [polled EXCEPT ![s] =
                    @ \o SubSeq(Combined(s), sessions[s].read_offset + 1, Total(s))]
    /\ sessions' = [sessions EXCEPT ![s].read_offset = Cursor(s)]
    /\ UNCHANGED <<counter, lock, process, reader, call, lost>>

(* Mutant: the child is left for the waiter.                               *)
MarkOnly(s) == [s EXCEPT !.running = FALSE]

Killed(s) == [s EXCEPT !.running = FALSE, !.child = FALSE]

(* SIGKILL, and the wait for it, under the lock: a killed process ends.    *)
Kill(c) ==
    /\ call[c].op = "kill" /\ lock = Free
    /\ LET s == call[c].id IN
         /\ s \in Live
         /\ process' = IF sessions[s].child THEN [process EXCEPT ![s].alive = FALSE]
                       ELSE process
         /\ sessions' = [sessions EXCEPT ![s] = Killed(@)]
    /\ Return(c)
    /\ UNCHANGED <<counter, lock, reader, polled, lost>>

(* The signal cannot be sent: the call returns, the session stays.         *)
KillFails(c) ==
    /\ call[c].op = "kill" /\ lock = Free
    /\ call[c].id \in Live /\ sessions[call[c].id].child
    /\ Return(c)
    /\ UNCHANGED <<sessions, counter, lock, process, reader, polled, lost>>

WriteBegins(c) ==
    /\ call[c].op = "write" /\ lock = Free
    /\ call[c].id \in Live /\ sessions[call[c].id].running
    /\ lock' = c
    /\ Goto(c, [op |-> "writing", id |-> call[c].id, left |-> Input])
    /\ UNCHANGED <<sessions, counter, process, reader, polled, lost>>

WriteByte(c) ==
    /\ call[c].op = "writing" /\ call[c].left > 0
    /\ LET s == call[c].id IN
         /\ process[s].alive /\ process[s].stdin < PipeSize
         /\ process' = [process EXCEPT ![s].stdin = @ + 1]
    /\ call' = [call EXCEPT ![c].left = @ - 1]
    /\ UNCHANGED <<sessions, counter, lock, reader, polled, lost>>

(* Mutant: a broken pipe is waited on.                                     *)
AllWritten(c) == call[c].left = 0

WriteOver(c) == call[c].left = 0 \/ ~process[call[c].id].alive

(* All is written, or the pipe is broken.                                  *)
WriteEnds(c) ==
    /\ call[c].op = "writing" /\ WriteOver(c)
    /\ lock' = Free
    /\ Return(c)
    /\ UNCHANGED <<sessions, counter, process, reader, polled, lost>>

(* Mutant: whatever it is doing.                                           *)
Whatever(s) == s \in Live

Removable(s) == s \in Live /\ ~sessions[s].running

Remove(s) ==
    /\ lock = Free /\ Removable(s)
    /\ Forget(s)
    /\ UNCHANGED <<counter, lock, process, reader, call, polled, lost>>

(* Those of the ended sessions that were created an hour ago.              *)
CleanupOld ==
    /\ lock = Free
    /\ \E old \in SUBSET {s \in Live : ~sessions[s].running} :
         sessions' = Restrict(sessions, Live \ old)
    /\ UNCHANGED <<counter, lock, process, reader, call, polled, lost>>

----------------------------------------------------------------------------
(* The caller is dropped where it waits for the lock or for the process.   *)
(* Between the look at the limit and the wait for the insertion there is   *)
(* no such place.  The lock is given back; a process that runs and is not  *)
(* in the map runs on (kill_on_drop is off).                               *)
Dropped(c) ==
    /\ call[c].op \notin {"idle", "spawn"}
    /\ lock' = IF lock = c THEN Free ELSE lock
    /\ lost' = IF call[c].op = "insert" THEN lost \cup {call[c].id} ELSE lost
    /\ Return(c)
    /\ UNCHANGED <<sessions, counter, process, reader, polled>>

----------------------------------------------------------------------------
(* The process.                                                            *)

Written ==
    MapThenSumSet(LAMBDA s : process[s].wrote["stdout"] + process[s].wrote["stderr"], Started)

(* The bound of the model: on each stream, and on all of them together.    *)
MayWrite(s, st) == process[s].wrote[st] < MaxBytes /\ Written < MaxBytes

Writes(s, st) ==
    /\ process[s].alive /\ MayWrite(s, st)
    /\ process' = [process EXCEPT ![s].wrote[st] = @ + 1]
    /\ UNCHANGED <<sessions, counter, lock, reader, call, polled, lost>>

Reads(s) ==
    /\ process[s].alive /\ process[s].stdin > 0
    /\ process' = [process EXCEPT ![s].stdin = @ - 1]
    /\ UNCHANGED <<sessions, counter, lock, reader, call, polled, lost>>

Exits(s) ==
    /\ process[s].alive
    /\ process' = [process EXCEPT ![s].alive = FALSE]
    /\ UNCHANGED <<sessions, counter, lock, reader, call, polled, lost>>

----------------------------------------------------------------------------
TaskStep(s) ==
    \/ Waiter(s)
    \/ \E st \in Streams : ReaderTakes(s, st) \/ ReaderStores(s, st)

CallerStep(c) ==
    \/ Spawn(c) \/ SpawnFails(c) \/ Background(c) \/ Yield(c)
    \/ YieldEnded(c) \/ YieldReap(c) \/ YieldGivesId(c)
    \/ NotFound(c) \/ Kill(c)
    \/ WriteBegins(c) \/ WriteByte(c) \/ WriteEnds(c)

Environment ==
    \/ \E c \in Callers :
         CheckLimit(c) \/ KillFails(c) \/ Dropped(c) \/ \E s \in Started : Ask(c, s)
    \/ \E s \in Started :
         \/ WaiterFails(s) \/ Poll(s) \/ Remove(s) \/ Reads(s) \/ Exits(s)
         \/ \E st \in Streams : Writes(s, st)
    \/ CleanupOld

Next ==
    \/ \E s \in Started : TaskStep(s)
    \/ \E c \in Callers : CallerStep(c)
    \/ Environment

Spec == Init /\ [][Next]_vars

(* The lock is first come, first served, so a task or a call that waits    *)
(* for it gets it if it is given back again and again.  Nothing is asked   *)
(* of the process.                                                         *)
Fairness ==
    /\ \A c \in Callers : SF_vars(CallerStep(c))
    /\ \A s \in Ids : SF_vars(s \in Started /\ Waiter(s))

FairSpec == Spec /\ Fairness

----------------------------------------------------------------------------
TypeOK ==
    /\ counter \in 0..MaxSpawned
    /\ Live \subseteq Started
    /\ \A s \in Live :
         /\ sessions[s] \in Session
         /\ \A st \in Streams : Len(sessions[s].buffer[st]) <= MaxOutput
    /\ lock \in Callers \cup {Free}
    /\ DOMAIN process = Started /\ \A s \in Started : process[s] \in Process
    /\ DOMAIN reader = Started
    /\ \A s \in Started, st \in Streams : reader[s][st] \in Reader
    /\ call \in [Callers -> Call]
    /\ DOMAIN polled = Started
    /\ lost \subseteq Started

(* The limit is looked at under one lock and the session put in under      *)
(* another, so calls side by side may pass it, but each by one at most:    *)
(* a call that is about to put one in counts as well.                      *)
LimitSlack ==
    LET spawning == {c \in Callers : call[c].op \in {"spawn", "insert"}} IN
    Cardinality(Live) + Cardinality(spawning) <= MaxSessions + Cardinality(Callers) - 1

(* A process of background_exec that still runs is in the map, is told to  *)
(* be running and has its handle, or a call that will insert it has, or it *)
(* is one of those whose handle was dropped with its caller before it was  *)
(* inserted, or by the waiter when try_wait failed.  No order of polls,    *)
(* yields, kills that fail, removals, clean-ups and dropped calls loses    *)
(* another one, which nobody could stop any more.                          *)
NoOrphan ==
    \A s \in Started : process[s].alive =>
        \/ s \in Live /\ sessions[s].running /\ sessions[s].child
        \/ \E c \in Callers : call[c] = Op("insert", s)
        \/ s \in lost

(* What a process writes stays in order, nothing is stored twice, and as   *)
(* long as a stream fits its buffer nothing the readers are done with is   *)
(* missing.  (Past that, chunks are dropped, and smaller ones behind them  *)
(* may still be kept.)                                                     *)
OutputKept ==
    \A s \in Live, st \in Streams :
        LET stored == sessions[s].buffer[st] IN
        /\ \A i, j \in DOMAIN stored : i < j => stored[i] < stored[j]
        /\ process[s].wrote[st] <= MaxOutput =>
             stored = [k \in 1..(reader[s][st].taken - reader[s][st].holds) |-> k]

(* The polls of a session that wrote to one stream only return it whole,   *)
(* each byte once, however they fall between the readers' steps.           *)
OneStreamPolledOnce ==
    \A s \in Live : \A st \in Streams :
        (\A other \in Streams \ {st} : process[s].wrote[other] = 0) =>
            polled[s] = SubSeq(Combined(s), 1, sessions[s].read_offset)

(* A session that has ended has ended: whoever saw it end first, the       *)
(* waiter, a kill, or both at once, its exit code is the one last told.    *)
EndIsFinal ==
    [][\A s \in Live \cap DOMAIN sessions' :
         ~sessions[s].running =>
            ~sessions'[s].running /\ sessions'[s].exit_code = sessions[s].exit_code]_vars

(* A process that has ended is noticed, the one whose writer keeps the     *)
(* lock included, unless one that runs keeps its writer waiting for ever.  *)
EndNoticed ==
    []<>(lock = Free \/ ~process[call[lock].id].alive) =>
    \A s \in Ids :
        (s \in Started /\ ~process[s].alive) ~> (s \notin Live \/ ~sessions[s].running)

----------------------------------------------------------------------------
(* "Maximum concurrent background sessions."                               *)
SessionLimit == Cardinality(Live) <= MaxSessions

(* "(already read)": no poll returns what an earlier one returned.         *)
PolledOnce ==
    \A s \in Started : \A i, j \in DOMAIN polled[s] : i # j => polled[s][i] # polled[s][j]

(* "Kill a running session": a kill that was asked for is carried out.     *)
KillReturns == \A c \in Callers : (call[c].op = "kill") ~> (call[c].op # "kill")
=============================================================================
