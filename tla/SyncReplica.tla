---------------------------- MODULE SyncReplica ----------------------------
(***************************************************************************)
(* Device sync: crates/sync, one entry of one topic on several paired      *)
(* devices.  Each device has a SyncEngine (engine.rs) with its offline     *)
(* queue (queue.rs), its topic subscription (topic.rs) and the default     *)
(* merge, last write wins by updated_at (conflict.rs).                     *)
(*                                                                         *)
(* The engine leaves the transport and the storing of merged values to its *)
(* caller; the caller here does what engine.rs asks of it: it sends what   *)
(* it drains, enqueues again what was not sent to everybody, and stores    *)
(* what apply_remote_change returns.  The network delays, reorders and     *)
(* duplicates, so the order of a queue does not show and it is a set.      *)
(***************************************************************************)
EXTENDS Naturals

CONSTANTS
    Devices,
    MaxWrites,   \* bound of the model: local changes
    MaxTime      \* bound of the model: the stamps

ASSUME SyncBounds == MaxWrites \in Nat /\ MaxTime \in Nat

VARIABLES
    held,        \* the entry on each device, [Devices -> Payload]
    queue,       \* OfflineQueue of each device, [Devices -> SUBSET Payload]
    wire,        \* payloads on their way to a device, [Devices -> SUBSET Payload]
    subscribed,  \* devices that joined the topic
    known,        \* payloads ever made on a device or applied there
    over,        \* of them, those there before the last local change
    deaf         \* devices a change went past: not subscribed when it came, or the
                 \* sender restarted with it still in its queue

syncVars == <<held, queue, wire, subscribed, known, over, deaf>>

Written == UNION {known[d] : d \in Devices}

(* updated_at is 0 where the payload has none.                             *)
Payload == [id : 0..MaxWrites, at : 0..MaxTime]

Unwritten == [id |-> 0, at |-> 0]

SyncInit ==
    /\ held = [d \in Devices |-> Unwritten]
    /\ queue = [d \in Devices |-> {}]
    /\ wire = [d \in Devices |-> {}]
    /\ subscribed = {}
    /\ known = [d \in Devices |-> {Unwritten}]
    /\ over = [d \in Devices |-> {}]
    /\ deaf = {}

----------------------------------------------------------------------------
(* Mutant: an older remote wins as well, as with LastWriteWins.            *)
RemoteWins(local, remote) == remote

(* CrdtMerge::merge: the later updated_at wins, the remote payload wins a  *)
(* tie; a payload without loses to one with.                               *)
Merge(local, remote) == IF local.at > remote.at THEN local ELSE remote

(* Mutant: what is still to be sent to some is not kept.                   *)
SendOnce(failed) == {}

(* What drain returned and could not be sent to everybody is enqueued      *)
(* again.                                                                  *)
Requeued(failed) == failed

(* A change by the user: stored and enqueued, both unchecked.  updated_at  *)
(* is what the device's caller says, from a clock of its own that may be   *)
(* wrong or be put back, or nothing; it may be before that of the value    *)
(* the change replaces.                                                    *)
LocalChange(d) ==
    /\ \E id \in 1..MaxWrites, at \in 0..MaxTime :
         LET p == [id |-> id, at |-> at] IN
         /\ \A q \in Written : q.id < id
         /\ held' = [held EXCEPT ![d] = p]
         /\ queue' = [queue EXCEPT ![d] = @ \cup {p}]
         /\ known' = [known EXCEPT ![d] = @ \cup {p}]
         /\ over' = [over EXCEPT ![d] = known[d]]
    /\ UNCHANGED <<wire, subscribed, deaf>>

(* drain_queue: each event reaches all the peers of the topic, or some of  *)
(* them and is tried again.                                                *)
Drain(d) ==
    /\ queue[d] # {}
    /\ \E failed \in SUBSET queue[d], reached \in SUBSET (Devices \ {d}) :
         /\ wire' = [e \in Devices |->
                      IF e = d THEN wire[e]
                      ELSE wire[e] \cup (queue[d] \ failed) \cup (IF e \in reached THEN failed ELSE {})]
         /\ queue' = [queue EXCEPT ![d] = Requeued(failed)]
    /\ UNCHANGED <<held, subscribed, known, over, deaf>>

(* apply_remote_change, and the caller stores the result; the message may  *)
(* come again.                                                             *)
Apply(d) ==
    /\ d \in subscribed
    /\ \E p \in wire[d], again \in BOOLEAN :
         /\ held' = [held EXCEPT ![d] = Merge(@, p)]
         /\ known' = [known EXCEPT ![d] = @ \cup {p}]
         /\ wire' = IF again THEN wire ELSE [wire EXCEPT ![d] = @ \ {p}]
    /\ UNCHANGED <<queue, subscribed, over, deaf>>

(* TopicNotSubscribed: the change is not applied.                          *)
Refuse(d) ==
    /\ d \notin subscribed
    /\ \E p \in wire[d] : wire' = [wire EXCEPT ![d] = @ \ {p}]
    /\ deaf' = deaf \cup {d}
    /\ UNCHANGED <<held, queue, subscribed, known, over>>

Subscribe(d) ==
    /\ subscribed' = subscribed \cup {d}
    /\ UNCHANGED <<held, queue, wire, known, over, deaf>>

Unsubscribe(d) ==
    /\ subscribed' = subscribed \ {d}
    /\ UNCHANGED <<held, queue, wire, known, over, deaf>>

(* A new engine: the queue is purely in memory, and so are the topics.     *)
Restart(d) ==
    /\ queue' = [queue EXCEPT ![d] = {}]
    /\ subscribed' = subscribed \ {d}
    /\ deaf' = IF queue[d] # {} THEN deaf \cup (Devices \ {d}) ELSE deaf
    /\ UNCHANGED <<held, wire, known, over>>

SyncNext ==
    \E d \in Devices :
       \/ LocalChange(d) \/ Drain(d) \/ Apply(d) \/ Refuse(d)
       \/ Subscribe(d) \/ Unsubscribe(d) \/ Restart(d)

SyncSpec == SyncInit /\ [][SyncNext]_syncVars

----------------------------------------------------------------------------
SyncTypeOK ==
    /\ held \in [Devices -> Payload]
    /\ queue \in [Devices -> SUBSET Payload]
    /\ wire \in [Devices -> SUBSET Payload]
    /\ subscribed \subseteq Devices
    /\ known \in [Devices -> SUBSET Payload]
    /\ over \in [Devices -> SUBSET Payload]
    /\ deaf \subseteq Devices

Quiet == \A d \in Devices : queue[d] = {} /\ wire[d] = {}

(* Once nothing is queued or under way, a device that no change went past  *)
(* holds one as new as every change made anywhere, but for those its own   *)
(* user replaced there with an earlier stamp: whatever the clocks, the     *)
(* order, the repetitions and the failed attempts of the deliveries, none  *)
(* is lost between drain_queue and the enqueueing of what could not be     *)
(* sent, and none is overwritten by an older one that comes from elsewhere *)
(* (engine.rs, conflict.rs).                                               *)
NewestEverywhere ==
    Quiet => \A d \in Devices \ deaf : \A p \in Written \ over[d] : p.at <= held[d].at

(* "When two devices make concurrent changes to the same entry": nobody    *)
(* changed it having seen the change of another.                            *)
Concurrent == \A d \in Devices : over[d] \subseteq {Unwritten}

AllStamped == \A p \in Written : p.at = 0 => p = Unwritten

(* "produce a single authoritative value": then all hold the same.         *)
SingleValue ==
    Quiet /\ deaf = {} /\ Concurrent /\ AllStamped => \A d, e \in Devices : held[d] = held[e]
=============================================================================
