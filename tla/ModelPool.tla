----------------------------- MODULE ModelPool -----------------------------
(***************************************************************************)
(* The pool of models a process chooses from: model_pool/pool.rs with the  *)
(* user's overrides (exclusion.rs), the configuration file they are kept   *)
(* in (provider.rs) and the /model commands (telegram.rs).                 *)
(*                                                                         *)
(* Memory is behind a read-write lock that every operation takes more than *)
(* once: a discovery reads the providers, asks them without the lock, and  *)
(* writes what they answered; a command looks the model up, changes it at  *)
(* one provider after another, and after each change copies the overrides, *)
(* reads the file, truncates it and writes it.  Everything else may come   *)
(* in between, and the process may die.  The file is text: it is patched   *)
(* line by line, and a process comes up only if the whole of it parses.    *)
(*                                                                         *)
(* Left out: what only selection or display reads (performance feedback,   *)
(* costs, the status of a provider, the words of a reason).                *)
(***************************************************************************)
EXTENDS Naturals

CONSTANTS
    Providers,    \* the enabled providers of the configuration file
    Ids,          \* model ids; several providers may offer the same
    Callers,      \* where commands come from
    Discoveries,  \* discoveries that may be under way at once
    None,
    Reasons,      \* the reasons users disable models for
    Layouts,      \* how the user's own file may be laid out
    MaxCommands,  \* bound of the model
    MaxCrashes    \* bound of the model

ASSUME PoolNumbers == MaxCommands \in Nat /\ MaxCrashes \in Nat

(* DiscoveredModel::key, "provider/id".                                    *)
Key == Providers \X Ids
KeysOf(id) == {k \in Key : k[2] = id}

(* ModelOverride: "unset" is one that only states a preference.  A model   *)
(* is disabled for a reason, which is written between quotes as it was     *)
(* given: a quote or a line break in it ("quoted") makes a text that does  *)
(* not parse, and a break before a blank line or a bracket ("broken") also *)
(* one that is not found again as a block.                                 *)
Unreadable == {"quoted", "broken"}
Off == {"off"} \cup Unreadable
Override == {"absent", "unset", "on"} \cup Off
NoOverrides == [k \in Key |-> "absent"]

(* A model of the pool is not offered, or offered and enabled or not.      *)
Offer == {"absent", "on", "off"}
NoModels == [k \in Key |-> "absent"]

(* The configuration file: the tables of the providers and all else that   *)
(* is there, the overrides, whether they are laid out as the code lays     *)
(* them out ("blocks") or as a user may ("free": a comment or an indented  *)
(* table right below a block, a comment after its header, an inline list), *)
(* and whether the text, but for unreadable reasons, is TOML.              *)
Part == Providers \cup {"else"}
Config == [parts : SUBSET Part, overrides : [Key -> Override],
           layout : {"blocks", "free"}, toml : BOOLEAN]
EmptyFile == [parts |-> {}, overrides |-> NoOverrides, layout |-> "blocks", toml |-> TRUE]
TornFile == [EmptyFile EXCEPT !.toml = FALSE]

(* toml::from_str succeeds.                                                *)
Loads(f) == f.toml /\ \A k \in Key : f.overrides[k] \notin Unreadable

Listed(f) == {k \in Key : f.overrides[k] # "absent"}

(* The lines the patcher takes out of it are the blocks of its overrides.  *)
Regular(f) ==
    \A k \in Listed(f) : f.overrides[k] # "broken" /\ f.layout = "blocks"

VARIABLES
    up,           \* the process runs
    providers,    \* those it knows from the file
    overrides,    \* OverrideStore
    pool,         \* inner.models
    found,        \* what each discovery was answered, or None
    call,         \* the command of each caller, or None
    file,         \* config/models.toml
    last,         \* the last change to each model by command, and whether the
                  \* command has said so
    spoilt,       \* by what the file may have been since the process started
    commands, crashes

memory == <<providers, overrides, pool, found>>
counts == <<commands, crashes>>
vars == <<up, memory, call, file, last, spoilt, counts>>

(* op: a command, to disable being named by its reason; at: the step it is *)
(* about to take; todo: the models it has yet to change, now: the one it   *)
(* is at; copy: of the overrides; text: to write.                          *)
Commands == Off \cup {"enable", "prefer"}
Call == [op : Commands \cup {"reset"}, todo : SUBSET Key, now : SUBSET Key,
         at : {"change", "copy", "read", "truncate", "write"},
         copy : [Key -> Override], text : Config]

(* A save was cut short, overlapped another, met a text not regular.       *)
Spoil == {"cut", "overlap", "text"}

Change == [to : {"on"} \cup Off, by : Callers, told : BOOLEAN]

ASSUME NoneIsNothing == None \notin Call /\ None \notin Change
ASSUME UsersChoice == Reasons \subseteq Off /\ Layouts \subseteq {"blocks", "free"}

TypeOK ==
    /\ up \in BOOLEAN
    /\ providers \in SUBSET Providers
    /\ overrides \in [Key -> Override]
    /\ pool \in [Key -> Offer]
    /\ found \in [Discoveries -> (SUBSET Key) \cup {None}]
    /\ call \in [Callers -> Call \cup {None}]
    /\ file \in Config
    /\ last \in [Key -> Change \cup {None}]
    /\ spoilt \in SUBSET Spoil
    /\ commands \in 0..MaxCommands
    /\ crashes \in 0..MaxCrashes

Init ==
    /\ up = FALSE
    /\ providers = {}
    /\ overrides = NoOverrides
    /\ pool = NoModels
    /\ found = [d \in Discoveries |-> None]
    /\ call = [c \in Callers |-> None]
    /\ file \in [parts : {Part}, overrides : [Key -> {"absent", "off"}],
                layout : Layouts, toml : {TRUE}]
    /\ last = [k \in Key |-> None]
    /\ spoilt = {}
    /\ commands = 0
    /\ crashes = 0

----------------------------------------------------------------------------
(* from_config.  An empty file is a valid one.  What a spoilt file lost is *)
(* lost from here on.                                                      *)
Start ==
    /\ ~up
    /\ Loads(file)
    /\ up' = TRUE
    /\ providers' = Providers \cap file.parts
    /\ overrides' = file.overrides
    /\ pool' = NoModels
    /\ last' = IF spoilt = {} THEN last ELSE [k \in Key |-> None]
    /\ spoilt' = {}
    /\ UNCHANGED <<found, call, file, counts>>

(* from_config returns the error of the parser: there is no pool.          *)
StartFails == ~up /\ ~Loads(file) /\ UNCHANGED vars

(* fs::write was cut short: nothing of the text is there, or a piece.      *)
CutShort == file' \in {file, TornFile} /\ spoilt' = spoilt \cup {"cut"}

(* The process dies.  What no command has said done may be lost.           *)
Crash ==
    /\ up
    /\ crashes < MaxCrashes
    /\ crashes' = crashes + 1
    /\ up' = FALSE
    /\ found' = [d \in Discoveries |-> None]
    /\ call' = [c \in Callers |-> None]
    /\ last' = [k \in Key |-> IF last[k] # None /\ last[k].told THEN last[k] ELSE None]
    /\ IF \E c \in Callers : call[c] # None /\ call[c].at = "write"
       THEN CutShort
       ELSE UNCHANGED <<spoilt, file>>
    /\ UNCHANGED <<providers, overrides, pool, commands>>

----------------------------------------------------------------------------
(* discover_all up to the lock: every provider answers with some models or *)
(* fails, which is to answer with none.  A discovery may be answered long  *)
(* before it ends.                                                         *)
Discover(d) ==
    /\ up
    /\ found[d] = None
    /\ \E answer \in SUBSET (providers \X Ids) : found' = [found EXCEPT ![d] = answer]
    /\ UNCHANGED <<up, providers, overrides, pool, call, file, last, spoilt, counts>>

(* Mutant: a discovered model is enabled.                                  *)
AsDiscovered(ov, k) == "on"

(* OverrideStore::apply.                                                   *)
Applied(ov, k) == IF ov[k] \in Off THEN "off" ELSE "on"

(* discover_all from the lock on: the models that were found replace those *)
(* of the pool, with the overrides of this moment.                         *)
Replace(d) ==
    /\ found[d] # None
    /\ pool' = [k \in Key |-> IF k \in found[d] THEN Applied(overrides, k) ELSE "absent"]
    /\ found' = [found EXCEPT ![d] = None]
    /\ UNCHANGED <<up, providers, overrides, call, file, last, spoilt, counts>>

----------------------------------------------------------------------------
(* The commands.  disable, enable and prefer look the id up in a copy of   *)
(* the pool and go through the providers that offer it; reset changes all  *)
(* at once.                                                                *)
Begin(c, op, keys) ==
    /\ up
    /\ call[c] = None
    /\ commands < MaxCommands
    /\ commands' = commands + 1
    /\ call' = [call EXCEPT ![c] =
         [op |-> op, todo |-> keys, now |-> {}, at |-> "change",
          copy |-> NoOverrides, text |-> EmptyFile]]
    /\ UNCHANGED <<up, memory, file, last, spoilt, crashes>>

(* What a command that found nothing answers changes nothing.              *)
Lookup(c) ==
    \E id \in Ids, op \in Reasons \cup {"enable", "prefer"} :
        LET keys == {k \in KeysOf(id) : pool[k] \in IF op = "enable" THEN {"off"} ELSE {"on", "off"}} IN
        keys # {} /\ Begin(c, op, keys)

BeginReset(c) == Begin(c, "reset", Key)

At(c, step) == call[c] # None /\ call[c].at = step

(* The calling task marks what it changed, for the properties.             *)
Marked(c, keys, to) ==
    [k \in Key |-> IF k \in keys THEN [to |-> to, by |-> c, told |-> FALSE] ELSE last[k]]

(* The override store and the pool change under one lock.                  *)
SetEnabled(c, keys, ov, offer, to) ==
    /\ overrides' = [k \in Key |-> IF k \in keys THEN ov[k] ELSE overrides[k]]
    /\ pool' = [k \in Key |-> IF k \in keys /\ pool[k] # "absent" THEN offer ELSE pool[k]]
    /\ last' = Marked(c, keys, to)
    /\ call' = [call EXCEPT ![c].todo = @ \ keys, ![c].now = keys, ![c].at = "copy"]
    /\ UNCHANGED <<up, providers, found, file, spoilt, counts>>

(* disable_model, with the reason of the command.                          *)
Disable(c) ==
    /\ At(c, "change") /\ call[c].op \in Off
    /\ \E k \in call[c].todo :
         SetEnabled(c, {k}, [j \in Key |-> call[c].op], "off", call[c].op)

(* enable_model: an override, if there is one, now enables, for no reason. *)
Enable(c) ==
    /\ At(c, "change") /\ call[c].op = "enable"
    /\ \E k \in call[c].todo :
         SetEnabled(c, {k}, [j \in Key |-> IF overrides[j] = "absent" THEN "absent" ELSE "on"],
                    "on", "on")

(* reset drops all the overrides and enables all models.                   *)
Reset(c) ==
    /\ At(c, "change") /\ call[c].op = "reset"
    /\ SetEnabled(c, Key, NoOverrides, "on", "on")

(* prefer_model: in memory only, one provider after the other.             *)
Prefer(c) ==
    /\ At(c, "change") /\ call[c].op = "prefer"
    /\ \E k \in call[c].todo :
         /\ overrides' = [overrides EXCEPT ![k] = IF @ = "absent" THEN "unset" ELSE @]
         /\ call' = IF call[c].todo = {k} THEN [call EXCEPT ![c] = None]
                    ELSE [call EXCEPT ![c].todo = @ \ {k}]
    /\ UNCHANGED <<up, providers, pool, found, file, last, spoilt, counts>>

----------------------------------------------------------------------------
(* sync_overrides_to_config copies the overrides under the lock.  A save   *)
(* lasts from here to its last step.                                       *)
Saving(c) == call[c] # None /\ call[c].at \in {"read", "truncate", "write"}

CopyOverrides(c) ==
    /\ At(c, "copy")
    /\ call' = [call EXCEPT ![c].copy = overrides, ![c].at = "read"]
    /\ spoilt' = IF \E b \in Callers : Saving(b) THEN spoilt \cup {"overlap"} ELSE spoilt
    /\ UNCHANGED <<up, memory, file, last, counts>>

(* Mutant: what the file says of a model already is kept.                  *)
Appended(old, copy) ==
    {[old EXCEPT !.overrides = [k \in Key |-> IF @[k] = "absent" THEN copy[k] ELSE @[k]]]}

(* A text that is not regular: a block that is found may end late, with    *)
(* other lines in it, or early, so that a piece of it stays.  One that is  *)
(* not found (missed) stands before the new ones, where it counts for a    *)
(* model the copy does not name or is a second definition.                 *)
Mangled(old, copy) ==
    UNION {[parts : IF missed = Listed(old) THEN {old.parts} ELSE SUBSET old.parts,
            overrides : {[k \in Key |-> IF k \in missed /\ copy[k] = "absent"
                                       THEN old.overrides[k] ELSE copy[k]]},
            layout : {"free"}, toml : BOOLEAN] : missed \in SUBSET Listed(old)}

(* The text save_overrides_to_config makes of the one it read: the blocks  *)
(* go, those of the copy come at the end.                                  *)
Patched(old, copy) ==
    IF Regular(old) THEN {[old EXCEPT !.overrides = copy]} ELSE Mangled(old, copy)

ReadConfig(c) ==
    /\ At(c, "read")
    /\ \E text \in Patched(file, call[c].copy) :
         call' = [call EXCEPT ![c].text = text, ![c].at = "truncate"]
    /\ spoilt' = IF Regular(file) THEN spoilt ELSE spoilt \cup {"text"}
    /\ UNCHANGED <<up, memory, file, last, counts>>

(* fs::write opens the file, which empties it, and writes the text.  Where *)
(* two saves write at once the later text stands.                          *)
Truncate(c) ==
    /\ At(c, "truncate")
    /\ file' = EmptyFile
    /\ call' = [call EXCEPT ![c].at = "write"]
    /\ UNCHANGED <<up, memory, last, spoilt, counts>>

(* The command tells its user when it has been through all the providers.  *)
WriteConfig(c) ==
    /\ At(c, "write")
    /\ file' = call[c].text
    /\ call' = [call EXCEPT ![c] = IF @.todo = {} THEN None ELSE [@ EXCEPT !.at = "change"]]
    /\ last' = [k \in Key |-> IF last[k] # None /\ last[k].by = c /\ k \in call[c].now
                              THEN [last[k] EXCEPT !.told = TRUE] ELSE last[k]]
    /\ UNCHANGED <<up, memory, spoilt, counts>>

(* The file cannot be read, opened or written: the command ends with an    *)
(* error, the change stays in memory, the other providers as they were.    *)
SaveFails(c) ==
    /\ Saving(c)
    /\ call' = [call EXCEPT ![c] = None]
    /\ IF At(c, "write") THEN CutShort ELSE UNCHANGED <<spoilt, file>>
    /\ UNCHANGED <<up, memory, last, counts>>

Next ==
    \/ Start \/ StartFails \/ Crash
    \/ \E d \in Discoveries : Discover(d) \/ Replace(d)
    \/ \E c \in Callers :
         \/ Lookup(c) \/ BeginReset(c)
         \/ Disable(c) \/ Enable(c) \/ Reset(c) \/ Prefer(c)
         \/ CopyOverrides(c) \/ ReadConfig(c) \/ Truncate(c) \/ WriteConfig(c) \/ SaveFails(c)

Spec == Init /\ [][Next]_vars

----------------------------------------------------------------------------
(* A model of the pool is enabled exactly if the overrides do not disable  *)
(* it, although discoveries that began before a command replace the whole  *)
(* pool after it.                                                          *)
OverridesRule ==
    \A k \in Key : pool[k] # "absent" => (pool[k] = "off" <=> overrides[k] \in Off)

(* These overrides say of a model what the last command on it did.         *)
Agrees(o, k) == IF last[k].to = "on" THEN o[k] \notin Off ELSE o[k] = last[k].to

(* In a process that runs, what the last command on a model has said done  *)
(* is so, over other commands, discoveries, failed saves and restarts, as  *)
(* long as no save before a restart was cut short, overlapped another or   *)
(* met a text that is not regular.                                         *)
CommandsStand ==
    up => \A k \in Key : last[k] # None /\ last[k].told => Agrees(overrides, k)

(* A file that an unreadable reason has broken is mended: once no override *)
(* in memory has such a reason and every command has said it is done, the  *)
(* next process comes up, whatever was saved by whom in between (same      *)
(* exceptions).                                                            *)
CanComeBack ==
    /\ up /\ spoilt = {}
    /\ \A c \in Callers : ~At(c, "write")
    /\ \A k \in Key : overrides[k] \notin Unreadable /\ (last[k] # None => last[k].told)
    => Loads(file)

(* "Immediately effective + persisted to config" (disable_model): what a   *)
(* command has said done is in the file, for a process to come up with,    *)
(* unless a save fails half way.  It does not hold: for the reason, and    *)
(* because of two saves the older copy may be written last.                *)
Persisted ==
    (\A c \in Callers : ~Saving(c)) /\ "cut" \notin spoilt =>
        \A k \in Key : last[k] # None /\ last[k].told => Loads(file) /\ Agrees(file.overrides, k)

(* "This preserves all other config content" (save_overrides_to_config):   *)
(* so it is unless a save fails half way.  It does not hold: neither       *)
(* beside another save nor in a free layout.                               *)
AlwaysPreserved == (\A c \in Callers : ~Saving(c)) /\ "cut" \notin spoilt => file.parts = Part
=============================================================================
