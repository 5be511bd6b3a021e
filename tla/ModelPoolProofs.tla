-------------------------- MODULE ModelPoolProofs --------------------------
(***************************************************************************)
(* Proofs about ModelPool, for any sets of providers, models, callers and  *)
(* discoveries.                                                            *)
(*                                                                         *)
(* What a command has said done survives a restart because it is in the    *)
(* file, and a save does not take it out again because the copy it writes  *)
(* was made later.  So the invariant follows the last change of a model    *)
(* from the overrides in memory to the copy a save made of them, to the    *)
(* text it will write, to the file; and what of these would not parse to a *)
(* reason that is still in memory or a command that has not yet said it is *)
(* done.                                                                   *)
(***************************************************************************)
EXTENDS ModelPool, TLAPS

(* Only a process that runs has calls, discoveries, and changes not told.  *)
OnlyWhileUp ==
    ~up => /\ \A c \in Callers : call[c] = None
           /\ \A d \in Discoveries : found[d] = None
           /\ \A k \in Key : last[k] # None => last[k].told

(* What a command changed last is so in memory, told or not.               *)
MemoryAgrees == up => \A k \in Key : last[k] # None => Agrees(overrides, k)

OneSave == spoilt = {} => \A b, c \in Callers : Saving(b) /\ Saving(c) => b = c

(* A copy holds all that was told, and what its own command just changed.  *)
CopyAgrees ==
    spoilt = {} => \A c \in Callers, k \in Key :
        /\ Saving(c)
        /\ last[k] # None
        /\ last[k].told \/ (last[k].by = c /\ k \in call[c].now)
        => Agrees(call[c].copy, k)

Texted(c) == At(c, "truncate") \/ At(c, "write")

TextSound ==
    spoilt = {} => \A c \in Callers : Texted(c) =>
        call[c].text.overrides = call[c].copy /\ call[c].text.toml

NobodyWrites == \A c \in Callers : ~At(c, "write")

FileAgrees ==
    spoilt = {} /\ NobodyWrites =>
        \A k \in Key : last[k] # None /\ last[k].told => Agrees(file.overrides, k)

(* An unreadable reason in a copy or in the file is still in memory, or a  *)
(* command has replaced it and will save.                                  *)
Excused(k) == overrides[k] \in Unreadable \/ (last[k] # None /\ ~last[k].told)
Owed(o) == \A k \in Key : o[k] \in Unreadable => Excused(k)

CopyOwed == spoilt = {} => \A c \in Callers : Saving(c) => Owed(call[c].copy)
FileOwed == up /\ spoilt = {} /\ NobodyWrites => file.toml /\ Owed(file.overrides)

PoolInv ==
    /\ TypeOK /\ OnlyWhileUp /\ OverridesRule /\ MemoryAgrees
    /\ OneSave /\ CopyAgrees /\ TextSound /\ FileAgrees /\ CopyOwed /\ FileOwed

LEMMA Literals ==
    /\ NoOverrides \in [Key -> Override]
    /\ NoModels \in [Key -> Offer]
    /\ EmptyFile \in Config /\ TornFile \in Config
    /\ \A k \in Key : NoModels[k] = "absent" /\ NoOverrides[k] = "absent"
<1>1. NoOverrides \in [Key -> Override] /\ NoModels \in [Key -> Offer]
  BY DEF NoOverrides, NoModels, Override, Offer, Off
<1>2. EmptyFile \in Config
  BY <1>1 DEF EmptyFile, Config
<1>3. TornFile \in Config
  BY <1>2 DEF TornFile, Config
<1> QED BY <1>1, <1>2, <1>3 DEF NoOverrides, NoModels

LEMMA InitKeeps == Init => PoolInv
<1> SUFFICES ASSUME Init PROVE PoolInv
  OBVIOUS
<1>1. TypeOK
  <2>1. file \in Config
    BY UsersChoice DEF Init, Config, Override, Off
  <2>2. commands \in 0..MaxCommands /\ crashes \in 0..MaxCrashes
    BY PoolNumbers DEF Init
  <2> QED BY <2>1, <2>2, Literals DEF Init, TypeOK
<1>2. OverridesRule
  BY Literals DEF Init, OverridesRule
<1>3. /\ OnlyWhileUp /\ MemoryAgrees /\ OneSave /\ CopyAgrees /\ TextSound
      /\ FileAgrees /\ CopyOwed /\ FileOwed
  BY DEF Init, OnlyWhileUp, MemoryAgrees, OneSave, CopyAgrees, TextSound, FileAgrees, CopyOwed, FileOwed,
         Saving, Texted, At
<1> QED BY <1>1, <1>2, <1>3 DEF PoolInv

LEMMA StartKeeps == ASSUME PoolInv, Start PROVE PoolInv'
<1>1. TypeOK'
  BY Literals DEF PoolInv, TypeOK, counts, memory, Start, Config
<1>2. \A c \in Callers : call'[c] = None
  BY DEF PoolInv, OnlyWhileUp, Start
<1>3. NobodyWrites
  BY <1>2 DEF PoolInv, OnlyWhileUp, Start, At, NobodyWrites
<1>4. OnlyWhileUp' /\ OneSave' /\ CopyAgrees' /\ TextSound' /\ CopyOwed'
  BY <1>2 DEF Start, OnlyWhileUp, OneSave, CopyAgrees, TextSound, CopyOwed, Saving, Texted, At
<1>5. OverridesRule'
  BY Literals DEF Start, OverridesRule
<1>6. \A k \in Key : last'[k] # None => spoilt = {} /\ last'[k] = last[k] /\ last[k].told
  BY DEF PoolInv, OnlyWhileUp, Start
<1>7. \A k \in Key : last'[k] # None => Agrees(file.overrides, k)
  BY <1>3, <1>6 DEF PoolInv, FileAgrees
<1>8. FileAgrees' /\ MemoryAgrees'
  BY <1>6, <1>7 DEF FileAgrees, MemoryAgrees, Agrees, Start
<1>9. FileOwed'
  BY DEF Start, Loads, FileOwed, Owed
<1> QED BY <1>1, <1>4, <1>5, <1>8, <1>9 DEF PoolInv

LEMMA CrashKeeps == ASSUME PoolInv, Crash PROVE PoolInv'
<1>1. TypeOK'
  <2>1. crashes' \in 0..MaxCrashes
    BY PoolNumbers DEF PoolInv, TypeOK, Crash
  <2>2. last' \in [Key -> Change \cup {None}]
    BY DEF PoolInv, TypeOK, Crash
  <2>3. spoilt' \in SUBSET Spoil /\ file' \in Config
    BY Literals DEF PoolInv, TypeOK, Crash, CutShort, Spoil
  <2> QED BY <2>1, <2>2, <2>3 DEF PoolInv, TypeOK, Crash
<1>2. \A c \in Callers : call'[c] = None
  BY DEF Crash
<1>3. \A k \in Key : last'[k] # None => last'[k] = last[k] /\ last[k].told
  BY DEF Crash
<1>4. OnlyWhileUp'
  BY <1>2, <1>3 DEF OnlyWhileUp, Crash
<1>5. OneSave' /\ CopyAgrees' /\ TextSound'
  BY <1>2 DEF OneSave, CopyAgrees, TextSound, Saving, Texted, At
<1>6. spoilt' = {} => spoilt = {} /\ NobodyWrites /\ file' = file
  BY DEF Crash, CutShort, At, NobodyWrites
<1>7. FileAgrees'
  BY <1>3, <1>6 DEF PoolInv, FileAgrees, Agrees
<1>8. CopyOwed' /\ FileOwed'
  BY <1>2 DEF CopyOwed, Saving, FileOwed, Crash
<1>9. OverridesRule' /\ MemoryAgrees'
  BY DEF PoolInv, OverridesRule, MemoryAgrees, Crash
<1> QED BY <1>1, <1>4, <1>5, <1>7, <1>8, <1>9 DEF PoolInv

LEMMA DiscoverKeeps ==
    ASSUME PoolInv, NEW d \in Discoveries, Discover(d)
    PROVE  PoolInv'
<1>1. TypeOK'
  <2>1. providers \X Ids \subseteq Key
    BY DEF PoolInv, TypeOK, Key
  <2> QED BY <2>1 DEF PoolInv, TypeOK, counts, memory, Discover
<1>2. /\ OnlyWhileUp' /\ OverridesRule' /\ MemoryAgrees' /\ OneSave'
      /\ CopyAgrees' /\ TextSound' /\ FileAgrees' /\ CopyOwed' /\ FileOwed'
  BY DEF PoolInv, Discover, OnlyWhileUp, OverridesRule, MemoryAgrees, OneSave, CopyAgrees,
         TextSound, FileAgrees, CopyOwed, FileOwed, Owed, Excused, NobodyWrites, Saving, Texted, At, Agrees
<1> QED BY <1>1, <1>2 DEF PoolInv

LEMMA ReplaceKeeps ==
    ASSUME PoolInv, NEW d \in Discoveries, Replace(d)
    PROVE  PoolInv'
<1>1. up
  BY DEF PoolInv, OnlyWhileUp, Replace
<1>2. TypeOK' /\ OverridesRule'
  BY DEF PoolInv, TypeOK, counts, memory, OverridesRule, Replace, Applied, Offer
<1>3. /\ OnlyWhileUp' /\ MemoryAgrees' /\ OneSave'
      /\ CopyAgrees' /\ TextSound' /\ FileAgrees' /\ CopyOwed' /\ FileOwed'
  BY <1>1 DEF PoolInv, Replace, OnlyWhileUp, MemoryAgrees, OneSave, CopyAgrees,
         TextSound, FileAgrees, CopyOwed, FileOwed, Owed, Excused, NobodyWrites, Saving, Texted, At, Agrees
<1> QED BY <1>2, <1>3 DEF PoolInv

(* A step of a call that neither begins, nor carries on, nor ends a save.  *)
LEMMA OutsideSave ==
    ASSUME PoolInv, NEW c \in Callers, ~Saving(c), ~Saving(c)',
           \A b \in Callers \ {c} : call'[b] = call[b],
           UNCHANGED <<up, file, spoilt>>,
           \A k \in Key : last'[k] # None /\ last'[k].told => last'[k] = last[k],
           \A k \in Key : last'[k] # None => last'[k] = last[k] \/ last'[k].by = c,
           \A k \in Key : Excused(k) => Excused(k)'
    PROVE  OneSave' /\ CopyAgrees' /\ TextSound' /\ FileAgrees' /\ CopyOwed' /\ FileOwed'
<1>1. \A b \in Callers : Saving(b)' => b # c /\ Saving(b) /\ call'[b] = call[b]
  BY DEF Saving
<1>2. \A b \in Callers : /\ At(b, "write") <=> At(b, "write")'
                         /\ Texted(b)' => Saving(b)' /\ Texted(b)
  BY DEF Saving, At, Texted
<1>3. OneSave' /\ TextSound'
  BY <1>1, <1>2 DEF PoolInv, OneSave, TextSound
<1>4. CopyAgrees'
  BY <1>1 DEF PoolInv, CopyAgrees, Agrees
<1>5. NobodyWrites' => NobodyWrites
  BY <1>2 DEF NobodyWrites
<1>6. FileAgrees'
  BY <1>5 DEF PoolInv, FileAgrees, Agrees
<1>7. CopyOwed' /\ FileOwed'
  BY <1>1, <1>5 DEF PoolInv, CopyOwed, FileOwed, Owed
<1> QED BY <1>3, <1>4, <1>6, <1>7

LEMMA BeginKeeps ==
    ASSUME PoolInv, NEW c \in Callers, NEW op \in Commands \cup {"reset"},
           NEW keys \in SUBSET Key, Begin(c, op, keys)
    PROVE  PoolInv'
<1> DEFINE new == [op |-> op, todo |-> keys, now |-> {}, at |-> "change",
                   copy |-> NoOverrides, text |-> EmptyFile]
<1>1. new \in Call /\ new.at = "change"
  BY Literals DEF Call
<1>2. call' = [call EXCEPT ![c] = new]
  BY DEF Begin
<1> HIDE DEF new
<1>3. TypeOK'
  <2>1. call' \in [Callers -> Call \cup {None}]
    BY <1>1, <1>2 DEF PoolInv, TypeOK
  <2>2. commands' \in 0..MaxCommands
    BY PoolNumbers DEF PoolInv, TypeOK, Begin
  <2> QED BY <2>1, <2>2 DEF PoolInv, TypeOK, counts, memory, Begin
<1>4. OneSave' /\ CopyAgrees' /\ TextSound' /\ FileAgrees' /\ CopyOwed' /\ FileOwed'
  <2>1. ~Saving(c) /\ ~Saving(c)' /\ \A b \in Callers \ {c} : call'[b] = call[b]
    BY <1>1, <1>2 DEF PoolInv, TypeOK, Begin, Saving
  <2> QED BY <2>1, OutsideSave DEF Begin, memory, Excused
<1>5. OnlyWhileUp' /\ OverridesRule' /\ MemoryAgrees'
  BY DEF PoolInv, Begin, memory, OnlyWhileUp, OverridesRule, MemoryAgrees, Agrees
<1> QED BY <1>3, <1>4, <1>5 DEF PoolInv

(* disable, enable and reset are one change of memory, differing in what   *)
(* they write.                                                             *)
LEMMA SetEnabledKeeps ==
    ASSUME PoolInv, NEW c \in Callers, At(c, "change"),
           NEW keys \in SUBSET Key, NEW ov \in [Key -> Override], NEW to \in {"on"} \cup Off, NEW offer \in {"on", "off"},
           offer = "off" <=> to \in Off,
           \A k \in keys : IF to = "on" THEN ov[k] \notin Off ELSE ov[k] = to,
           SetEnabled(c, keys, ov, offer, to)
    PROVE  PoolInv'
<1>1. up /\ call[c] \in Call
  BY DEF PoolInv, OnlyWhileUp, TypeOK, At
<1> DEFINE new == [call[c] EXCEPT !.todo = @ \ keys, !.now = keys, !.at = "copy"]
<1>2. new \in Call /\ new.at = "copy"
  BY <1>1 DEF Call
<1>3. call' = [call EXCEPT ![c] = new]
  BY DEF SetEnabled
<1> HIDE DEF new
<1>4. TypeOK'
  BY ZenonT(40), <1>2, <1>3 DEF PoolInv, TypeOK, counts, memory, SetEnabled, Marked, Change, Offer
<1>5. OneSave' /\ CopyAgrees' /\ TextSound' /\ FileAgrees' /\ CopyOwed' /\ FileOwed'
  <2>1. ~Saving(c) /\ ~Saving(c)' /\ \A b \in Callers \ {c} : call'[b] = call[b]
    BY <1>2, <1>3 DEF PoolInv, TypeOK, Saving, At
  <2>2. /\ \A k \in Key : last'[k] # None /\ last'[k].told => last'[k] = last[k]
        /\ \A k \in Key : last'[k] # None => last'[k] = last[k] \/ last'[k].by = c
    BY DEF SetEnabled, Marked
  <2>3. ASSUME NEW k \in Key, Excused(k) PROVE Excused(k)'
    <3> DEFINE mark == [to |-> to, by |-> c, told |-> FALSE]
    <3>1. mark \in Change /\ ~mark.told
      BY DEF Change
    <3> HIDE DEF mark
    <3>2. CASE k \in keys
      <4>1. last'[k] = mark
        BY <3>2 DEF SetEnabled, Marked, mark
      <4> QED BY <3>1, <4>1, NoneIsNothing DEF Excused
    <3>3. CASE k \notin keys
      <4>1. last'[k] = last[k] /\ overrides'[k] = overrides[k]
        BY <3>3 DEF SetEnabled, Marked
      <4> QED BY <2>3, <4>1 DEF Excused
    <3> QED BY <3>2, <3>3
  <2> QED BY <2>1, <2>2, <2>3, OutsideSave DEF SetEnabled
<1>6. OnlyWhileUp'
  BY <1>1 DEF OnlyWhileUp, SetEnabled
<1>7. OverridesRule'
  BY DEF PoolInv, TypeOK, OverridesRule, SetEnabled, Off, Unreadable
<1>8. MemoryAgrees'
  BY <1>1 DEF PoolInv, TypeOK, MemoryAgrees, Agrees, SetEnabled, Marked
<1> QED BY <1>4, <1>5, <1>6, <1>7, <1>8 DEF PoolInv

LEMMA DisableKeeps ==
    ASSUME PoolInv, NEW c \in Callers, Disable(c)
    PROVE  PoolInv'
<1> DEFINE reason == call[c].op
           ov == [j \in Key |-> reason]
<1>1. PICK k \in call[c].todo : SetEnabled(c, {k}, ov, "off", reason)
  BY DEF Disable
<1>2. {k} \in SUBSET Key
  BY DEF PoolInv, TypeOK, Disable, At, Call
<1>3. reason \in Off /\ reason # "on"
  BY DEF Disable, Off, Unreadable
<1>4. ov \in [Key -> Override] /\ \A j \in {k} : ov[j] = reason
  BY <1>2, <1>3 DEF Override
<1> HIDE DEF ov, reason
<1> QED BY <1>1, <1>2, <1>3, <1>4, SetEnabledKeeps DEF Disable

LEMMA EnableKeeps ==
    ASSUME PoolInv, NEW c \in Callers, Enable(c)
    PROVE  PoolInv'
<1> DEFINE ov == [j \in Key |-> IF overrides[j] = "absent" THEN "absent" ELSE "on"]
<1>1. PICK k \in call[c].todo : SetEnabled(c, {k}, ov, "on", "on")
  BY DEF Enable
<1>2. {k} \in SUBSET Key
  BY DEF PoolInv, TypeOK, Enable, At, Call
<1>3. ov \in [Key -> Override] /\ \A j \in {k} : ov[j] \notin Off
  BY <1>2 DEF Override, Off, Unreadable
<1> HIDE DEF ov
<1>4. "on" \notin Off
  BY DEF Off, Unreadable
<1> QED BY <1>1, <1>2, <1>3, <1>4, SetEnabledKeeps DEF Enable

LEMMA ResetKeeps ==
    ASSUME PoolInv, NEW c \in Callers, Reset(c)
    PROVE  PoolInv'
<1>1. At(c, "change") /\ SetEnabled(c, Key, NoOverrides, "on", "on")
  BY DEF Reset
<1>2. "on" \notin Off /\ \A k \in Key : NoOverrides[k] \notin Off
  BY Literals DEF Off, Unreadable
<1> QED BY <1>1, <1>2, Literals, SetEnabledKeeps

LEMMA PreferKeeps ==
    ASSUME PoolInv, NEW c \in Callers, Prefer(c)
    PROVE  PoolInv'
<1>1. PICK k \in call[c].todo :
        /\ overrides' = [overrides EXCEPT ![k] = IF @ = "absent" THEN "unset" ELSE @]
        /\ call' = IF call[c].todo = {k} THEN [call EXCEPT ![c] = None]
                    ELSE [call EXCEPT ![c].todo = @ \ {k}]
  BY DEF Prefer
<1>2. up /\ call[c] \in Call /\ call[c].at = "change" /\ k \in Key
  BY DEF PoolInv, OnlyWhileUp, TypeOK, Prefer, At, Call
<1> DEFINE new == [call[c] EXCEPT !.todo = @ \ {k}]
<1>3. new \in Call /\ new.at = "change"
  BY <1>2 DEF Call
<1>4. call' = [call EXCEPT ![c] = IF call[c].todo = {k} THEN None ELSE new]
  BY <1>1
<1> HIDE DEF new
<1>5. TypeOK'
  <2>1. overrides' \in [Key -> Override]
    BY <1>1 DEF PoolInv, TypeOK, Override
  <2>2. call' \in [Callers -> Call \cup {None}]
    BY <1>3, <1>4 DEF PoolInv, TypeOK
  <2> QED BY <2>1, <2>2 DEF PoolInv, TypeOK, counts, Prefer
<1>7. \A j \in Key : \/ overrides'[j] = overrides[j]
                     \/ overrides[j] = "absent" /\ overrides'[j] = "unset"
  BY <1>1, <1>2 DEF PoolInv, TypeOK
<1>9. \A j \in Key : /\ overrides'[j] \in Off <=> overrides[j] \in Off
                     /\ overrides[j] \in Off => overrides'[j] = overrides[j]
  BY <1>7 DEF Off, Unreadable
<1>6. OneSave' /\ CopyAgrees' /\ TextSound' /\ FileAgrees' /\ CopyOwed' /\ FileOwed'
  <2>1. ~Saving(c) /\ ~Saving(c)' /\ \A b \in Callers \ {c} : call'[b] = call[b]
    BY <1>2, <1>3, <1>4 DEF PoolInv, TypeOK, Saving
  <2>2. \A j \in Key : Excused(j) => Excused(j)'
    BY <1>9 DEF Excused, Prefer, Off
  <2> QED BY <2>1, <2>2, OutsideSave DEF Prefer
<1>10. MemoryAgrees'
  <2> SUFFICES ASSUME NEW j \in Key, last[j] # None PROVE Agrees(overrides', j)
    BY DEF MemoryAgrees, Agrees, Prefer
  <2>1. last[j].to \in {"on"} \cup Off /\ Agrees(overrides, j)
    BY <1>2 DEF PoolInv, TypeOK, MemoryAgrees, Change
  <2> QED BY <1>9, <2>1 DEF Agrees
<1>8. OnlyWhileUp' /\ OverridesRule'
  BY <1>2, <1>9 DEF PoolInv, Prefer, OnlyWhileUp, OverridesRule
<1> QED BY <1>5, <1>6, <1>8, <1>10 DEF PoolInv

LEMMA CopyKeeps ==
    ASSUME PoolInv, NEW c \in Callers, CopyOverrides(c)
    PROVE  PoolInv'
<1> DEFINE new == [call[c] EXCEPT !.copy = overrides, !.at = "read"]
<1>1. up /\ call[c] \in Call /\ call[c].at = "copy"
  BY DEF PoolInv, OnlyWhileUp, TypeOK, CopyOverrides, At
<1>2. new \in Call /\ new.at = "read" /\ new.copy = overrides
  BY <1>1 DEF PoolInv, TypeOK, Call
<1>3. call' = [call EXCEPT ![c] = new]
  BY DEF CopyOverrides
<1> HIDE DEF new
<1>4. TypeOK'
  <2>1. call' \in [Callers -> Call \cup {None}]
    BY <1>2, <1>3 DEF PoolInv, TypeOK
  <2>2. spoilt' \in SUBSET Spoil
    BY DEF PoolInv, TypeOK, CopyOverrides, Spoil
  <2> QED BY <2>1, <2>2 DEF PoolInv, TypeOK, counts, memory, CopyOverrides
<1>5. call'[c] = new /\ \A b \in Callers \ {c} : call'[b] = call[b]
  BY <1>3 DEF PoolInv, TypeOK
<1>6. spoilt' = {} => spoilt = {} /\ \A b \in Callers : ~Saving(b)
  BY DEF CopyOverrides
<1>7. OneSave'
  BY <1>5, <1>6 DEF OneSave, Saving
<1>8. CopyAgrees'
  <2> SUFFICES ASSUME spoilt' = {}, NEW b \in Callers, NEW k \in Key, Saving(b)', last[k] # None
               PROVE  Agrees(call'[b].copy, k)
    BY DEF CopyAgrees, Agrees, CopyOverrides
  <2>1. b = c
    BY <1>5, <1>6 DEF Saving
  <2> QED BY <1>1, <1>2, <1>5, <2>1 DEF PoolInv, MemoryAgrees, Agrees
<1>9. \A b \in Callers : /\ At(b, "write") <=> At(b, "write")'
                         /\ Texted(b)' => b # c /\ Texted(b)
  BY <1>1, <1>2, <1>5 DEF At, Texted
<1>10. TextSound' /\ FileAgrees' /\ FileOwed'
  BY <1>5, <1>6, <1>9 DEF PoolInv, TextSound, FileAgrees, FileOwed, Owed, Excused, NobodyWrites, Agrees,
                          CopyOverrides, memory
<1>12. CopyOwed'
  <2>1. \A b \in Callers : spoilt' = {} /\ Saving(b)' => call'[b].copy = overrides
    BY <1>2, <1>5, <1>6 DEF Saving
  <2> QED BY <2>1 DEF CopyOwed, Owed, Excused, CopyOverrides, memory
<1>11. OnlyWhileUp' /\ OverridesRule' /\ MemoryAgrees'
  BY <1>1 DEF PoolInv, CopyOverrides, memory, OnlyWhileUp, OverridesRule, MemoryAgrees, Agrees
<1> QED BY <1>4, <1>7, <1>8, <1>10, <1>11, <1>12 DEF PoolInv

(* What a save writes is a file, and of a regular text all but the         *)
(* overrides stays.                                                        *)
LEMMA PatchedShape ==
    ASSUME NEW old \in Config, NEW copy \in [Key -> Override], NEW text \in Patched(old, copy)
    PROVE  /\ text \in Config
           /\ Regular(old) => text.overrides = copy /\ text.toml = old.toml
<1>1. CASE Regular(old)
  BY <1>1 DEF Patched, Config
<1>2. CASE ~Regular(old)
  <2>1. text \in Mangled(old, copy)
    BY <1>2 DEF Patched
  <2>2. PICK missed \in SUBSET Listed(old) :
          text \in [parts : IF missed = Listed(old) THEN {old.parts} ELSE SUBSET old.parts,
                   overrides : {[k \in Key |-> IF k \in missed /\ copy[k] = "absent"
                                              THEN old.overrides[k] ELSE copy[k]]},
                   layout : {"free"}, toml : BOOLEAN]
    BY <2>1 DEF Mangled
  <2>3. /\ old.parts \in SUBSET Part
        /\ [k \in Key |-> IF k \in missed /\ copy[k] = "absent"
                         THEN old.overrides[k] ELSE copy[k]] \in [Key -> Override]
    BY DEF Config
  <2>4. text.parts \in SUBSET Part /\ text.overrides \in [Key -> Override]
    BY <2>2, <2>3
  <2> QED BY <1>2, <2>2, <2>4 DEF Config
<1> QED BY <1>1, <1>2

LEMMA ReadKeeps ==
    ASSUME PoolInv, NEW c \in Callers, ReadConfig(c)
    PROVE  PoolInv'
<1>14. PICK text \in Patched(file, call[c].copy) :
         call' = [call EXCEPT ![c].text = text, ![c].at = "truncate"]
  BY DEF ReadConfig
<1> DEFINE new == [call[c] EXCEPT !.text = text, !.at = "truncate"]
<1>1. up /\ call[c] \in Call /\ call[c].at = "read" /\ Saving(c)
  BY DEF PoolInv, OnlyWhileUp, TypeOK, ReadConfig, At, Saving
<1>2. /\ text \in Config
      /\ Regular(file) => text.overrides = call[c].copy /\ text.toml = file.toml
  <2>1. file \in Config /\ call[c].copy \in [Key -> Override]
    BY <1>1 DEF PoolInv, TypeOK, Call
  <2> QED BY <1>14, <2>1, PatchedShape
<1>3. call' = [call EXCEPT ![c] = new]
  BY <1>14
<1>0. /\ UNCHANGED <<up, providers, overrides, pool, found, file, last, commands, crashes>>
      /\ spoilt' \in SUBSET Spoil
      /\ spoilt' = {} => spoilt = {} /\ Regular(file)
  BY DEF ReadConfig, memory, counts, PoolInv, TypeOK, Spoil
<1>4. /\ new \in Call /\ new.at = "truncate" /\ new.text = text
      /\ new.copy = call[c].copy /\ new.now = call[c].now
  BY <1>1, <1>2 DEF Call
<1> HIDE DEF new
<1>5. TypeOK'
  BY <1>0, <1>3, <1>4 DEF PoolInv, TypeOK
<1>6. call'[c] = new /\ \A b \in Callers \ {c} : call'[b] = call[b]
  BY <1>3 DEF PoolInv, TypeOK
<1>7. \A b \in Callers : /\ Saving(b)' => Saving(b) /\ call'[b].copy = call[b].copy
                                         /\ call'[b].now = call[b].now
                         /\ At(b, "write") <=> At(b, "write")'
                         /\ Texted(b)' => b = c \/ Texted(b)
  BY <1>1, <1>4, <1>6 DEF Saving, At, Texted
<1>8. OneSave' /\ CopyAgrees' /\ FileAgrees' /\ CopyOwed' /\ FileOwed'
  <2>1. OneSave' /\ CopyAgrees'
    BY <1>0, <1>7 DEF PoolInv, OneSave, CopyAgrees, Agrees
  <2>2. NobodyWrites' => NobodyWrites
    BY <1>7 DEF NobodyWrites
  <2>3. FileAgrees'
    BY <1>0, <2>2 DEF PoolInv, FileAgrees, Agrees
  <2>4. CopyOwed' /\ FileOwed'
    BY <1>0, <1>7, <2>2 DEF PoolInv, CopyOwed, FileOwed, Owed, Excused
  <2> QED BY <2>1, <2>3, <2>4
<1>9. spoilt = {} => NobodyWrites
  <2> SUFFICES ASSUME spoilt = {}, NEW b \in Callers, At(b, "write") PROVE FALSE
    BY DEF NobodyWrites
  <2>1. b = c
    BY <1>1 DEF PoolInv, OneSave, Saving, At
  <2> QED BY <1>1, <2>1 DEF At
<1>10. TextSound'
  <2>1. spoilt' = {} => text.overrides = call[c].copy /\ text.toml
    BY <1>0, <1>1, <1>2, <1>9 DEF PoolInv, FileOwed
  <2>2. \A b \in Callers \ {c} : Texted(b)' => Texted(b)
    BY <1>7
  <2> QED BY <1>0, <1>4, <1>6, <2>1, <2>2 DEF PoolInv, TextSound
<1>11. OnlyWhileUp' /\ OverridesRule' /\ MemoryAgrees'
  BY <1>0, <1>1 DEF PoolInv, OnlyWhileUp, OverridesRule, MemoryAgrees, Agrees
<1> QED BY <1>5, <1>8, <1>10, <1>11 DEF PoolInv

LEMMA TruncateKeeps ==
    ASSUME PoolInv, NEW c \in Callers, Truncate(c)
    PROVE  PoolInv'
<1> DEFINE new == [call[c] EXCEPT !.at = "write"]
<1>1. up /\ call[c] \in Call /\ call[c] # None /\ call[c].at = "truncate"
  BY DEF PoolInv, OnlyWhileUp, TypeOK, Truncate, At
<1>2. /\ new \in Call /\ new.at = "write" /\ new.text = call[c].text
      /\ new.copy = call[c].copy /\ new.now = call[c].now
  BY <1>1 DEF Call
<1>3. call' = [call EXCEPT ![c] = new]
  BY DEF Truncate
<1> HIDE DEF new
<1>4. TypeOK'
  BY <1>2, <1>3, Literals DEF PoolInv, TypeOK, counts, memory, Truncate
<1>5. call'[c] = new /\ \A b \in Callers \ {c} : call'[b] = call[b]
  BY <1>3 DEF PoolInv, TypeOK
<1>6. \A b \in Callers : /\ Saving(b)' => Saving(b) /\ call'[b].copy = call[b].copy
                                         /\ call'[b].now = call[b].now
                         /\ Texted(b)' => Texted(b) /\ call'[b].text = call[b].text
                                         /\ call'[b].copy = call[b].copy
  BY <1>1, <1>2, <1>5 DEF Saving, At, Texted
<1>7. OneSave' /\ CopyAgrees' /\ TextSound' /\ CopyOwed'
  BY <1>6 DEF PoolInv, OneSave, CopyAgrees, TextSound, CopyOwed, Owed, Excused, Agrees, Truncate, memory
<1>8. At(c, "write")'
  BY <1>2, <1>5, NoneIsNothing DEF At
<1>9. FileAgrees' /\ FileOwed'
  BY <1>8 DEF FileAgrees, FileOwed, NobodyWrites
<1>10. OnlyWhileUp' /\ OverridesRule' /\ MemoryAgrees'
  BY <1>1 DEF PoolInv, Truncate, memory, OnlyWhileUp, OverridesRule, MemoryAgrees, Agrees
<1> QED BY <1>4, <1>7, <1>9, <1>10 DEF PoolInv

(* The step that tells: what is told is in the text, and the text is the   *)
(* file.                                                                   *)
LEMMA WriteKeeps ==
    ASSUME PoolInv, NEW c \in Callers, WriteConfig(c)
    PROVE  PoolInv'
<1> DEFINE new == [call[c] EXCEPT !.at = "change"]
<1>1. up /\ call[c] \in Call /\ call[c] # None /\ call[c].at = "write" /\ Saving(c) /\ Texted(c)
  BY DEF PoolInv, OnlyWhileUp, TypeOK, WriteConfig, At, Saving, Texted
<1>2. new \in Call /\ new.at = "change"
  BY <1>1 DEF Call
<1>3. call' = [call EXCEPT ![c] = IF call[c].todo = {} THEN None ELSE new]
  BY DEF WriteConfig
<1> HIDE DEF new
<1>4. ~Saving(c)' /\ \A b \in Callers \ {c} : call'[b] = call[b]
  BY <1>2, <1>3 DEF PoolInv, TypeOK, Saving
<1>5. file' = call[c].text /\ call[c].text \in Config
  BY <1>1 DEF WriteConfig, Call
<1>6. \A k \in Key : last[k] # None => last[k] \in Change
  BY DEF PoolInv, TypeOK
<1>7. \A k \in Key : last'[k] # None =>
        /\ last[k] # None /\ last'[k].to = last[k].to /\ last'[k].by = last[k].by
        /\ last'[k].told => last[k].told \/ (last[k].by = c /\ k \in call[c].now)
  BY <1>6 DEF WriteConfig, Change
<1>8. TypeOK'
  <2>1. last' \in [Key -> Change \cup {None}]
    BY DEF PoolInv, TypeOK, WriteConfig, Change
  <2>2. call' \in [Callers -> Call \cup {None}]
    BY <1>2, <1>3 DEF PoolInv, TypeOK
  <2> QED BY <1>5, <2>1, <2>2 DEF PoolInv, TypeOK, counts, memory, WriteConfig
<1>9. \A b \in Callers : /\ Saving(b)' => b # c /\ Saving(b) /\ call'[b] = call[b]
                         /\ Texted(b)' => Saving(b)' /\ Texted(b)
  BY <1>4 DEF Saving, At, Texted
<1>10. OneSave' /\ TextSound'
  BY <1>9 DEF PoolInv, OneSave, TextSound, WriteConfig, memory
<1>11. CopyAgrees' /\ CopyOwed'
  <2> SUFFICES ASSUME spoilt = {}, NEW b \in Callers, Saving(b)' PROVE FALSE
    BY DEF CopyAgrees, CopyOwed, WriteConfig
  <2> QED BY <1>1, <1>9 DEF PoolInv, OneSave
<1>12. FileAgrees'
  <2> SUFFICES ASSUME spoilt = {}, NEW k \in Key, last'[k] # None, last'[k].told
               PROVE  Agrees(file.overrides, k)'
    BY DEF FileAgrees, WriteConfig
  <2>1. Agrees(call[c].copy, k)
    BY <1>1, <1>7 DEF PoolInv, CopyAgrees
  <2> QED BY <1>1, <1>5, <1>7, <2>1 DEF PoolInv, TextSound, Agrees
<1>13. FileOwed'
  <2> SUFFICES ASSUME spoilt = {} PROVE file'.toml /\ Owed(file.overrides)'
    BY DEF FileOwed, WriteConfig
  <2>1. file'.toml /\ file'.overrides = call[c].copy
    BY <1>1, <1>5 DEF PoolInv, TextSound
  <2>2. ASSUME NEW k \in Key, call[c].copy[k] \in Unreadable PROVE Excused(k)'
    <3>1. Excused(k)
      BY <1>1, <2>2 DEF PoolInv, CopyOwed, Owed
    <3>2. CASE overrides[k] \in Unreadable
      BY <3>2 DEF Excused, WriteConfig, memory
    <3>3. CASE last[k] # None /\ ~last[k].told /\ ~(last[k].by = c /\ k \in call[c].now)
      BY <3>3 DEF Excused, WriteConfig
    <3>4. CASE last[k] # None /\ last[k].by = c /\ k \in call[c].now
      <4>1. Agrees(call[c].copy, k) /\ Agrees(overrides, k)
        BY <1>1, <3>4 DEF PoolInv, CopyAgrees, MemoryAgrees
      <4>2. overrides[k] \in Unreadable
        BY <2>2, <4>1 DEF Agrees, Off
      <4> QED BY <4>2 DEF Excused, WriteConfig, memory
    <3> QED BY <3>1, <3>2, <3>3, <3>4 DEF Excused
  <2> QED BY <2>1, <2>2 DEF Owed
<1>14. OnlyWhileUp' /\ OverridesRule' /\ MemoryAgrees'
  BY <1>1, <1>7 DEF PoolInv, WriteConfig, memory, OnlyWhileUp, OverridesRule, MemoryAgrees, Agrees
<1> QED BY <1>8, <1>10, <1>11, <1>12, <1>13, <1>14 DEF PoolInv

LEMMA SaveFailsKeeps ==
    ASSUME PoolInv, NEW c \in Callers, SaveFails(c)
    PROVE  PoolInv'
<1>1. up
  BY DEF PoolInv, OnlyWhileUp, SaveFails, Saving
<1>2. call'[c] = None /\ \A b \in Callers \ {c} : call'[b] = call[b]
  BY DEF PoolInv, TypeOK, SaveFails
<1>3. spoilt' = {} => spoilt = {} /\ ~At(c, "write") /\ file' = file
  BY DEF SaveFails, CutShort
<1>4. TypeOK'
  <2>1. file' \in Config /\ spoilt' \in SUBSET Spoil
    BY Literals DEF PoolInv, TypeOK, SaveFails, CutShort, Spoil
  <2> QED BY <2>1 DEF PoolInv, TypeOK, counts, memory, SaveFails
<1>5. \A b \in Callers : /\ Saving(b)' => Saving(b) /\ call'[b] = call[b]
                         /\ Texted(b)' => Texted(b) /\ call'[b] = call[b]
                         /\ spoilt' = {} => (At(b, "write") <=> At(b, "write")')
  BY <1>2, <1>3 DEF Saving, Texted, At
<1>6. OneSave' /\ CopyAgrees' /\ TextSound' /\ FileAgrees' /\ CopyOwed' /\ FileOwed'
  <2>1. UNCHANGED <<up, overrides, last>>
    BY DEF SaveFails, memory
  <2>2. OneSave' /\ CopyAgrees' /\ TextSound'
    BY <1>3, <1>5, <2>1 DEF PoolInv, OneSave, CopyAgrees, TextSound, Agrees
  <2>3. spoilt' = {} /\ NobodyWrites' => NobodyWrites
    BY <1>5 DEF NobodyWrites
  <2>4. FileAgrees'
    BY <1>3, <2>1, <2>3 DEF PoolInv, FileAgrees, Agrees
  <2>5. CopyOwed' /\ FileOwed'
    BY <1>3, <1>5, <2>1, <2>3 DEF PoolInv, CopyOwed, FileOwed, Owed, Excused
  <2> QED BY <2>2, <2>4, <2>5
<1>7. OnlyWhileUp' /\ OverridesRule' /\ MemoryAgrees'
  BY <1>1 DEF PoolInv, SaveFails, memory, OnlyWhileUp, OverridesRule, MemoryAgrees, Agrees
<1> QED BY <1>4, <1>6, <1>7 DEF PoolInv

LEMMA Unmoved == ASSUME PoolInv, UNCHANGED vars PROVE PoolInv'
  BY DEF vars, memory, counts, PoolInv, TypeOK, OnlyWhileUp, OverridesRule, MemoryAgrees, OneSave,
         CopyAgrees, TextSound, FileAgrees, CopyOwed, FileOwed, Owed, Excused, NobodyWrites,
         Saving, Texted, At, Agrees

LEMMA StepKeeps == PoolInv /\ [Next]_vars => PoolInv'
<1> SUFFICES ASSUME PoolInv, [Next]_vars PROVE PoolInv'
  OBVIOUS
<1>1. CASE Start
  BY <1>1, StartKeeps
<1>9. CASE StartFails
  BY <1>9, Unmoved DEF StartFails
<1>2. CASE Crash
  BY <1>2, CrashKeeps
<1>3. CASE \E d \in Discoveries : Discover(d) \/ Replace(d)
  BY <1>3, DiscoverKeeps, ReplaceKeeps
<1>4. ASSUME NEW c \in Callers, Lookup(c) PROVE PoolInv'
  <2>1. PICK id \in Ids, op \in Reasons \cup {"enable", "prefer"} :
          LET keys == {k \in KeysOf(id) : pool[k] \in IF op = "enable" THEN {"off"} ELSE {"on", "off"}}
          IN  keys # {} /\ Begin(c, op, keys)
    BY <1>4 DEF Lookup
  <2> DEFINE keys == {k \in KeysOf(id) : pool[k] \in IF op = "enable" THEN {"off"} ELSE {"on", "off"}}
  <2>2. keys \in SUBSET Key /\ Begin(c, op, keys)
    BY <2>1 DEF KeysOf
  <2>3. op \in Commands
    BY UsersChoice DEF Commands
  <2> HIDE DEF keys
  <2> QED BY <2>2, <2>3, BeginKeeps
<1>5. ASSUME NEW c \in Callers, BeginReset(c) PROVE PoolInv'
  BY <1>5, BeginKeeps DEF BeginReset
<1>6. ASSUME NEW c \in Callers, Disable(c) \/ Enable(c) \/ Reset(c) \/ Prefer(c) PROVE PoolInv'
  BY <1>6, DisableKeeps, EnableKeeps, ResetKeeps, PreferKeeps
<1>7. ASSUME NEW c \in Callers,
             CopyOverrides(c) \/ ReadConfig(c) \/ Truncate(c) \/ WriteConfig(c) \/ SaveFails(c)
      PROVE  PoolInv'
  BY <1>7, CopyKeeps, ReadKeeps, TruncateKeeps, WriteKeeps, SaveFailsKeeps
<1>8. CASE UNCHANGED vars
  BY <1>8, Unmoved
<1> QED BY <1>1, <1>2, <1>3, <1>4, <1>5, <1>6, <1>7, <1>8, <1>9 DEF Next

LEMMA Invariance == Spec => []PoolInv
<1>1. Init => PoolInv
  BY InitKeeps
<1>2. PoolInv /\ [Next]_vars => PoolInv'
  BY StepKeeps
<1> QED BY <1>1, <1>2, PTL DEF Spec

(* Every part of the state keeps its shape, whatever fails or dies.        *)
THEOREM TypeCorrect == Spec => []TypeOK
<1>1. PoolInv => TypeOK
  BY DEF PoolInv
<1> QED BY <1>1, Invariance, PTL

(* Discoveries never bring back what the user has disabled (discover_all   *)
(* applies the overrides under the lock it replaces the pool with).        *)
THEOREM OverridesAlwaysRule == Spec => []OverridesRule
<1>1. PoolInv => OverridesRule
  BY DEF PoolInv
<1> QED BY <1>1, Invariance, PTL

(* What a command has confirmed is so in this process, and in the next one *)
(* that comes up, while saves do not overlap, are not cut short and find   *)
(* the file laid out as the code lays it out.                              *)
THEOREM ConfirmedStands == Spec => []CommandsStand
<1>1. PoolInv => CommandsStand
  BY DEF PoolInv, MemoryAgrees, CommandsStand
<1> QED BY <1>1, Invariance, PTL

(* A file broken by a reason the parser does not read is mended by the     *)
(* commands that replace it, under the same condition: no save of another  *)
(* command brings the reason back.                                         *)
THEOREM FileMended == Spec => []CanComeBack
<1>1. PoolInv => CanComeBack
  BY DEF PoolInv, FileOwed, Owed, Excused, NobodyWrites, CanComeBack, Loads
<1> QED BY <1>1, Invariance, PTL
=============================================================================
