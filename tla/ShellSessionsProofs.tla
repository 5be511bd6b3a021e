------------------------ MODULE ShellSessionsProofs ------------------------
(***************************************************************************)
(* Proofs about ShellSessions, for any number of callers and sessions and  *)
(* any size of chunks and buffers.                                         *)
(*                                                                         *)
(* What is true of a session with its process, its readers and what was    *)
(* polled of it does not depend on the callers, and what is true of the    *)
(* calls only needs that an ended session stays ended; so the invariant    *)
(* has parts, and the first speaks of the values of one session.  That no  *)
(* process is orphaned needs both: a session not yet inserted belongs to   *)
(* one call, which nobody else can end for it.                             *)
(***************************************************************************)
EXTENDS ShellSessions, FiniteSetTheorems, SequenceTheorems, TLAPS

Behind(r, wrote) == r.holds <= r.taken /\ r.taken <= wrote

(* A buffer against its reader: in order, nothing of what the reader is    *)
(* not done with, and nothing missing while all fits.                      *)
Kept(stored, wrote, r) ==
    /\ Len(stored) <= MaxOutput
    /\ \A i, j \in DOMAIN stored : i < j => stored[i] < stored[j]
    /\ \A i \in DOMAIN stored : stored[i] <= r.taken - r.holds
    /\ wrote <= MaxOutput => stored = [k \in 1..(r.taken - r.holds) |-> k]

Tagged(stored, st) == [i \in DOMAIN stored |-> <<st, stored[i]>>]
Whole(buffer) == Tagged(buffer["stdout"], "stdout") \o Tagged(buffer["stderr"], "stderr")
Size(buffer) == Len(buffer["stdout"]) + Len(buffer["stderr"])

PolledOf(buffer, offset, wrote, told) ==
    \A st \in Streams :
        (\A other \in Streams \ {st} : wrote[other] = 0) => told = SubSeq(Whole(buffer), 1, offset)

(* A session, its process, its readers and what was polled of it.          *)
Sound(ses, p, r, told) ==
    /\ ses.child <=> ses.running
    /\ ses.read_offset <= Size(ses.buffer)
    /\ \A st \in Streams : Kept(ses.buffer[st], p.wrote[st], r[st])
    /\ PolledOf(ses.buffer, ses.read_offset, p.wrote, told)

Readers == [Streams -> Reader]

DataInv ==
    /\ counter \in 0..MaxSpawned
    /\ Live \subseteq Started /\ sessions \in [Live -> Session]
    /\ process \in [Started -> Process]
    /\ reader \in [Started -> Readers]
    /\ polled = [s \in Started |-> polled[s]]
    /\ \A s \in Started, st \in Streams : Behind(reader[s][st], process[s].wrote[st])
    /\ \A s \in Live : Sound(sessions[s], process[s], reader[s], polled[s])

Asking == {"insert", "yield", "reap", "kill", "write", "writing"}

CallsKnow ==
    /\ lock \in Callers \cup {Free}
    /\ call \in [Callers -> Call]
    /\ \A c \in Callers : call[c].op \in Asking => call[c].id \in Started
    /\ \A c \in Callers :
         call[c].op = "reap" /\ call[c].id \in Live => ~sessions[call[c].id].running

(* What a call is about to insert is not there yet, was not polled, and no *)
(* other call inserts it or takes it out.                                  *)
Fresh ==
    /\ \A c \in Callers : call[c].op = "insert" =>
         call[c].id \in Started \ Live /\ polled[call[c].id] = <<>>
    /\ \A c, d \in Callers :
         c # d /\ call[c].op = "insert" /\ call[d].op \in {"insert", "reap"} =>
            call[d].id # call[c].id

Held == NoOrphan /\ lost \subseteq Started

IInv == DataInv /\ CallsKnow /\ Fresh /\ Held /\ LimitSlack

----------------------------------------------------------------------------
(* Sequences.                                                              *)

LEMMA AppendIs ==
    ASSUME NEW n \in Nat, NEW f, f = [i \in 1..n |-> f[i]], NEW e
    PROVE  Append(f, e) = [i \in 1..(n + 1) |-> IF i = n + 1 THEN e ELSE f[i]]
<1> DEFINE S == {f[i] : i \in 1..n} \cup {e}
<1>1. f \in [1..n -> S]
  OBVIOUS
<1>2. f \in Seq(S) /\ e \in S
  BY <1>1, SeqDef
<1>3. Len(f) = n
  BY <1>1, <1>2, LenProperties
<1> HIDE DEF S
<1>4. /\ Append(f, e) \in Seq(S) /\ Len(Append(f, e)) = n + 1
      /\ \A i \in 1..n : Append(f, e)[i] = f[i]
      /\ Append(f, e)[n + 1] = e
  BY <1>2, <1>3, AppendProperties
<1>5. Append(f, e) \in [1..(n + 1) -> S]
  BY <1>4, LenProperties
<1> QED BY <1>4, <1>5

LEMMA ConcatIs ==
    ASSUME NEW S, NEW a \in Seq(S), NEW b \in Seq(S), NEW n, n = Len(a), NEW m, m = Len(b)
    PROVE  /\ a \o b \in Seq(S) /\ Len(a \o b) = n + m
           /\ \A i \in 1..(n + m) : (a \o b)[i] = IF i <= n THEN a[i] ELSE b[i - n]
<1>1. /\ a \o b \in Seq(S) /\ Len(a \o b) = Len(a) + Len(b)
      /\ \A i \in 1..(Len(a) + Len(b)) :
            (a \o b)[i] = IF i <= Len(a) THEN a[i] ELSE b[i - Len(a)]
  BY ConcatProperties, Zenon
<1> QED BY <1>1, Zenon

LEMMA BufferIs ==
    ASSUME NEW stored \in Seq(Bytes)
    PROVE  /\ Len(stored) \in Nat /\ DOMAIN stored = 1..Len(stored)
           /\ \A i \in 1..Len(stored) : stored[i] \in Nat /\ stored[i] >= 1
<1>1. \A i \in 1..Len(stored) : stored[i] \in Bytes
  BY ElementOfSeq
<1> QED BY <1>1, LenProperties, ShellConstants DEF Bytes

Tag == Streams \X Bytes

LEMMA TaggedType ==
    ASSUME NEW stored \in Seq(Bytes), NEW st \in Streams
    PROVE  Tagged(stored, st) \in Seq(Tag) /\ Len(Tagged(stored, st)) = Len(stored)
<1>1. DOMAIN stored = 1..Len(stored) /\ Len(stored) \in Nat
  BY LenProperties
<1>2. \A i \in 1..Len(stored) : stored[i] \in Bytes
  BY ElementOfSeq
<1>3. Tagged(stored, st) \in [1..Len(stored) -> Tag]
  BY <1>1, <1>2 DEF Tagged, Tag
<1>4. Tagged(stored, st) \in Seq(Tag)
  BY <1>1, <1>3, SeqDef
<1> QED BY <1>1, <1>3, <1>4, LenProperties

LEMMA WholeType ==
    ASSUME NEW buffer \in [Streams -> Seq(Bytes)]
    PROVE  /\ Whole(buffer) \in Seq(Tag)
           /\ Size(buffer) \in Nat /\ Len(Whole(buffer)) = Size(buffer)
<1>1. "stdout" \in Streams /\ "stderr" \in Streams
  BY DEF Streams
<1>2. \A st \in Streams : Len(buffer[st]) \in Nat
  BY LenProperties
<1>3. \A st \in Streams :
        Tagged(buffer[st], st) \in Seq(Tag) /\ Len(Tagged(buffer[st], st)) = Len(buffer[st])
  BY TaggedType
<1>4. \A x, y \in Seq(Tag) : x \o y \in Seq(Tag) /\ Len(x \o y) = Len(x) + Len(y)
  BY ConcatProperties, Zenon
<1>5. Size(buffer) \in Nat
  BY <1>1, <1>2 DEF Size
<1>6. Whole(buffer) \in Seq(Tag) /\ Len(Whole(buffer)) = Size(buffer)
  BY <1>1, <1>3, <1>4, Zenon DEF Whole, Size
<1> QED BY <1>5, <1>6

(* A session has the same output as its buffer.                            *)
LEMMA CombinedIs ==
    \A s : Combined(s) = Whole(sessions[s].buffer) /\ Total(s) = Size(sessions[s].buffer)
BY DEF Combined, Whole, Tagged, Total, Size

----------------------------------------------------------------------------
(* One session.                                                            *)

LEMMA EmptySound ==
    ASSUME NEW p
    PROVE  Sound(NewSession, p, NewReader, <<>>)
<1>1. NewSession.buffer \in [Streams -> Seq(Bytes)] /\ NewSession.read_offset = 0
  BY EmptySeq DEF NewSession
<1>2. Size(NewSession.buffer) \in Nat
  BY <1>1, WholeType
<1>3. ASSUME NEW st \in Streams PROVE Kept(<<>>, p.wrote[st], NewReader[st])
  <2>1. /\ NewReader[st].taken - NewReader[st].holds = 0
        /\ Len(<<>>) = 0 /\ DOMAIN <<>> = {}
    BY DEF NewReader
  <2>2. <<>> = [k \in 1..0 |-> k]
    OBVIOUS
  <2> QED BY <2>1, <2>2, ShellConstants DEF Kept
<1>4. PolledOf(NewSession.buffer, 0, p.wrote, <<>>)
  BY SubSeqEmpty DEF PolledOf
<1> QED BY <1>1, <1>2, <1>3, <1>4 DEF Sound, NewSession

(* The session may end, the process write and end, as long as what is not  *)
(* yet taken only grows.                                                   *)
LEMMA SoundStays ==
    ASSUME NEW ses, NEW ses2, NEW p \in Process, NEW p2 \in Process, NEW r, NEW told,
           Sound(ses, p, r, told),
           ses2.buffer = ses.buffer, ses2.read_offset = ses.read_offset,
           ses2.child <=> ses2.running,
           \A st \in Streams : p.wrote[st] <= p2.wrote[st]
    PROVE  Sound(ses2, p2, r, told)
<1>1. \A st \in Streams : p.wrote[st] \in Nat /\ p2.wrote[st] \in Nat
  BY ShellConstants DEF Process
<1>2. \A st \in Streams : Kept(ses2.buffer[st], p2.wrote[st], r[st])
  BY <1>1, ShellConstants DEF Sound, Kept
<1>3. PolledOf(ses2.buffer, ses2.read_offset, p2.wrote, told)
  BY <1>1 DEF Sound, PolledOf
<1> QED BY <1>2, <1>3 DEF Sound

(* What is taken and still held is not looked at.                          *)
LEMMA TakingKeepsSound ==
    ASSUME NEW ses, NEW p, NEW r, NEW r2, NEW told, Sound(ses, p, r, told),
           \A st \in Streams : r2[st].taken - r2[st].holds = r[st].taken - r[st].holds
    PROVE  Sound(ses, p, r2, told)
BY DEF Sound, Kept

LEMMA ChunkIs ==
    ASSUME NEW r \in Reader, NEW wrote \in 0..MaxBytes, Behind(r, wrote),
           NEW chunk, chunk = [i \in 1..r.holds |-> r.taken - r.holds + i]
    PROVE  /\ chunk \in Seq(Bytes) /\ Len(chunk) = r.holds
           /\ \A i \in 1..r.holds : chunk[i] = r.taken - r.holds + i
<1>1. r.holds \in Nat /\ chunk \in [1..r.holds -> Bytes]
  BY ShellConstants DEF Bytes, Reader, Behind
<1>2. chunk \in Seq(Bytes)
  BY <1>1, SeqDef
<1> QED BY <1>1, <1>2, LenProperties

(* A chunk that is stored follows what is there.                           *)
LEMMA ChunkKept ==
    ASSUME NEW stored \in Seq(Bytes), NEW wrote \in 0..MaxBytes, NEW r \in Reader, NEW r2 \in Reader,
           Kept(stored, wrote, r), Behind(r, wrote),
           r2.taken = r.taken, r2.holds = 0,
           NEW chunk \in Seq(Bytes), Len(chunk) = r.holds,
           \A i \in 1..r.holds : chunk[i] = r.taken - r.holds + i
    PROVE  /\ Fits(Len(stored), r.holds) =>
                 stored \o chunk \in Seq(Bytes) /\ Kept(stored \o chunk, wrote, r2)
           /\ ~Fits(Len(stored), r.holds) => Kept(stored, wrote, r2)
<1>1. /\ r.taken \in Nat /\ r.holds \in Nat /\ wrote \in Nat /\ wrote <= MaxBytes
      /\ r.holds <= r.taken /\ r.taken <= wrote
  BY ShellConstants DEF Reader, Behind
<1> DEFINE t == r.taken
           h == r.holds
           n == Len(stored)
<1>2. n \in Nat /\ DOMAIN stored = 1..n /\ \A i \in 1..n : stored[i] \in Nat /\ stored[i] <= t - h
  BY BufferIs DEF Kept
<1>3. chunk \in Seq(Bytes) /\ h = Len(chunk)
  OBVIOUS
<1>4. ASSUME Fits(n, h) PROVE stored \o chunk \in Seq(Bytes) /\ Kept(stored \o chunk, wrote, r2)
  <2> DEFINE now == stored \o chunk
  <2>1. /\ now \in Seq(Bytes) /\ Len(now) = n + h
        /\ \A i \in 1..(n + h) : now[i] = IF i <= n THEN stored[i] ELSE chunk[i - n]
    BY <1>3, ConcatIs
  <2>2. DOMAIN now = 1..(n + h)
    BY <2>1, LenProperties
  <2> HIDE DEF now
  <2>3. \A i \in 1..(n + h) : now[i] = IF i <= n THEN stored[i] ELSE t - h + (i - n)
    <3>1. \A i \in 1..(n + h) : ~(i <= n) => chunk[i - n] = t - h + (i - n)
      BY <1>1, <1>2
    <3> QED BY <2>1, <3>1
  <2>4. \A i, j \in DOMAIN now : i < j => now[i] < now[j]
    <3> SUFFICES ASSUME NEW i \in 1..(n + h), NEW j \in 1..(n + h), i < j PROVE now[i] < now[j]
      BY <2>2
    <3>1. CASE j <= n
      <4>1. \A k, l \in 1..n : k < l => stored[k] < stored[l]
        BY <1>2 DEF Kept
      <4>2. i \in 1..n /\ j \in 1..n
        BY <1>1, <1>2, <3>1
      <4>3. now[i] = stored[i] /\ now[j] = stored[j]
        BY <2>3, <4>2
      <4> QED BY <4>1, <4>2, <4>3
    <3>2. CASE i <= n /\ n < j
      BY <1>1, <1>2, <2>3, <3>2
    <3>3. CASE n < i
      BY <1>1, <1>2, <2>3, <3>3
    <3> QED BY <1>1, <1>2, <3>1, <3>2, <3>3
  <2>5. \A i \in DOMAIN now : now[i] <= r2.taken - r2.holds
    BY <1>1, <1>2, <2>2, <2>3
  <2>6. ASSUME wrote <= MaxOutput PROVE now = [k \in 1..t |-> k]
    <3>1. n = t - h /\ \A k \in 1..n : stored[k] = k
      BY <1>1, <1>2, <2>6 DEF Kept
    <3>2. n + h = t
      BY <1>1, <3>1
    <3>3. \A k \in 1..t : now[k] = k
      <4> SUFFICES ASSUME NEW k \in 1..(n + h) PROVE now[k] = k
        BY <3>2
      <4>1. now[k] = IF k <= n THEN stored[k] ELSE t - h + (k - n)
        BY <2>3
      <4>2. k <= n => stored[k] = k
        BY <1>2, <3>1
      <4>3. t - h + (k - n) = k
        BY <1>1, <1>2, <3>1
      <4> QED BY <4>1, <4>2, <4>3
    <3>4. now = [k \in DOMAIN now |-> now[k]]
      BY <2>1, LenProperties
    <3> QED BY <2>2, <3>2, <3>3, <3>4
  <2>7. Len(now) <= MaxOutput
    BY <1>4, <2>1 DEF Fits
  <2>8. r2.taken - r2.holds = t
    BY <1>1
  <2> QED BY <2>1, <2>4, <2>5, <2>6, <2>7, <2>8 DEF Kept, now
<1>5. ASSUME ~Fits(n, h) PROVE Kept(stored, wrote, r2)
  <2>1. ~(wrote <= MaxOutput)
    <3> SUFFICES ASSUME wrote <= MaxOutput PROVE FALSE
      OBVIOUS
    <3>1. n = t - h
      BY <1>1, <1>2 DEF Kept
    <3> QED BY <1>1, <1>5, <3>1, ShellConstants DEF Fits
  <2>2. \A i \in DOMAIN stored : stored[i] <= r2.taken - r2.holds
    BY <1>1, <1>2
  <2> QED BY <2>1, <2>2 DEF Kept
<1> QED BY <1>4, <1>5

(* While one stream has no output, the whole output is that of the other.  *)
LEMMA LoneStream ==
    ASSUME NEW buffer \in [Streams -> Seq(Bytes)], NEW st \in Streams,
           \A other \in Streams \ {st} : buffer[other] = <<>>
    PROVE  Whole(buffer) = Tagged(buffer[st], st)
<1>1. \A other \in Streams \ {st} : Tagged(buffer[other], other) = <<>>
  <2> SUFFICES ASSUME NEW other \in Streams \ {st} PROVE Tagged(buffer[other], other) = <<>>
    OBVIOUS
  <2>1. Tagged(buffer[other], other) \in Seq(Tag) /\ Len(Tagged(buffer[other], other)) = 0
    BY TaggedType, EmptySeq
  <2> QED BY <2>1, EmptySeq
<1>2. Tagged(buffer[st], st) \in Seq(Tag)
  BY TaggedType
<1>3. /\ Tagged(buffer[st], st) \o <<>> = Tagged(buffer[st], st)
      /\ <<>> \o Tagged(buffer[st], st) = Tagged(buffer[st], st)
  BY <1>2, ConcatEmptySeq, Zenon
<1>4. CASE st = "stdout"
  <2>1. Tagged(buffer["stderr"], "stderr") = <<>>
    BY <1>1, <1>4 DEF Streams
  <2> QED BY <1>3, <1>4, <2>1, Zenon DEF Whole
<1>5. CASE st = "stderr"
  <2>1. Tagged(buffer["stdout"], "stdout") = <<>>
    BY <1>1, <1>5 DEF Streams
  <2> QED BY <1>3, <1>5, <2>1, Zenon DEF Whole
<1> QED BY <1>4, <1>5 DEF Streams

LEMMA TaggedConcat ==
    ASSUME NEW a \in Seq(Bytes), NEW b \in Seq(Bytes), NEW st \in Streams
    PROVE  Tagged(a \o b, st) = Tagged(a, st) \o Tagged(b, st)
<1> DEFINE n == Len(a)
           m == Len(b)
           ta == Tagged(a, st)
           tb == Tagged(b, st)
<1>1. /\ n \in Nat /\ m \in Nat /\ DOMAIN a = 1..n /\ DOMAIN b = 1..m
      /\ ta \in Seq(Tag) /\ Len(ta) = n /\ tb \in Seq(Tag) /\ Len(tb) = m
  BY TaggedType, LenProperties
<1>2. /\ a \o b \in Seq(Bytes) /\ Len(a \o b) = n + m
      /\ \A i \in 1..(n + m) : (a \o b)[i] = IF i <= n THEN a[i] ELSE b[i - n]
  BY ConcatIs
<1>3. Tagged(a \o b, st) \in Seq(Tag) /\ Len(Tagged(a \o b, st)) = n + m
  BY <1>2, TaggedType
<1>4. DOMAIN (a \o b) = 1..(n + m)
  BY <1>2, LenProperties
<1>5. n = Len(ta) /\ m = Len(tb) /\ ta \in Seq(Tag) /\ tb \in Seq(Tag)
  BY <1>1
<1>6. /\ \A i \in 1..n : ta[i] = <<st, a[i]>>
      /\ \A i \in 1..m : tb[i] = <<st, b[i]>>
      /\ \A i \in 1..(n + m) : Tagged(a \o b, st)[i] = <<st, (a \o b)[i]>>
  BY <1>1, <1>4 DEF Tagged
<1> HIDE DEF n, m, ta, tb
<1>7. /\ ta \o tb \in Seq(Tag) /\ Len(ta \o tb) = n + m
      /\ \A i \in 1..(n + m) : (ta \o tb)[i] = IF i <= n THEN ta[i] ELSE tb[i - n]
  BY <1>5, ConcatIs
<1>8. ASSUME NEW i \in 1..(n + m) PROVE Tagged(a \o b, st)[i] = (ta \o tb)[i]
  <2>1. CASE i <= n
    <3>1. i \in 1..n /\ i \in 1..(n + m)
      BY <1>1, <2>1 DEF n, m
    <3>2. (a \o b)[i] = a[i] /\ (ta \o tb)[i] = ta[i]
      BY <1>2, <1>7, <2>1, <3>1
    <3> QED BY <1>6, <3>1, <3>2
  <2>2. CASE ~(i <= n)
    <3>1. i - n \in 1..m
      BY <1>1, <2>2
    <3> QED BY <1>2, <1>6, <1>7, <2>2, <3>1
  <2> QED BY <2>1, <2>2
<1>9. Tagged(a \o b, st) = ta \o tb
  BY <1>3, <1>7, <1>8, SeqEqual
<1> QED BY <1>9 DEF ta, tb

(* A stream nothing was written to has nothing stored.                     *)
LEMMA NothingWritten ==
    ASSUME NEW stored \in Seq(Bytes), NEW r \in Reader, Behind(r, 0), Kept(stored, 0, r)
    PROVE  stored = <<>>
<1>1. Len(stored) \in Nat /\ DOMAIN stored = 1..Len(stored)
  BY BufferIs
<1>2. r.taken - r.holds = 0
  BY ShellConstants DEF Behind, Reader
<1>3. Len(stored) = 0
  BY <1>1, <1>2, BufferIs DEF Kept
<1> QED BY <1>3, EmptySeq

(* A chunk comes after what the cursor is past.                            *)
LEMMA ChunkPolled ==
    ASSUME NEW buffer \in [Streams -> Seq(Bytes)], NEW st \in Streams, NEW chunk \in Seq(Bytes),
           NEW wrote \in [Streams -> 0..MaxBytes], wrote[st] # 0, NEW r \in Readers,
           \A x \in Streams : Behind(r[x], wrote[x]) /\ Kept(buffer[x], wrote[x], r[x]),
           NEW offset \in Nat, offset <= Size(buffer), NEW told,
           PolledOf(buffer, offset, wrote, told),
           NEW after, after = [buffer EXCEPT ![st] = buffer[st] \o chunk]
    PROVE  PolledOf(after, offset, wrote, told) /\ offset <= Size(after)
<1>1. after \in [Streams -> Seq(Bytes)] /\ after[st] = buffer[st] \o chunk
  BY ConcatIs
<1>2. offset <= Size(after)
  <2>1. Len(buffer[st] \o chunk) = Len(buffer[st]) + Len(chunk)
    BY ConcatIs
  <2>2. \A x \in Streams : Len(buffer[x]) \in Nat
    BY LenProperties
  <2>3. Len(chunk) \in Nat
    BY LenProperties
  <2>4. CASE st = "stdout"
    BY <2>1, <2>2, <2>3, <2>4 DEF Size, Streams
  <2>5. CASE st = "stderr"
    BY <2>1, <2>2, <2>3, <2>5 DEF Size, Streams
  <2> QED BY <2>4, <2>5 DEF Streams
<1>3. ASSUME NEW one \in Streams, \A other \in Streams \ {one} : wrote[other] = 0
      PROVE  told = SubSeq(Whole(after), 1, offset)
  <2>1. one = st
    BY <1>3
  <2>2. \A other \in Streams \ {st} : buffer[other] = <<>> /\ after[other] = <<>>
    <3> SUFFICES ASSUME NEW other \in Streams \ {st} PROVE buffer[other] = <<>>
      OBVIOUS
    <3>1. wrote[other] = 0 /\ r[other] \in Reader /\ buffer[other] \in Seq(Bytes)
      BY <1>3, <2>1 DEF Readers
    <3> QED BY <3>1, NothingWritten
  <2>3. Whole(buffer) = Tagged(buffer[st], st)
    BY <2>2, LoneStream
  <2>4. Whole(after) = Tagged(after[st], st)
    BY <1>1, <2>2, LoneStream
  <2>5. Whole(after) = Whole(buffer) \o Tagged(chunk, st)
    <3>1. Tagged(buffer[st] \o chunk, st) = Tagged(buffer[st], st) \o Tagged(chunk, st)
      BY TaggedConcat
    <3> QED BY <1>1, <2>3, <2>4, <3>1, Zenon
  <2>6. told = SubSeq(Whole(buffer), 1, offset)
    BY <1>3 DEF PolledOf
  <2>7. /\ Whole(buffer) \in Seq(Tag) /\ Tagged(chunk, st) \in Seq(Tag)
        /\ Len(Whole(buffer)) = Size(buffer) /\ Size(buffer) \in Nat
    BY WholeType, TaggedType
  <2>8. CASE offset = 0
    BY <2>6, <2>8, SubSeqEmpty
  <2>9. CASE offset # 0
    <3>1. 1 \in 1..Len(Whole(buffer)) /\ offset \in 1..Len(Whole(buffer))
      BY <2>7, <2>9
    <3>2. SubSeq(Whole(buffer) \o Tagged(chunk, st), 1, offset) = SubSeq(Whole(buffer), 1, offset)
      BY <2>7, <3>1, SubSeqOfConcat1, Zenon
    <3> QED BY <2>5, <2>6, <3>2, Zenon
  <2> QED BY <2>8, <2>9
<1> QED BY <1>2, <1>3 DEF PolledOf

----------------------------------------------------------------------------
(* What a step may do to the sessions: ids are new, one that is gone is    *)
(* gone, and one that has ended has ended.                                 *)

EndsStay ==
    \A s \in Live \cap Live' :
        ~sessions[s].running =>
            ~sessions'[s].running /\ sessions'[s].exit_code = sessions[s].exit_code

Forward == Started \subseteq Started' /\ Live' \cap Started \subseteq Live /\ EndsStay

LEMMA SessionsStay ==
    ASSUME DataInv, UNCHANGED <<sessions, counter, process, reader, polled>>
    PROVE  DataInv' /\ Forward
BY DEF DataInv, Forward, EndsStay, Live, Started

(* yield_exec, remove_session and cleanup_old_sessions take out what ended.*)
LEMMA EndedGo ==
    ASSUME DataInv, NEW gone, \A s \in gone \cap Live : ~sessions[s].running,
           sessions' = Restrict(sessions, Live \ gone),
           UNCHANGED <<counter, process, reader, polled>>
    PROVE  DataInv' /\ Forward
<1>1. Live' = Live \ gone /\ \A s \in Live' : sessions'[s] = sessions[s]
  BY DEF Live, Restrict
<1>2. sessions' \in [Live' -> Session] /\ Live' \subseteq Started
  BY <1>1 DEF DataInv, Restrict, Started
<1> QED BY <1>1, <1>2 DEF DataInv, Forward, EndsStay, Started

(* A process starts; its id is new.                                        *)
LEMMA SpawnKeeps ==
    ASSUME DataInv, NEW c, Spawn(c)
    PROVE  /\ DataInv' /\ Forward /\ Live' = Live
           /\ Started' = Started \cup {counter + 1} /\ counter + 1 \notin Started
           /\ polled'[counter + 1] = <<>>
           /\ \A s \in Started : process'[s] = process[s] /\ polled'[s] = polled[s]
<1> DEFINE n == counter + 1
           p == [alive |-> TRUE, wrote |-> [st \in Streams |-> 0], stdin |-> 0]
           r == [st \in Streams |-> [taken |-> 0, holds |-> 0, done |-> TRUE]]
<1>1. counter \in Nat /\ counter < MaxSpawned /\ counter' = n /\ Started = 1..counter
  BY ShellConstants DEF DataInv, Spawn, Started
<1>2. Started' = Started \cup {n} /\ n \notin Started /\ n \notin Live /\ Started' = 1..n
  BY <1>1 DEF DataInv, Started
<1>3. sessions' = sessions /\ Live' = Live
  BY DEF Spawn, Live
<1>4. p \in Process /\ r \in Readers
  BY ShellConstants DEF Process, Readers, Reader
<1>5. process' = [i \in 1..n |-> IF i = n THEN p ELSE process[i]]
  <2>1. process = [i \in 1..counter |-> process[i]]
    BY <1>1 DEF DataInv
  <2>2. process' = Append(process, p)
    BY DEF Spawn
  <2> HIDE DEF p
  <2> QED BY <1>1, <2>1, <2>2, AppendIs
<1>6. reader' = [i \in 1..n |-> IF i = n THEN r ELSE reader[i]]
  <2>1. reader = [i \in 1..counter |-> reader[i]]
    BY <1>1 DEF DataInv
  <2>2. reader' = Append(reader, r)
    BY DEF Spawn
  <2> HIDE DEF r
  <2> QED BY <1>1, <2>1, <2>2, AppendIs
<1>7. polled' = [i \in 1..n |-> IF i = n THEN <<>> ELSE polled[i]]
  <2>1. polled = [i \in 1..counter |-> polled[i]]
    BY <1>1 DEF DataInv
  <2>2. polled' = Append(polled, <<>>)
    BY DEF Spawn
  <2> QED BY <1>1, <2>1, <2>2, AppendIs
<1>8. \A st \in Streams : Behind(r[st], p.wrote[st])
  BY DEF Behind
<1> HIDE DEF n, p, r
<1>9. process' \in [Started' -> Process] /\ reader' \in [Started' -> Readers]
  BY <1>1, <1>2, <1>4, <1>5, <1>6 DEF DataInv
<1>10. polled' = [s \in Started' |-> polled'[s]]
  BY <1>2, <1>7
<1>11. \A s \in Started :
         process'[s] = process[s] /\ reader'[s] = reader[s] /\ polled'[s] = polled[s]
  BY <1>2, <1>5, <1>6, <1>7
<1>12. process'[n] = p /\ reader'[n] = r /\ polled'[n] = <<>>
  BY <1>2, <1>5, <1>6, <1>7
<1>13. \A s \in Started', st \in Streams : Behind(reader'[s][st], process'[s].wrote[st])
  BY <1>2, <1>8, <1>11, <1>12 DEF DataInv
<1>14. \A s \in Live' : Sound(sessions'[s], process'[s], reader'[s], polled'[s])
  BY <1>3, <1>11 DEF DataInv
<1>15. counter' \in 0..MaxSpawned /\ Live' \subseteq Started' /\ sessions' \in [Live' -> Session]
  BY <1>1, <1>2, <1>3, ShellConstants DEF DataInv, n
<1>16. DataInv'
  BY <1>9, <1>10, <1>13, <1>14, <1>15 DEF DataInv
<1>17. Forward
  BY <1>2, <1>3 DEF Forward, EndsStay
<1> QED BY <1>2, <1>3, <1>11, <1>12, <1>16, <1>17 DEF n

(* Its session is put in the map and its readers start.                    *)
LEMMA InsertKeeps ==
    ASSUME DataInv, NEW c, NEW next, Insert(c, next), NEW n, n = call[c].id,
           n \in Started, n \notin Live, polled[n] = <<>>
    PROVE  /\ DataInv' /\ EndsStay /\ Live' = Live \cup {n} /\ Started' = Started
           /\ sessions'[n] = NewSession /\ \A s \in Live : sessions'[s] = sessions[s]
<1>1. /\ UNCHANGED <<counter, process, polled>> /\ Started' = Started
      /\ reader' = [reader EXCEPT ![n] = NewReader]
  BY DEF Insert, Started
<1>2. Live' = Live \cup {n}
  BY DEF Insert, Live
<1>3. sessions'[n] = NewSession /\ \A s \in Live : sessions'[s] = sessions[s]
  BY DEF Insert
<1>4. NewSession \in Session
  BY EmptySeq DEF NewSession, Session
<1>5. sessions' \in [Live' -> Session]
  BY <1>2, <1>4 DEF DataInv, Insert
<1>6. NewReader \in Readers
  BY ShellConstants DEF NewReader, Readers, Reader
<1>7. /\ reader' \in [Started -> Readers] /\ reader'[n] = NewReader
      /\ \A s \in Started \ {n} : reader'[s] = reader[s]
  BY <1>1, <1>6 DEF DataInv
<1>8. \A st \in Streams : Behind(NewReader[st], process[n].wrote[st])
  <2>1. \A st \in Streams : process[n].wrote[st] \in Nat
    BY ShellConstants DEF DataInv, Process
  <2> QED BY <2>1 DEF Behind, NewReader
<1>9. \A s \in Started, st \in Streams : Behind(reader'[s][st], process[s].wrote[st])
  BY <1>7, <1>8 DEF DataInv
<1>10. \A s \in Live' : Sound(sessions'[s], process[s], reader'[s], polled[s])
  <2>1. Sound(NewSession, process[n], NewReader, <<>>)
    BY EmptySound
  <2> QED BY <1>2, <1>3, <1>7, <2>1 DEF DataInv
<1>11. DataInv'
  <2>1. Live' \subseteq Started
    BY <1>2 DEF DataInv
  <2> QED BY <1>1, <1>5, <1>7, <1>9, <1>10, <2>1 DEF DataInv
<1>12. EndsStay
  BY <1>3 DEF EndsStay
<1> QED BY <1>1, <1>2, <1>3, <1>11, <1>12

(* One session changes and its process, its readers and what was polled of *)
(* it with it; the others stay.                                            *)
LEMMA OneChanges ==
    ASSUME DataInv, NEW s \in Started, counter' = counter, Live' = Live,
           sessions' \in [Live -> Session], process' \in [Started -> Process],
           reader' \in [Started -> Readers], polled' = [x \in Started |-> polled'[x]],
           \A x \in Live \ {s} : sessions'[x] = sessions[x],
           \A x \in Started \ {s} :
               process'[x] = process[x] /\ reader'[x] = reader[x] /\ polled'[x] = polled[x],
           \A st \in Streams : Behind(reader'[s][st], process'[s].wrote[st]),
           s \in Live =>
               /\ Sound(sessions'[s], process'[s], reader'[s], polled'[s])
               /\ ~sessions[s].running => /\ ~sessions'[s].running
                                          /\ sessions'[s].exit_code = sessions[s].exit_code
    PROVE  DataInv' /\ Forward
<1>1. Started' = Started
  BY DEF Started
<1>2. \A x \in Started :
        /\ \A st \in Streams : Behind(reader'[x][st], process'[x].wrote[st])
        /\ x \in Live => Sound(sessions'[x], process'[x], reader'[x], polled'[x])
  BY DEF DataInv
<1>3. DataInv'
  BY <1>1, <1>2 DEF DataInv
<1> QED BY <1>1, <1>3 DEF Forward, EndsStay

----------------------------------------------------------------------------
(* The tasks of a session, the calls on it and its process.                *)

LEMMA Storing ==
    ASSUME NEW r \in Reader,
           NEW r2, r2 = [r EXCEPT !.holds = 0] \/ r2 = [r EXCEPT !.holds = 0, !.done = TRUE]
    PROVE  r2 \in Reader /\ r2.holds = 0 /\ r2.taken = r.taken
<1>1. 0 \in 0..ReadSize
  BY ShellConstants
<1>2. CASE r2 = [r EXCEPT !.holds = 0]
  BY <1>1, <1>2 DEF Reader
<1>3. CASE r2 = [r EXCEPT !.holds = 0, !.done = TRUE]
  BY <1>1, <1>3 DEF Reader
<1> QED BY <1>2, <1>3

LEMMA ReaderTakesKeeps ==
    ASSUME DataInv, NEW s \in Started, NEW st \in Streams, ReaderTakes(s, st)
    PROVE  DataInv' /\ Forward
<1>1. PICK n \in 1..ReadSize :
        /\ reader[s][st].taken + n <= process[s].wrote[st]
        /\ reader' = [reader EXCEPT ![s][st].holds = n, ![s][st].taken = @ + n]
  BY DEF ReaderTakes
<1>2. /\ reader[s][st].holds = 0 /\ UNCHANGED <<sessions, counter, process, polled>>
      /\ Live' = Live
  BY DEF ReaderTakes, Live
<1>3. /\ reader[s] \in Readers /\ reader[s][st] \in Reader /\ process[s] \in Process
      /\ n \in Nat /\ n <= ReadSize
  BY ShellConstants DEF DataInv, Readers
<1>4. PICK r2 : r2 = [reader[s][st] EXCEPT !.holds = n, !.taken = reader[s][st].taken + n]
  OBVIOUS
<1>5. /\ r2 \in Reader /\ Behind(r2, process[s].wrote[st])
      /\ r2.taken - r2.holds = reader[s][st].taken - reader[s][st].holds
  <2>1. process[s].wrote[st] \in 0..MaxBytes
    BY <1>3 DEF Process
  <2>2. PICK r, w, t : r = reader[s][st] /\ w = process[s].wrote[st] /\ t = r.taken + n
    OBVIOUS
  <2>3. /\ r \in Reader /\ w \in 0..MaxBytes /\ r.holds = 0 /\ t <= w
        /\ r2 = [r EXCEPT !.holds = n, !.taken = t]
    BY <1>1, <1>2, <1>3, <1>4, <2>1, <2>2
  <2>4. t \in 0..MaxBytes /\ n \in 0..ReadSize /\ r.taken \in Nat
    BY <1>3, <2>2, <2>3, ShellConstants DEF Reader
  <2>5. r2 \in Reader /\ r2.holds = n /\ r2.taken = t
    BY <2>3, <2>4 DEF Reader
  <2>6. Behind(r2, w) /\ r2.taken - r2.holds = r.taken - r.holds
    BY <1>3, <2>2, <2>3, <2>4, <2>5, ShellConstants DEF Behind
  <2> QED BY <2>2, <2>5, <2>6
<1>6. reader' = [reader EXCEPT ![s] = [reader[s] EXCEPT ![st] = r2]]
  BY <1>1, <1>2, <1>3, <1>4 DEF DataInv, Readers, Reader
<1>7. /\ reader' \in [Started -> Readers] /\ reader'[s][st] = r2
      /\ \A x \in Streams \ {st} : reader'[s][x] = reader[s][x]
      /\ \A x \in Started \ {s} : reader'[x] = reader[x]
  BY <1>3, <1>5, <1>6 DEF DataInv, Readers
<1>8. \A x \in Streams : Behind(reader'[s][x], process[s].wrote[x])
  BY <1>5, <1>7 DEF DataInv
<1>9. \A x \in Streams :
        reader'[s][x].taken - reader'[s][x].holds = reader[s][x].taken - reader[s][x].holds
  BY <1>5, <1>7
<1>10. s \in Live => Sound(sessions[s], process[s], reader'[s], polled[s])
  BY <1>9, TakingKeepsSound DEF DataInv
<1>11. /\ sessions' = sessions /\ process' = process /\ polled' = polled /\ counter' = counter
       /\ sessions \in [Live -> Session] /\ process \in [Started -> Process]
       /\ polled = [x \in Started |-> polled[x]]
  BY <1>2 DEF DataInv
<1> QED BY <1>2, <1>7, <1>8, <1>10, <1>11, OneChanges

LEMMA ReaderStoresKeeps ==
    ASSUME DataInv, NEW s \in Started, NEW st \in Streams, ReaderStores(s, st)
    PROVE  DataInv' /\ Forward
<1> DEFINE r == reader[s][st]
<1>1. /\ reader[s] \in Readers /\ r \in Reader /\ process[s] \in Process
      /\ r.holds > 0 /\ UNCHANGED <<counter, process, polled>>
      /\ process[s].wrote \in [Streams -> 0..MaxBytes]
  BY DEF DataInv, Readers, ReaderStores, Process
<1>2. PICK r2 : /\ reader' = [reader EXCEPT ![s] = [reader[s] EXCEPT ![st] = r2]]
                /\ r2 \in Reader /\ r2.holds = 0 /\ r2.taken = r.taken
  <2>1. CASE s \in Live
    <3>1. reader' = [reader EXCEPT ![s][st].holds = 0]
      BY <2>1 DEF ReaderStores
    <3>2. PICK x : x = [r EXCEPT !.holds = 0]
      OBVIOUS
    <3>3. x \in Reader /\ x.holds = 0 /\ x.taken = r.taken
      BY <1>1, <3>2, Storing
    <3>4. reader' = [reader EXCEPT ![s] = [reader[s] EXCEPT ![st] = x]]
      BY <3>1, <3>2
    <3> QED BY <3>3, <3>4
  <2>2. CASE s \notin Live
    <3>1. reader' = [reader EXCEPT ![s][st].holds = 0, ![s][st].done = TRUE]
      BY <2>2 DEF ReaderStores
    <3>2. PICK x : x = [r EXCEPT !.holds = 0, !.done = TRUE]
      OBVIOUS
    <3>3. x \in Reader /\ x.holds = 0 /\ x.taken = r.taken
      BY <1>1, <3>2, Storing
    <3>4. reader' = [reader EXCEPT ![s] = [reader[s] EXCEPT ![st] = x]]
      BY <1>1, <3>1, <3>2 DEF DataInv, Readers, Reader
    <3> QED BY <3>3, <3>4
  <2> QED BY <2>1, <2>2
<1>3. /\ reader' \in [Started -> Readers] /\ reader'[s][st] = r2 /\ reader'[s] \in Readers
      /\ \A x \in Streams \ {st} : reader'[s][x] = reader[s][x]
      /\ \A x \in Started \ {s} : reader'[x] = reader[x]
  BY <1>1, <1>2 DEF DataInv, Readers
<1>4. \A x \in Streams : Behind(reader[s][x], process[s].wrote[x])
  BY DEF DataInv
<1>5. \A x \in Streams : Behind(reader'[s][x], process[s].wrote[x])
  BY <1>1, <1>2, <1>3, <1>4, ShellConstants DEF Behind, Reader
<1>6. /\ process' = process /\ polled' = polled /\ counter' = counter
      /\ process \in [Started -> Process]
      /\ polled = [x \in Started |-> polled[x]]
      /\ sessions \in [Live -> Session]
  BY <1>1 DEF DataInv
<1>7. CASE s \notin Live
  <2>1. sessions' = sessions /\ Live' = Live
    BY <1>7 DEF ReaderStores, Live
  <2> QED BY <1>3, <1>5, <1>6, <1>7, <2>1, OneChanges
<1>8. CASE s \in Live
  <2> DEFINE buffer == sessions[s].buffer
             wrote == process[s].wrote
             offset == sessions[s].read_offset
  <2>1. /\ sessions[s] \in Session /\ buffer \in [Streams -> Seq(Bytes)] /\ buffer[st] \in Seq(Bytes)
        /\ offset \in Nat
    BY <1>6, <1>8 DEF Session
  <2>2. Sound(sessions[s], process[s], reader[s], polled[s])
    BY <1>8 DEF DataInv
  <2>3. PICK chunk : chunk = [i \in 1..r.holds |-> r.taken - r.holds + i]
    OBVIOUS
  <2>4. /\ chunk \in Seq(Bytes) /\ Len(chunk) = r.holds
        /\ \A i \in 1..r.holds : chunk[i] = r.taken - r.holds + i
    BY <1>1, <1>4, <2>3, ChunkIs
  <2>5. Kept(buffer[st], wrote[st], r) /\ Behind(r, wrote[st]) /\ wrote[st] \in 0..MaxBytes
    BY <1>1, <1>4, <2>2 DEF Sound
  <2>6. wrote[st] # 0
    BY <1>1, <2>5, ShellConstants DEF Behind, Reader
  <2>7. CASE Fits(Len(buffer[st]), r.holds)
    <3>1. sessions' = [sessions EXCEPT ![s].buffer[st] = buffer[st] \o chunk]
      BY <1>8, <2>3, <2>7 DEF ReaderStores
    <3>2. buffer[st] \o chunk \in Seq(Bytes) /\ Kept(buffer[st] \o chunk, wrote[st], r2)
      BY <1>1, <1>2, <2>1, <2>4, <2>5, <2>7, ChunkKept
    <3>3. PICK after : after = [buffer EXCEPT ![st] = buffer[st] \o chunk]
      OBVIOUS
    <3>4. after \in [Streams -> Seq(Bytes)] /\ after[st] = buffer[st] \o chunk
          /\ \A x \in Streams \ {st} : after[x] = buffer[x]
      BY <2>1, <3>2, <3>3
    <3>5. PICK ses2 : ses2 = [sessions[s] EXCEPT !.buffer = after]
      OBVIOUS
    <3>6. /\ ses2 \in Session /\ ses2.buffer = after
          /\ ses2.running = sessions[s].running /\ ses2.child = sessions[s].child
          /\ ses2.read_offset = offset /\ ses2.exit_code = sessions[s].exit_code
      BY <2>1, <3>4, <3>5 DEF Session
    <3>7. sessions' = [sessions EXCEPT ![s] = ses2]
      BY <1>6, <1>8, <2>1, <3>1, <3>3, <3>5
    <3>8. /\ sessions' \in [Live -> Session] /\ Live' = Live /\ sessions'[s] = ses2
          /\ \A x \in Live \ {s} : sessions'[x] = sessions[x]
      BY <1>6, <1>8, <3>6, <3>7 DEF Live
    <3>9. \A x \in Streams : Kept(after[x], wrote[x], reader'[s][x])
      BY <1>3, <2>2, <3>2, <3>4 DEF Sound
    <3>10. \A x \in Streams :
             Behind(reader[s][x], wrote[x]) /\ Kept(buffer[x], wrote[x], reader[s][x])
      BY <1>4, <2>2 DEF Sound
    <3>11. PolledOf(buffer, offset, wrote, polled[s]) /\ offset <= Size(buffer)
      BY <2>2 DEF Sound
    <3>12. PolledOf(after, offset, wrote, polled[s]) /\ offset <= Size(after)
      <4> HIDE DEF buffer, offset, wrote
      <4>1. wrote \in [Streams -> 0..MaxBytes]
        BY <1>1 DEF wrote
      <4>2. reader[s] \in Readers /\ chunk \in Seq(Bytes)
        BY <1>1, <2>4
      <4>3. PICK told, rs : told = polled[s] /\ rs = reader[s]
        OBVIOUS
      <4>4. PolledOf(after, offset, wrote, told) /\ offset <= Size(after)
        <5>1. /\ buffer \in [Streams -> Seq(Bytes)] /\ wrote[st] # 0 /\ rs \in Readers
              /\ \A x \in Streams : Behind(rs[x], wrote[x]) /\ Kept(buffer[x], wrote[x], rs[x])
              /\ offset \in Nat /\ offset <= Size(buffer) /\ PolledOf(buffer, offset, wrote, told)
          BY <2>1, <2>6, <3>10, <3>11, <4>2, <4>3
        <5> QED BY ZenonT(40), <3>3, <4>1, <4>2, <5>1, ChunkPolled
      <4> QED BY <4>3, <4>4
    <3>13. Sound(ses2, process[s], reader'[s], polled[s])
      BY <2>2, <3>6, <3>9, <3>12 DEF Sound
    <3> QED BY <1>3, <1>5, <1>6, <1>8, <3>6, <3>8, <3>13, OneChanges
  <2>8. CASE ~Fits(Len(buffer[st]), r.holds)
    <3>1. sessions' = sessions /\ Live' = Live
      BY <1>8, <2>8 DEF ReaderStores, Live
    <3>2. Kept(buffer[st], wrote[st], r2)
      BY <1>1, <1>2, <2>1, <2>4, <2>5, <2>8, ChunkKept
    <3>3. Sound(sessions[s], process[s], reader'[s], polled[s])
      BY <1>3, <2>2, <3>2 DEF Sound
    <3> QED BY <1>3, <1>5, <1>6, <1>8, <3>1, <3>3, OneChanges
  <2> QED BY <2>7, <2>8
<1> QED BY <1>7, <1>8

LEMMA WaiterKeeps ==
    ASSUME DataInv, NEW s \in Started, Waiter(s) \/ WaiterFails(s)
    PROVE  DataInv' /\ Forward
<1>1. /\ s \in Live /\ sessions[s].child
      /\ UNCHANGED <<counter, process, reader, polled>>
      /\ sessions \in [Live -> Session] /\ sessions[s] \in Session
  BY DEF Waiter, WaiterFails, DataInv
<1>2. PICK ses2 :
        /\ sessions' = [sessions EXCEPT ![s] = ses2]
        /\ ses2 \in Session /\ ses2.buffer = sessions[s].buffer /\ ses2.running = FALSE
        /\ ses2.read_offset = sessions[s].read_offset /\ ses2.child = FALSE
  <2>1. CASE Waiter(s)
    <3>1. PICK x : x = [sessions[s] EXCEPT !.exit_code = "code", !.running = FALSE, !.child = FALSE]
      OBVIOUS
    <3>2. /\ x \in Session /\ x.buffer = sessions[s].buffer /\ x.running = FALSE
          /\ x.read_offset = sessions[s].read_offset /\ x.child = FALSE
      BY <1>1, <3>1 DEF Session
    <3>3. sessions' = [sessions EXCEPT ![s] = x]
      BY <1>1, <2>1, <3>1 DEF Waiter, Session
    <3> QED BY <3>2, <3>3
  <2>2. CASE WaiterFails(s)
    <3>1. PICK x : x = [sessions[s] EXCEPT !.running = FALSE, !.child = FALSE]
      OBVIOUS
    <3>2. /\ x \in Session /\ x.buffer = sessions[s].buffer /\ x.running = FALSE
          /\ x.read_offset = sessions[s].read_offset /\ x.child = FALSE
      BY <1>1, <3>1 DEF Session
    <3>3. sessions' = [sessions EXCEPT ![s] = x]
      BY <1>1, <2>2, <3>1 DEF WaiterFails, Session
    <3> QED BY <3>2, <3>3
  <2> QED BY <2>1, <2>2
<1>3. /\ sessions' \in [Live -> Session] /\ Live' = Live /\ sessions'[s] = ses2
      /\ \A x \in Live \ {s} : sessions'[x] = sessions[x]
  BY <1>1, <1>2 DEF Live
<1>4. process[s] \in Process /\ Sound(sessions[s], process[s], reader[s], polled[s])
  BY <1>1 DEF DataInv
<1>5. Sound(ses2, process[s], reader[s], polled[s])
  <2>1. \A st \in Streams : process[s].wrote[st] <= process[s].wrote[st]
    BY <1>4, ShellConstants DEF Process
  <2> QED BY <1>2, <1>4, <2>1, SoundStays
<1>6. sessions[s].running
  BY <1>1, <1>4 DEF Sound
<1> QED BY <1>1, <1>3, <1>5, <1>6, OneChanges DEF DataInv

LEMMA PolledOn ==
    ASSUME NEW buffer \in [Streams -> Seq(Bytes)], NEW wrote, NEW told, NEW more,
           NEW offset \in Nat, offset <= Size(buffer), PolledOf(buffer, offset, wrote, told),
           more = told \o SubSeq(Whole(buffer), offset + 1, Size(buffer))
    PROVE  PolledOf(buffer, Size(buffer), wrote, more)
<1>1. PICK whole, n : whole = Whole(buffer) /\ n = Size(buffer)
  OBVIOUS
<1>2. whole \in Seq(Tag) /\ n \in Nat /\ n = Len(whole) /\ offset <= n
  BY <1>1, WholeType
<1>3. 1 \in 1..Len(whole) + 1 /\ offset \in (1 - 1)..Len(whole) /\ n \in offset..Len(whole)
  BY <1>2
<1>4. SubSeq(whole, 1, offset) \o SubSeq(whole, offset + 1, n) = SubSeq(whole, 1, n)
  BY <1>2, <1>3, ConcatAdjacentSubSeq, Zenon
<1>5. ASSUME NEW st \in Streams, \A other \in Streams \ {st} : wrote[other] = 0
      PROVE  more = SubSeq(whole, 1, n)
  <2>1. told = SubSeq(whole, 1, offset)
    BY <1>1, <1>5 DEF PolledOf
  <2>2. more = told \o SubSeq(whole, offset + 1, n)
    BY <1>1
  <2> QED BY <1>4, <2>1, <2>2, Zenon
<1> QED BY <1>1, <1>5, Zenon DEF PolledOf

LEMMA PollKeeps ==
    ASSUME DataInv, NEW s \in Started, Poll(s)
    PROVE  DataInv' /\ Forward
<1>1. /\ s \in Live /\ UNCHANGED <<counter, process, reader>>
      /\ sessions \in [Live -> Session] /\ sessions[s] \in Session
  BY DEF Poll, DataInv
<1>2. PICK buffer, offset, told, more, n :
        /\ buffer = sessions[s].buffer /\ offset = sessions[s].read_offset /\ told = polled[s]
        /\ more = told \o SubSeq(Whole(buffer), offset + 1, Size(buffer))
        /\ n = Size(buffer)
  OBVIOUS
<1>3. Sound(sessions[s], process[s], reader[s], polled[s])
  BY <1>1 DEF DataInv
<1>4. /\ buffer \in [Streams -> Seq(Bytes)] /\ offset \in Nat /\ offset <= Size(buffer)
      /\ PolledOf(buffer, offset, process[s].wrote, told)
  BY <1>1, <1>2, <1>3 DEF Session, Sound
<1>5. n \in Nat /\ Len(Whole(buffer)) = n
  BY <1>2, <1>4, WholeType
<1>6. Cursor(s) = n /\ Combined(s) = Whole(buffer) /\ Total(s) = n
  BY <1>2, <1>5, CombinedIs DEF Cursor
<1>7. polled' = [polled EXCEPT ![s] = more]
  BY <1>2, <1>6 DEF Poll
<1>8. PolledOf(buffer, n, process[s].wrote, more)
  <2>1. PICK wrote : wrote = process[s].wrote
    OBVIOUS
  <2> QED BY <1>2, <1>4, <2>1, PolledOn
<1>9. PICK ses2 : ses2 = [sessions[s] EXCEPT !.read_offset = n]
  OBVIOUS
<1>10. /\ ses2 \in Session /\ ses2.buffer = buffer /\ ses2.read_offset = n
       /\ ses2.running = sessions[s].running /\ ses2.child = sessions[s].child
       /\ ses2.exit_code = sessions[s].exit_code
  BY <1>1, <1>2, <1>5, <1>9 DEF Session
<1>11. sessions' = [sessions EXCEPT ![s] = ses2]
  BY <1>6, <1>9 DEF Poll
<1>12. /\ sessions' \in [Live -> Session] /\ Live' = Live /\ sessions'[s] = ses2
       /\ \A x \in Live \ {s} : sessions'[x] = sessions[x]
  BY <1>1, <1>10, <1>11 DEF Live
<1>13. /\ polled' = [x \in Started |-> polled'[x]] /\ polled'[s] = more
       /\ \A x \in Started \ {s} : polled'[x] = polled[x]
  BY <1>7 DEF DataInv
<1>14. Sound(ses2, process[s], reader[s], more)
  <2>1. n <= n
    BY <1>5
  <2> QED BY <1>2, <1>3, <1>8, <1>10, <2>1 DEF Sound
<1>15. /\ counter' = counter /\ process' = process /\ reader' = reader
       /\ process \in [Started -> Process] /\ reader \in [Started -> Readers]
       /\ \A st \in Streams : Behind(reader[s][st], process[s].wrote[st])
  BY <1>1 DEF DataInv
<1> QED BY <1>1, <1>10, <1>12, <1>13, <1>14, <1>15, OneChanges

LEMMA KillKeeps ==
    ASSUME DataInv, NEW c, NEW s \in Started, s = call[c].id, Kill(c)
    PROVE  DataInv' /\ Forward
<1>1. /\ s \in Live /\ UNCHANGED <<counter, reader, polled>>
      /\ sessions \in [Live -> Session] /\ sessions[s] \in Session
      /\ process \in [Started -> Process] /\ process[s] \in Process
  BY DEF Kill, DataInv
<1>2. PICK ses2 : ses2 = Killed(sessions[s])
  OBVIOUS
<1>3. /\ ses2 \in Session /\ ses2.buffer = sessions[s].buffer /\ ses2.running = FALSE
      /\ ses2.read_offset = sessions[s].read_offset /\ ses2.child = FALSE
      /\ ses2.exit_code = sessions[s].exit_code
  BY <1>1, <1>2 DEF Session, Killed
<1>4. sessions' = [sessions EXCEPT ![s] = ses2]
  BY <1>2 DEF Kill
<1>5. /\ sessions' \in [Live -> Session] /\ Live' = Live /\ sessions'[s] = ses2
      /\ \A x \in Live \ {s} : sessions'[x] = sessions[x]
  BY <1>1, <1>3, <1>4 DEF Live
<1>6. Sound(sessions[s], process[s], reader[s], polled[s])
  BY <1>1 DEF DataInv
<1>7. PICK p2 : /\ process' = [process EXCEPT ![s] = p2] /\ p2 \in Process
                /\ p2.wrote = process[s].wrote
  <2>1. CASE sessions[s].child
    <3>1. process' = [process EXCEPT ![s].alive = FALSE]
      BY <2>1 DEF Kill
    <3>2. PICK p2 : p2 = [process[s] EXCEPT !.alive = FALSE]
      OBVIOUS
    <3>3. p2 \in Process /\ p2.wrote = process[s].wrote
      BY <1>1, <3>2 DEF Process
    <3>4. process' = [process EXCEPT ![s] = p2]
      BY <3>1, <3>2
    <3> QED BY <3>3, <3>4
  <2>2. CASE ~sessions[s].child
    <3>1. process' = [process EXCEPT ![s] = process[s]]
      BY <1>1, <2>2 DEF Kill
    <3> QED BY <1>1, <3>1
  <2> QED BY <2>1, <2>2
<1>8. /\ process' \in [Started -> Process] /\ process'[s] = p2
      /\ \A x \in Started \ {s} : process'[x] = process[x]
  BY <1>1, <1>7
<1>9. Sound(ses2, p2, reader[s], polled[s])
  <2>1. \A st \in Streams : process[s].wrote[st] <= p2.wrote[st]
    BY <1>1, <1>7, ShellConstants DEF Process
  <2> QED BY <1>1, <1>3, <1>6, <1>7, <2>1, SoundStays
<1>10. \A st \in Streams : Behind(reader[s][st], p2.wrote[st])
  BY <1>7 DEF DataInv
<1>11. /\ reader' = reader /\ polled' = polled /\ counter' = counter /\ reader \in [Started -> Readers]
       /\ polled = [x \in Started |-> polled[x]]
  BY <1>1 DEF DataInv
<1> QED BY <1>1, <1>3, <1>5, <1>7, <1>8, <1>9, <1>10, <1>11, OneChanges

(* The process writes, reads or ends by itself, or gets input.             *)
LEMMA ProcessKeeps ==
    ASSUME DataInv, NEW s \in Started, NEW p2 \in Process, process' = [process EXCEPT ![s] = p2],
           \A st \in Streams : process[s].wrote[st] <= p2.wrote[st],
           UNCHANGED <<sessions, counter, reader, polled>>
    PROVE  DataInv' /\ Forward
<1>1. /\ process \in [Started -> Process] /\ process[s] \in Process /\ sessions \in [Live -> Session]
      /\ reader \in [Started -> Readers] /\ reader[s] \in Readers
      /\ polled = [x \in Started |-> polled[x]]
  BY DEF DataInv
<1>2. /\ process' \in [Started -> Process] /\ process'[s] = p2
      /\ \A x \in Started \ {s} : process'[x] = process[x]
  BY <1>1
<1>3. /\ sessions' = sessions /\ counter' = counter /\ reader' = reader /\ polled' = polled
      /\ Live' = Live
  BY DEF Live
<1>4. \A st \in Streams : Behind(reader[s][st], p2.wrote[st])
  <2> SUFFICES ASSUME NEW st \in Streams PROVE Behind(reader[s][st], p2.wrote[st])
    OBVIOUS
  <2>1. PICK r, w, w2 : r = reader[s][st] /\ w = process[s].wrote[st] /\ w2 = p2.wrote[st]
    OBVIOUS
  <2>2. r.taken \in Nat /\ w \in Nat /\ w2 \in Nat /\ w <= w2
    BY <1>1, <2>1, ShellConstants DEF Readers, Reader, Process
  <2>3. Behind(r, w)
    BY <2>1 DEF DataInv
  <2>4. Behind(r, w2)
    BY <2>2, <2>3 DEF Behind
  <2> QED BY <2>1, <2>4
<1>5. ASSUME s \in Live PROVE Sound(sessions[s], p2, reader[s], polled[s])
  <2>1. Sound(sessions[s], process[s], reader[s], polled[s])
    BY <1>5 DEF DataInv
  <2>2. sessions[s].child <=> sessions[s].running
    BY <2>1 DEF Sound
  <2> QED BY <1>1, <2>1, <2>2, SoundStays
<1> QED BY <1>1, <1>2, <1>3, <1>4, <1>5, OneChanges

LEMMA WritesKeeps ==
    ASSUME DataInv, NEW s \in Started, NEW st \in Streams, Writes(s, st)
    PROVE  DataInv' /\ Forward
<1>1. PICK p, w : p = process[s] /\ w = p.wrote[st] + 1
  OBVIOUS
<1>2. p \in Process /\ p.wrote[st] \in Nat /\ w \in 0..MaxBytes
  BY <1>1, ShellConstants DEF DataInv, Writes, MayWrite, Process
<1>3. PICK p2 : p2 = [p EXCEPT !.wrote = [p.wrote EXCEPT ![st] = w]]
  OBVIOUS
<1>4. /\ p2 \in Process /\ p2.wrote = [p.wrote EXCEPT ![st] = w]
  BY <1>2, <1>3 DEF Process
<1>5. \A x \in Streams : p.wrote[x] <= p2.wrote[x]
  BY <1>1, <1>2, <1>4, ShellConstants DEF Process
<1>6. process' = [process EXCEPT ![s] = p2]
  BY <1>1, <1>3 DEF Writes
<1>7. UNCHANGED <<sessions, counter, reader, polled>>
  BY DEF Writes
<1> QED BY <1>1, <1>4, <1>5, <1>6, <1>7, ProcessKeeps

(* Its input, and its end.                                                 *)
LEMMA ProcessFieldKeeps ==
    ASSUME DataInv, NEW s \in Started, UNCHANGED <<sessions, counter, reader, polled>>,
           \/ process' = [process EXCEPT ![s].alive = FALSE]
           \/ \E n \in 0..PipeSize : process' = [process EXCEPT ![s].stdin = n]
    PROVE  DataInv' /\ Forward
<1>1. process[s] \in Process
  BY DEF DataInv
<1>2. \A st \in Streams : process[s].wrote[st] <= process[s].wrote[st]
  BY <1>1, ShellConstants DEF Process
<1>3. CASE process' = [process EXCEPT ![s].alive = FALSE]
  <2>1. PICK p2 : p2 = [process[s] EXCEPT !.alive = FALSE]
    OBVIOUS
  <2>2. p2 \in Process /\ p2.wrote = process[s].wrote
    BY <1>1, <2>1 DEF Process
  <2>3. process' = [process EXCEPT ![s] = p2]
    BY <1>3, <2>1
  <2>4. \A st \in Streams : process[s].wrote[st] <= p2.wrote[st]
    BY <1>2, <2>2
  <2> QED BY <2>2, <2>3, <2>4, ProcessKeeps
<1>4. ASSUME NEW n \in 0..PipeSize, process' = [process EXCEPT ![s].stdin = n] PROVE DataInv' /\ Forward
  <2>1. PICK p2 : p2 = [process[s] EXCEPT !.stdin = n]
    OBVIOUS
  <2>2. p2 \in Process /\ p2.wrote = process[s].wrote
    BY <1>1, <2>1 DEF Process
  <2>3. process' = [process EXCEPT ![s] = p2]
    BY <1>4, <2>1
  <2>4. \A st \in Streams : process[s].wrote[st] <= p2.wrote[st]
    BY <1>2, <2>2
  <2> QED BY <2>2, <2>3, <2>4, ProcessKeeps
<1> QED BY <1>3, <1>4

----------------------------------------------------------------------------
(* The calls.                                                              *)

(* A call asks of sessions that were started, and removes one that ended.  *)
Goes(x) ==
    /\ x.op \in Asking => x.id \in Started'
    /\ x.op = "reap" /\ x.id \in Live' => ~sessions'[x.id].running

LEMMA CallsStay ==
    ASSUME CallsKnow, Forward, lock' \in Callers \cup {Free}, call' \in [Callers -> Call],
           \A c \in Callers : call'[c] = call[c] \/ Goes(call'[c])
    PROVE  CallsKnow'
<1> SUFFICES ASSUME NEW c \in Callers
             PROVE  /\ call'[c].op \in Asking => call'[c].id \in Started'
                    /\ call'[c].op = "reap" /\ call'[c].id \in Live' =>
                         ~sessions'[call'[c].id].running
  BY DEF CallsKnow
<1>1. CASE call'[c] = call[c]
  <2>1. PICK x : x = call[c]
    OBVIOUS
  <2>2. /\ x.op \in Asking => x.id \in Started
        /\ x.op = "reap" /\ x.id \in Live => ~sessions[x.id].running
    BY <2>1 DEF CallsKnow
  <2>3. x.op = "reap" => x.op \in Asking
    BY DEF Asking
  <2>4. Goes(x)
    BY <2>2, <2>3 DEF Goes, Forward, EndsStay
  <2> QED BY <1>1, <2>1, <2>4 DEF Goes
<1>2. CASE Goes(call'[c])
  BY <1>2 DEF Goes
<1> QED BY <1>1, <1>2

Spawning == {c \in Callers : call[c].op \in {"spawn", "insert"}}

LEMMA Counted ==
    ASSUME DataInv
    PROVE  /\ IsFiniteSet(Live) /\ Cardinality(Live) \in Nat
           /\ IsFiniteSet(Spawning) /\ Cardinality(Spawning) \in Nat
           /\ Cardinality(Spawning) <= Cardinality(Callers) /\ Cardinality(Callers) \in Nat
<1>1. counter \in Nat /\ Live \subseteq 1..counter
  BY ShellConstants DEF DataInv, Started
<1>2. IsFiniteSet(1..counter)
  BY <1>1, FS_Interval
<1>3. IsFiniteSet(Live)
  BY <1>1, <1>2, FS_Subset
<1>4. IsFiniteSet(Callers) /\ Spawning \subseteq Callers
  BY ShellConstants DEF Spawning
<1> QED BY <1>3, <1>4, FS_Subset, FS_CardinalityType

LEMMA SlackIs ==
    LimitSlack <=>
        Cardinality(Live) + Cardinality(Spawning) <= MaxSessions + Cardinality(Callers) - 1
BY DEF LimitSlack, Spawning

LEMMA SlackStays ==
    ASSUME DataInv, LimitSlack, Live' \subseteq Live, Spawning' \subseteq Spawning
    PROVE  LimitSlack'
<1>1. /\ Cardinality(Live') \in Nat /\ Cardinality(Live') <= Cardinality(Live)
      /\ Cardinality(Spawning') \in Nat /\ Cardinality(Spawning') <= Cardinality(Spawning)
  BY Counted, FS_Subset, FS_CardinalityType
<1>2. Cardinality(Live') + Cardinality(Spawning') <= MaxSessions + Cardinality(Callers) - 1
  BY <1>1, Counted, SlackIs, ShellConstants
<1> QED BY <1>2 DEF LimitSlack, Spawning

(* A session that runs and has its handle.                                 *)
InHand(s) == s \in Live /\ sessions[s].running /\ sessions[s].child

(* No process starts, and one that runs on keeps its handle or is lost;    *)
(* polls tell of nothing that is not in the map.                           *)
Calm ==
    /\ Started' = Started /\ lost \subseteq lost' /\ lost' \subseteq Started
    /\ \A s \in Started : process'[s].alive =>
         process[s].alive /\ (InHand(s) => InHand(s)' \/ s \in lost')
    /\ \A s \in Started \ Live : polled'[s] = polled[s]

LEMMA HeldStays ==
    ASSUME Held, Calm,
           \A c \in Callers : call[c].op = "insert" => call'[c] = call[c] \/ call[c].id \in lost'
    PROVE  Held'
<1> SUFFICES ASSUME NEW s \in Started, process'[s].alive
             PROVE  \/ InHand(s)'
                    \/ \E c \in Callers : call'[c] = Op("insert", s)
                    \/ s \in lost'
  BY DEF Held, NoOrphan, Calm, InHand, Op
<1>1. \/ InHand(s)
      \/ \E c \in Callers : call[c] = Op("insert", s)
      \/ s \in lost
  BY DEF Held, NoOrphan, Calm, InHand
<1>2. \A c \in Callers : call[c] = Op("insert", s) => call[c].op = "insert" /\ call[c].id = s
  BY DEF Op
<1> QED BY <1>1, <1>2 DEF Calm

LEMMA FreshStays ==
    ASSUME Fresh, Calm, Live' \subseteq Live,
           \A c \in Callers :
               \/ call'[c] = call[c]
               \/ call'[c].op \notin {"insert", "reap"}
               \/ call'[c].op = "reap" /\ call'[c].id \in Live
    PROVE  Fresh'
<1>1. ASSUME NEW c \in Callers, call'[c].op = "insert"
      PROVE  call'[c] = call[c] /\ call[c].op = "insert" /\ call[c].id \in Started \ Live
  <2>1. call'[c] = call[c]
    BY <1>1
  <2> QED BY <1>1, <2>1 DEF Fresh
<1>2. ASSUME NEW c \in Callers, call'[c].op = "insert"
      PROVE  call'[c].id \in Started' \ Live' /\ polled'[call'[c].id] = <<>>
  BY <1>1, <1>2 DEF Fresh, Calm
<1>3. ASSUME NEW c \in Callers, NEW d \in Callers, c # d, call'[c].op = "insert",
             call'[d].op \in {"insert", "reap"}
      PROVE  call'[d].id # call'[c].id
  BY <1>1, <1>3 DEF Fresh
<1> QED BY <1>2, <1>3 DEF Fresh

(* The calls that do not start a session.                                  *)
LEMMA CallMoves ==
    ASSUME IInv, DataInv', Forward, Calm, Live' \subseteq Live,
           lock' \in Callers \cup {Free}, NEW c \in Callers, NEW x \in Call,
           call' = [call EXCEPT ![c] = x], x.op \notin {"spawn", "insert"}, Goes(x),
           x.op = "reap" => x.id \in Live,
           call[c].op = "insert" => call[c].id \in lost'
    PROVE  IInv'
<1>1. call' \in [Callers -> Call] /\ call'[c] = x /\ \A d \in Callers \ {c} : call'[d] = call[d]
  BY DEF IInv, CallsKnow
<1>2. CallsKnow'
  BY <1>1, CallsStay DEF IInv
<1>3. Spawning' \subseteq Spawning
  BY <1>1 DEF Spawning
<1>4. Held'
  BY <1>1, HeldStays DEF IInv
<1>5. Fresh'
  BY <1>1, FreshStays DEF IInv
<1> QED BY <1>2, <1>3, <1>4, <1>5, SlackStays DEF IInv

LEMMA CallsSame ==
    ASSUME IInv, DataInv', Forward, Calm, Live' \subseteq Live, UNCHANGED <<lock, call>>
    PROVE  IInv'
<1>1. CallsKnow'
  BY CallsStay DEF IInv, CallsKnow
<1>2. Spawning' \subseteq Spawning
  BY DEF Spawning
<1>3. Held' /\ Fresh'
  BY HeldStays, FreshStays DEF IInv
<1> QED BY <1>1, <1>2, <1>3, SlackStays DEF IInv

(* The steps that are calm.                                                *)
LEMMA StillIsCalm ==
    ASSUME IInv, UNCHANGED <<sessions, counter, process, polled>>,
           lost \subseteq lost', lost' \subseteq Started
    PROVE  Calm
BY DEF Calm, InHand, Live, Started

LEMMA ProcessIsCalm ==
    ASSUME IInv, NEW s \in Started, UNCHANGED <<sessions, counter, polled, lost>>,
           \A x \in Started : process'[x].alive => process[x].alive
    PROVE  Calm
BY DEF Calm, InHand, Live, Started, IInv, Held

LEMMA GoneIsCalm ==
    ASSUME IInv, NEW gone, \A s \in gone \cap Live : ~sessions[s].running,
           sessions' = Restrict(sessions, Live \ gone),
           UNCHANGED <<counter, process, polled, lost>>
    PROVE  Calm
<1>1. Live' = Live \ gone /\ \A s \in Live' : sessions'[s] = sessions[s]
  BY DEF Live, Restrict
<1> QED BY <1>1 DEF Calm, InHand, Started, IInv, Held

LEMMA TaskIsCalm ==
    ASSUME IInv, NEW s \in Started, TaskStep(s) \/ WaiterFails(s) \/ Poll(s)
    PROVE  Calm /\ Live' = Live /\ UNCHANGED <<lock, call>>
<1>1. sessions \in [Live -> Session] /\ lost \subseteq Started
  BY DEF IInv, DataInv, Held
<1>2. CASE Waiter(s) \/ WaiterFails(s)
  <2>1. /\ s \in Live /\ Live' = Live /\ \A x \in Live \ {s} : sessions'[x] = sessions[x]
        /\ UNCHANGED <<counter, process, polled, lock, call>>
        /\ lost \subseteq lost' /\ lost' \subseteq Started
        /\ ~process[s].alive \/ s \in lost'
    BY <1>1, <1>2 DEF Waiter, WaiterFails, Live
  <2> QED BY <2>1 DEF Calm, InHand, Started
<1>3. ASSUME NEW st \in Streams, ReaderTakes(s, st)
      PROVE  Calm /\ Live' = Live /\ UNCHANGED <<lock, call>>
  BY <1>1, <1>3, StillIsCalm DEF ReaderTakes, Live
<1>4. ASSUME NEW st \in Streams, ReaderStores(s, st)
      PROVE  Calm /\ Live' = Live /\ UNCHANGED <<lock, call>>
  <2>1. UNCHANGED <<counter, process, polled, lost, lock, call>>
    BY <1>4 DEF ReaderStores
  <2>2. /\ Live' = Live
        /\ \A x \in Live : /\ sessions'[x].running = sessions[x].running
                           /\ sessions'[x].child = sessions[x].child
    <3>1. CASE sessions' = sessions
      BY <3>1 DEF Live
    <3>2. CASE sessions' # sessions
      <4>1. PICK b : s \in Live /\ sessions' = [sessions EXCEPT ![s].buffer = b]
        BY <1>4, <3>2 DEF ReaderStores
      <4> QED BY <1>1, <4>1 DEF Live, Session
    <3> QED BY <3>1, <3>2
  <2> QED BY <1>1, <2>1, <2>2 DEF Calm, InHand, Started
<1>5. CASE Poll(s)
  <2>1. UNCHANGED <<counter, process, lost, lock, call>> /\ s \in Live
    BY <1>5 DEF Poll
  <2>2. PICK n : sessions' = [sessions EXCEPT ![s].read_offset = n]
    BY <1>5 DEF Poll
  <2>3. /\ Live' = Live
        /\ \A x \in Live : /\ sessions'[x].running = sessions[x].running
                           /\ sessions'[x].child = sessions[x].child
    BY <1>1, <2>1, <2>2 DEF Live, Session
  <2>4. \A x \in Started \ Live : polled'[x] = polled[x]
    BY <1>5, <2>1 DEF Poll, IInv, DataInv
  <2> QED BY <1>1, <2>1, <2>3, <2>4 DEF Calm, InHand, Started
<1> QED BY <1>2, <1>3, <1>4, <1>5 DEF TaskStep

LEMMA IdleGoes == Idle \in Call /\ Idle.op \notin {"spawn", "insert", "reap"} /\ Goes(Idle)
BY DEF Idle, Call, Goes, Asking

LEMMA OpGoes ==
    ASSUME NEW s \in Started, Forward, Started \subseteq Ids,
           NEW op \in {"yield", "reap", "kill", "write"},
           op = "reap" => (s \in Live' => ~sessions'[s].running)
    PROVE  /\ Op(op, s) \in Call /\ Op(op, s).op = op /\ Op(op, s).id = s
           /\ op \notin {"spawn", "insert"} /\ Goes(Op(op, s))
BY DEF Op, Call, Goes, Asking, Forward

LEMMA StartedAreIds == DataInv => Started \subseteq Ids
BY ShellConstants DEF DataInv, Started, Ids

LEMMA CheckLimitKeeps ==
    ASSUME IInv, NEW c \in Callers, CheckLimit(c)
    PROVE  IInv'
<1> DEFINE x == [op |-> "spawn"]
<1>1. DataInv' /\ Forward /\ Calm /\ Live' = Live
  BY SessionsStay, StillIsCalm DEF CheckLimit, IInv, Held, Live
<1>2. x \in Call /\ x.op = "spawn"
  BY DEF Call
<1>3. x.op \notin Asking /\ x.op \notin {"insert", "reap"}
  BY <1>2 DEF Asking
<1>4. Goes(x)
  BY <1>3 DEF Goes
<1> HIDE DEF x
<1>5. call' \in [Callers -> Call] /\ call'[c] = x /\ \A d \in Callers \ {c} : call'[d] = call[d]
  BY <1>2 DEF CheckLimit, Goto, IInv, CallsKnow, x
<1>6. CallsKnow'
  BY <1>1, <1>4, <1>5, CallsStay DEF IInv, CallsKnow, CheckLimit
<1>7. LimitSlack'
  <2>1. Live' = Live
    BY DEF CheckLimit, Live
  <2>2. Cardinality(Live) < MaxSessions
    BY DEF CheckLimit, Room
  <2>3. /\ Cardinality(Live') \in Nat /\ Cardinality(Spawning') \in Nat /\ Cardinality(Callers) \in Nat
        /\ Cardinality(Spawning') <= Cardinality(Callers)
    <3>1. Spawning' \subseteq Callers
      BY DEF Spawning
    <3>2. IsFiniteSet(Callers)
      BY ShellConstants
    <3> QED BY <2>1, <3>1, <3>2, Counted, FS_Subset, FS_CardinalityType DEF IInv
  <2>4. Cardinality(Live') + Cardinality(Spawning') <= MaxSessions + Cardinality(Callers) - 1
    BY <2>1, <2>2, <2>3, ShellConstants
  <2> QED BY <2>4 DEF LimitSlack, Spawning
<1>8. \A d \in Callers :
        /\ call[d].op = "insert" => call'[d] = call[d] \/ call[d].id \in lost'
        /\ call'[d] = call[d] \/ call'[d].op \notin {"insert", "reap"}
  <2>1. call[c].op # "insert"
    BY DEF CheckLimit, Idle
  <2> QED BY <1>3, <1>5, <2>1
<1>9. Held' /\ Fresh'
  BY <1>1, <1>8, HeldStays, FreshStays DEF IInv
<1> QED BY <1>1, <1>6, <1>7, <1>9 DEF IInv

LEMMA SpawnCallKeeps ==
    ASSUME IInv, NEW c \in Callers, Spawn(c)
    PROVE  IInv' /\ Forward
<1> DEFINE n == counter + 1
           x == Op("insert", n)
<1>1. /\ DataInv' /\ Forward /\ Live' = Live /\ Started' = Started \cup {n} /\ n \notin Started
      /\ polled'[n] = <<>>
      /\ \A s \in Started : process'[s] = process[s] /\ polled'[s] = polled[s]
      /\ UNCHANGED <<sessions, lock, lost>> /\ n \in Ids
  <2>1. n \in Ids
    BY ShellConstants DEF Spawn, IInv, DataInv, Ids
  <2> QED BY <2>1, SpawnKeeps DEF IInv, Spawn
<1> HIDE DEF n
<1>2. x \in Call /\ x.op = "insert" /\ x.id = n /\ Goes(x)
  BY <1>1 DEF Op, Call, Goes
<1>3. /\ call' \in [Callers -> Call] /\ call'[c] = x
      /\ \A d \in Callers \ {c} : call'[d] = call[d]
  BY <1>2 DEF Spawn, Goto, IInv, CallsKnow, n
<1>4. call[c].op = "spawn"
  BY DEF Spawn
<1>5. CallsKnow'
  BY <1>1, <1>2, <1>3, CallsStay DEF IInv, CallsKnow
<1>6. Fresh'
  <2>1. \A d \in Callers \ {c} : call[d].op \in {"insert", "reap"} => call[d].id \in Started
    BY DEF IInv, CallsKnow, Asking
  <2>2. n \notin Live
    BY <1>1 DEF IInv, DataInv
  <2>3. ASSUME NEW d \in Callers, call'[d].op = "insert"
        PROVE  call'[d].id \in Started' \ Live' /\ polled'[call'[d].id] = <<>>
    BY <1>1, <1>2, <1>3, <2>1, <2>2, <2>3 DEF IInv, Fresh
  <2>4. ASSUME NEW d \in Callers, NEW e \in Callers, d # e, call'[d].op = "insert",
               call'[e].op \in {"insert", "reap"}
        PROVE  call'[e].id # call'[d].id
    <3>1. CASE d = c
      BY <1>1, <1>2, <1>3, <2>1, <2>4, <3>1
    <3>2. CASE e = c
      BY <1>1, <1>2, <1>3, <2>1, <2>4, <3>2
    <3>3. CASE d # c /\ e # c
      BY <1>3, <2>4, <3>3 DEF IInv, Fresh
    <3> QED BY <3>1, <3>2, <3>3
  <2> QED BY <2>3, <2>4 DEF Fresh
<1>7. Held'
  <2>1. ASSUME NEW s \in Started', process'[s].alive
        PROVE  \/ InHand(s)'
               \/ \E d \in Callers : call'[d] = Op("insert", s)
               \/ s \in lost'
    <3>1. CASE s = n
      BY <1>3, <3>1
    <3>2. CASE s # n
      <4>1. s \in Started /\ process[s].alive
        BY <1>1, <2>1, <3>2
      <4>2. InHand(s) => InHand(s)'
        BY <1>1 DEF InHand
      <4>3. call[c] # Op("insert", s)
        BY <1>4 DEF Op
      <4> QED BY <1>1, <1>3, <4>1, <4>2, <4>3 DEF IInv, Held, NoOrphan, InHand
    <3> QED BY <3>1, <3>2
  <2>2. lost' \subseteq Started'
    BY <1>1 DEF IInv, Held
  <2> QED BY <2>1, <2>2 DEF Held, NoOrphan, InHand, Op
<1>8. LimitSlack'
  <2>1. Spawning' \subseteq Spawning
    BY <1>3, <1>4 DEF Spawning
  <2> QED BY <1>1, <2>1, SlackStays DEF IInv
<1> QED BY <1>1, <1>5, <1>6, <1>7, <1>8 DEF IInv

LEMMA InsertCallKeeps ==
    ASSUME IInv, NEW c \in Callers, Background(c) \/ Yield(c)
    PROVE  IInv' /\ EndsStay
<1>1. PICK next : Insert(c, next) /\ next \in {Idle, Op("yield", call[c].id)}
  BY DEF Background, Yield
<1>2. PICK n : n = call[c].id
  OBVIOUS
<1>3. call[c].op = "insert" /\ UNCHANGED <<lock, process, polled, lost>>
  BY <1>1 DEF Insert
<1>4. n \in Started /\ n \notin Live /\ polled[n] = <<>> /\ n \in Ids
  BY <1>2, <1>3, StartedAreIds DEF IInv, Fresh
<1>5. /\ DataInv' /\ EndsStay /\ Live' = Live \cup {n} /\ Started' = Started
      /\ sessions'[n] = NewSession /\ \A s \in Live : sessions'[s] = sessions[s]
  BY <1>1, <1>2, <1>4, InsertKeeps DEF IInv
<1>6. /\ next \in Call /\ next.op \in {"idle", "yield"}
      /\ next.op \in Asking => next.id \in Started'
  <2>1. CASE next = Idle
    BY <2>1 DEF Idle, Call, Asking
  <2>2. CASE next = Op("yield", n)
    BY <1>4, <1>5, <2>2 DEF Op, Call
  <2> QED BY <1>1, <1>2, <2>1, <2>2
<1>7. /\ call' \in [Callers -> Call] /\ call'[c] = next
      /\ \A d \in Callers \ {c} : call'[d] = call[d]
  BY <1>1, <1>6 DEF Insert, Goto, IInv, CallsKnow
<1>8. \A d \in Callers \ {c} : call[d].op \in {"insert", "reap"} => call[d].id # n
  BY <1>2, <1>3 DEF IInv, Fresh
<1>9. CallsKnow'
  <2>1. ASSUME NEW d \in Callers, call'[d].op = "reap", call'[d].id \in Live'
        PROVE  ~sessions'[call'[d].id].running
    <3>1. d # c
      BY <1>6, <1>7, <2>1
    <3>2. call'[d] = call[d] /\ call[d].id \in Live
      BY <1>5, <1>7, <1>8, <2>1, <3>1
    <3> QED BY <1>5, <2>1, <3>2 DEF IInv, CallsKnow
  <2>2. ASSUME NEW d \in Callers, call'[d].op \in Asking PROVE call'[d].id \in Started'
    BY <1>5, <1>6, <1>7, <2>2 DEF IInv, CallsKnow
  <2>3. lock' \in Callers \cup {Free}
    BY <1>3 DEF IInv, CallsKnow
  <2> QED BY <1>7, <2>1, <2>2, <2>3 DEF CallsKnow
<1>10. Fresh'
  <2>1. ASSUME NEW d \in Callers, call'[d].op = "insert"
        PROVE  /\ d # c /\ call'[d] = call[d]
               /\ call'[d].id \in Started' \ Live' /\ polled'[call'[d].id] = <<>>
    <3>1. d # c /\ call'[d] = call[d]
      BY <1>6, <1>7, <2>1
    <3> QED BY <1>3, <1>5, <1>8, <2>1, <3>1 DEF IInv, Fresh
  <2>2. ASSUME NEW d \in Callers, NEW e \in Callers, d # e, call'[d].op = "insert",
               call'[e].op \in {"insert", "reap"}
        PROVE  call'[e].id # call'[d].id
    <3>1. e # c
      BY <1>6, <1>7, <2>2
    <3>2. call'[d] = call[d] /\ call'[e] = call[e]
      BY <1>7, <2>1, <2>2, <3>1
    <3> QED BY <2>2, <3>2 DEF IInv, Fresh
  <2> QED BY <2>1, <2>2 DEF Fresh
<1>11. Held'
  <2>1. ASSUME NEW s \in Started, process[s].alive
        PROVE  \/ InHand(s)'
               \/ \E d \in Callers : call'[d] = Op("insert", s)
               \/ s \in lost
    <3>1. CASE s = n
      BY <1>5, <3>1 DEF InHand, NewSession
    <3>2. CASE s # n
      <4>1. InHand(s) => InHand(s)'
        BY <1>5 DEF InHand
      <4>2. call[c] # Op("insert", s)
        BY <1>2, <3>2 DEF Op
      <4> QED BY <1>7, <2>1, <4>1, <4>2 DEF IInv, Held, NoOrphan, InHand
    <3> QED BY <3>1, <3>2
  <2>2. lost' \subseteq Started'
    BY <1>3, <1>5 DEF IInv, Held
  <2> QED BY <1>3, <1>5, <2>1, <2>2 DEF Held, NoOrphan, InHand, Op
<1>12. LimitSlack'
  <2>1. Cardinality(Live') = Cardinality(Live) + 1
    BY <1>4, <1>5, Counted, FS_AddElement DEF IInv
  <2>2. c \in Spawning /\ Spawning' = Spawning \ {c}
    BY <1>3, <1>6, <1>7 DEF Spawning
  <2>3. Cardinality(Spawning') = Cardinality(Spawning) - 1
    BY <2>2, Counted, FS_RemoveElement DEF IInv
  <2>4. Cardinality(Live') + Cardinality(Spawning') <= MaxSessions + Cardinality(Callers) - 1
    BY <2>1, <2>3, Counted, SlackIs, ShellConstants DEF IInv
  <2> QED BY <2>4 DEF LimitSlack, Spawning
<1> QED BY <1>5, <1>9, <1>10, <1>11, <1>12 DEF IInv

(* The calls that only look at the sessions.                               *)
LEMMA LookingKeeps ==
    ASSUME IInv, NEW c \in Callers,
           UNCHANGED <<sessions, counter, process, reader, polled>>,
           lost \subseteq lost', lost' \subseteq Started,
           call[c].op = "insert" => call[c].id \in lost',
           lock' \in Callers \cup {Free}, NEW x \in Call, x.op \notin {"spawn", "insert"}, Goes(x),
           x.op = "reap" => x.id \in Live,
           call' = [call EXCEPT ![c] = x]
    PROVE  IInv' /\ Forward
<1>1. DataInv' /\ Forward /\ Live' \subseteq Live /\ Calm
  BY SessionsStay, StillIsCalm DEF IInv, Live
<1> QED BY <1>1, CallMoves

LEMMA CallerKeeps ==
    ASSUME IInv, NEW c \in Callers, CallerStep(c)
    PROVE  IInv' /\ EndsStay
<1> DEFINE s == call[c].id
<1>1. /\ DataInv /\ CallsKnow /\ call[c] \in Call /\ lock \in Callers \cup {Free}
      /\ call[c].op \in Asking => s \in Started /\ s \in Ids
      /\ lost \subseteq Started
  BY StartedAreIds DEF IInv, CallsKnow, Held
<1> USE DEF Forward
<1>2. CASE Spawn(c) \/ Background(c) \/ Yield(c)
  BY <1>2, SpawnCallKeeps, InsertCallKeeps
<1>3. CASE SpawnFails(c) \/ YieldGivesId(c) \/ NotFound(c)
  BY <1>1, <1>3, IdleGoes, LookingKeeps DEF SpawnFails, YieldGivesId, NotFound, Return
<1>4. CASE YieldEnded(c)
  <2>1. /\ call[c].op \in Asking /\ call[c].op # "insert" /\ s \in Live /\ ~sessions[s].running
        /\ call' = [call EXCEPT ![c] = Op("reap", s)]
        /\ UNCHANGED <<sessions, counter, lock, process, reader, polled, lost>>
    BY <1>4 DEF YieldEnded, Goto, Asking
  <2>2. Forward
    BY <1>1, <2>1, SessionsStay
  <2>3. /\ Op("reap", s) \in Call /\ Op("reap", s).op \notin {"spawn", "insert"}
        /\ Op("reap", s).id = s /\ Goes(Op("reap", s))
    BY <1>1, <2>1, <2>2, OpGoes, StartedAreIds
  <2> QED BY <1>1, <2>1, <2>3, LookingKeeps
<1>5. CASE YieldReap(c)
  <2>1. /\ call[c].op = "reap" /\ sessions' = Restrict(sessions, Live \ {s})
        /\ call' = [call EXCEPT ![c] = Idle]
        /\ UNCHANGED <<counter, lock, process, reader, polled, lost>>
    BY <1>5 DEF YieldReap, Forget, Return
  <2>2. \A x \in {s} \cap Live : ~sessions[x].running
    BY <2>1 DEF IInv, CallsKnow
  <2>3. DataInv' /\ Forward /\ Calm
    BY <1>1, <2>1, <2>2, EndedGo, GoneIsCalm
  <2>4. Live' \subseteq Live
    BY <2>1 DEF Live, Restrict
  <2> QED BY <1>1, <2>1, <2>3, <2>4, IdleGoes, CallMoves
<1>6. CASE Kill(c)
  <2>1. /\ s \in Started /\ s \in Live /\ call' = [call EXCEPT ![c] = Idle]
        /\ call[c].op = "kill" /\ UNCHANGED <<lock, counter, polled, lost>>
    BY <1>1, <1>6 DEF Kill, Return, Asking
  <2>2. DataInv' /\ Forward
    BY <1>1, <1>6, <2>1, KillKeeps
  <2>3. Live' = Live /\ \A x \in Live \ {s} : sessions'[x] = sessions[x]
    <3>1. sessions' = [sessions EXCEPT ![s] = Killed(sessions[s])]
      BY <1>6 DEF Kill
    <3> QED BY <1>1, <3>1 DEF Live, DataInv
  <2>4. \A x \in Started : process'[x].alive => process[x].alive /\ (x = s => ~sessions[s].child)
    <3>1. CASE sessions[s].child
      BY <1>1, <1>6, <2>1, <3>1 DEF Kill, DataInv, Process
    <3>2. CASE ~sessions[s].child
      BY <1>6, <3>2 DEF Kill
    <3> QED BY <3>1, <3>2
  <2>5. Calm
    BY <1>1, <2>1, <2>3, <2>4 DEF Calm, InHand, Started
  <2> QED BY <1>1, <2>1, <2>2, <2>3, <2>5, IdleGoes, CallMoves
<1>7. CASE WriteBegins(c)
  <2> DEFINE x == [op |-> "writing", id |-> s, left |-> Input]
  <2>1. /\ call[c].op \in Asking /\ call[c].op = "write" /\ lock' = c
        /\ call' = [call EXCEPT ![c] = x]
        /\ UNCHANGED <<sessions, counter, process, reader, polled, lost>>
    BY <1>7 DEF WriteBegins, Goto, Asking
  <2>2. x \in Call
    BY <1>1, <2>1, ShellConstants DEF Call
  <2>3. x.op \notin {"spawn", "insert", "reap"} /\ Goes(x)
    BY <1>1, <2>1 DEF Goes, Started
  <2> HIDE DEF x
  <2> QED BY <1>1, <2>1, <2>2, <2>3, LookingKeeps
<1>8. CASE WriteByte(c)
  <2>1. PICK left : left = call[c].left - 1
    OBVIOUS
  <2>2. /\ call[c].op = "writing" /\ call[c].left > 0 /\ process[s].stdin < PipeSize
        /\ process' = [process EXCEPT ![s].stdin = @ + 1]
        /\ call' = [call EXCEPT ![c].left = left]
        /\ UNCHANGED <<sessions, counter, lock, reader, polled, lost>>
    BY <1>8, <2>1 DEF WriteByte
  <2>3. s \in Started /\ call[c] \in [op : {"writing"}, id : Ids, left : 0..Input]
    BY <1>1, <2>2 DEF Call, Asking, Idle
  <2>4. left \in 0..Input
    BY <2>1, <2>2, <2>3, ShellConstants
  <2>5. PICK x : x = [call[c] EXCEPT !.left = left]
    OBVIOUS
  <2>6. x \in Call /\ x.op = "writing" /\ x.id = s
    BY <2>3, <2>4, <2>5 DEF Call
  <2>7. call' = [call EXCEPT ![c] = x]
    BY <2>2, <2>5
  <2>8. PICK n : n = process[s].stdin + 1
    OBVIOUS
  <2>9. n \in 0..PipeSize /\ process' = [process EXCEPT ![s].stdin = n]
    <3>1. process[s].stdin \in Nat
      BY <1>1, <2>3, ShellConstants DEF DataInv, Process
    <3> QED BY <2>2, <2>8, <3>1, ShellConstants
  <2>10. DataInv' /\ Forward
    BY <1>1, <2>2, <2>3, <2>9, ProcessFieldKeeps
  <2>11. Goes(x) /\ Live' = Live
    BY <2>2, <2>3, <2>6 DEF Goes, Started, Live
  <2>12. Calm
    <3>1. \A y \in Started : process'[y].alive => process[y].alive
      BY <1>1, <2>3, <2>9 DEF DataInv, Process
    <3> QED BY <2>2, <2>3, <3>1, ProcessIsCalm
  <2> QED BY <1>1, <2>2, <2>6, <2>7, <2>10, <2>11, <2>12, CallMoves
<1>9. CASE WriteEnds(c)
  BY <1>1, <1>9, IdleGoes, LookingKeeps DEF WriteEnds, Return
<1> QED BY <1>2, <1>3, <1>4, <1>5, <1>6, <1>7, <1>8, <1>9 DEF CallerStep

LEMMA TaskKeeps ==
    ASSUME IInv, NEW s \in Started, TaskStep(s)
    PROVE  IInv' /\ EndsStay
<1>1. DataInv' /\ Forward
  BY WaiterKeeps, ReaderTakesKeeps, ReaderStoresKeeps DEF TaskStep, IInv
<1> QED BY <1>1, TaskIsCalm, CallsSame DEF Forward

LEMMA EnvironmentKeeps ==
    ASSUME IInv, Environment
    PROVE  IInv' /\ EndsStay
<1> USE DEF Forward
<1> lost \subseteq Started
  BY DEF IInv, Held
<1>1. ASSUME NEW c \in Callers, CheckLimit(c) PROVE IInv' /\ EndsStay
  <2>1. Forward
    BY <1>1, SessionsStay DEF CheckLimit, IInv
  <2> QED BY <1>1, <2>1, CheckLimitKeeps
<1>2. ASSUME NEW c \in Callers, NEW s \in Started, Ask(c, s) PROVE IInv' /\ EndsStay
  <2>1. PICK op \in {"kill", "write"} : call' = [call EXCEPT ![c] = Op(op, s)]
    BY <1>2 DEF Ask, Goto
  <2>2. UNCHANGED <<sessions, counter, lock, process, reader, polled, lost>> /\ call[c].op # "insert"
    BY <1>2 DEF Ask, Idle
  <2>3. Forward
    BY <2>2, SessionsStay DEF IInv
  <2>4. op # "reap" /\ op \in {"yield", "reap", "kill", "write"}
    BY <2>1
  <2>5. Op(op, s) \in Call /\ Op(op, s).op \notin {"spawn", "insert", "reap"} /\ Goes(Op(op, s))
    BY <2>3, <2>4, OpGoes, StartedAreIds DEF IInv
  <2> QED BY <2>1, <2>2, <2>5, LookingKeeps DEF IInv, CallsKnow
<1>3. ASSUME NEW s \in Started, Poll(s) \/ WaiterFails(s) PROVE IInv' /\ EndsStay
  <2>1. DataInv' /\ Forward
    BY <1>3, PollKeeps, WaiterKeeps DEF IInv
  <2> QED BY <1>3, <2>1, TaskIsCalm, CallsSame
<1>4. ASSUME NEW s \in Started, Remove(s) PROVE IInv' /\ EndsStay
  <2>1. /\ \A x \in {s} \cap Live : ~sessions[x].running
        /\ sessions' = Restrict(sessions, Live \ {s})
        /\ UNCHANGED <<counter, lock, process, reader, call, polled, lost>>
    BY <1>4 DEF Remove, Removable, Forget
  <2>2. DataInv' /\ Forward /\ Calm
    BY <2>1, EndedGo, GoneIsCalm DEF IInv
  <2>3. Live' \subseteq Live
    BY <2>1 DEF Live, Restrict
  <2> QED BY <2>1, <2>2, <2>3, CallsSame
<1>5. CASE CleanupOld
  <2>1. PICK old \in SUBSET {s \in Live : ~sessions[s].running} :
          sessions' = Restrict(sessions, Live \ old)
    BY <1>5 DEF CleanupOld
  <2>2. UNCHANGED <<counter, lock, process, reader, call, polled, lost>>
    BY <1>5 DEF CleanupOld
  <2>3. DataInv' /\ Forward /\ Calm
    BY <2>1, <2>2, EndedGo, GoneIsCalm DEF IInv
  <2>4. Live' \subseteq Live
    BY <2>1 DEF Live, Restrict
  <2> QED BY <2>2, <2>3, <2>4, CallsSame
<1>6. ASSUME NEW s \in Started, Reads(s) \/ Exits(s) PROVE IInv' /\ EndsStay
  <2>1. UNCHANGED <<sessions, counter, lock, reader, call, polled, lost>> /\ Live' = Live
    BY <1>6 DEF Reads, Exits, Live
  <2>2. \/ process' = [process EXCEPT ![s].alive = FALSE]
        \/ \E n \in 0..PipeSize : process' = [process EXCEPT ![s].stdin = n]
    <3>1. CASE Exits(s)
      BY <3>1 DEF Exits
    <3>2. CASE Reads(s)
      <4>1. PICK n : n = process[s].stdin - 1
        OBVIOUS
      <4>2. process[s].stdin \in 0..PipeSize
        BY DEF IInv, DataInv, Process
      <4>3. n \in 0..PipeSize /\ process' = [process EXCEPT ![s].stdin = n]
        BY <3>2, <4>1, <4>2, ShellConstants DEF Reads
      <4> QED BY <4>3
    <3> QED BY <1>6, <3>1, <3>2
  <2>3. DataInv' /\ Forward
    BY <2>1, <2>2, ProcessFieldKeeps DEF IInv
  <2>4. \A x \in Started : process'[x].alive => process[x].alive
    BY <2>2 DEF IInv, DataInv, Process
  <2>5. Calm
    BY <2>1, <2>4, ProcessIsCalm
  <2> QED BY <2>1, <2>3, <2>5, CallsSame
<1>7. ASSUME NEW s \in Started, NEW st \in Streams, Writes(s, st) PROVE IInv' /\ EndsStay
  <2>1. UNCHANGED <<sessions, counter, lock, reader, call, polled, lost>> /\ Live' = Live
    BY <1>7 DEF Writes, Live
  <2>2. PICK w : process' = [process EXCEPT ![s].wrote[st] = w]
    BY <1>7 DEF Writes
  <2>3. \A x \in Started : process'[x].alive => process[x].alive
    BY <2>2 DEF IInv, DataInv, Process
  <2>4. Calm
    BY <2>1, <2>3, ProcessIsCalm
  <2> QED BY <1>7, <2>1, <2>4, WritesKeeps, CallsSame DEF IInv
<1>8. ASSUME NEW c \in Callers, KillFails(c) PROVE IInv' /\ EndsStay
  BY <1>8, IdleGoes, LookingKeeps DEF KillFails, Return, IInv, CallsKnow
<1>9. ASSUME NEW c \in Callers, Dropped(c) PROVE IInv' /\ EndsStay
  <2>1. /\ lock' \in Callers \cup {Free} /\ call' = [call EXCEPT ![c] = Idle]
        /\ UNCHANGED <<sessions, counter, process, reader, polled>>
    BY <1>9 DEF Dropped, Return, IInv, CallsKnow
  <2>2. /\ lost \subseteq lost' /\ lost' \subseteq Started
        /\ call[c].op = "insert" => call[c].id \in lost'
    BY <1>9 DEF Dropped, IInv, Fresh
  <2> QED BY <2>1, <2>2, IdleGoes, LookingKeeps
<1> QED BY <1>1, <1>2, <1>3, <1>4, <1>5, <1>6, <1>7, <1>8, <1>9 DEF Environment

LEMMA InitKeeps == Init => IInv
<1> SUFFICES ASSUME Init PROVE IInv
  OBVIOUS
<1>1. Started = {} /\ counter = 0 /\ DOMAIN sessions = {} /\ Live = {}
  BY DEF Init, Started, Live
<1>2. /\ sessions \in [Live -> Session] /\ process \in [Started -> Process]
      /\ reader \in [Started -> Readers] /\ polled = [s \in Started |-> polled[s]]
  BY <1>1 DEF Init
<1>3. DataInv
  BY <1>1, <1>2, ShellConstants DEF DataInv
<1>4. /\ lock = Free /\ call \in [Callers -> Call]
      /\ \A c \in Callers : call[c].op \notin Asking /\ call[c].op \notin {"reap", "spawn", "insert"}
  BY DEF Init, Call, Idle, Asking
<1>5. CallsKnow
  BY <1>4 DEF CallsKnow
<1>6. LimitSlack
  <2>1. Cardinality(Live) = 0
    BY <1>1, FS_EmptySet
  <2>2. Spawning = {}
    BY <1>4 DEF Spawning
  <2>3. Cardinality(Spawning) = 0
    BY <2>2, FS_EmptySet
  <2>4. 0 <= MaxSessions + Cardinality(Callers) - 1
    BY <1>3, Counted, ShellConstants
  <2> QED BY <2>1, <2>3, <2>4, SlackIs
<1>7. Fresh /\ Held
  BY <1>1, <1>4 DEF Fresh, Held, NoOrphan, Init
<1> QED BY <1>3, <1>5, <1>6, <1>7 DEF IInv

LEMMA NextKeeps == IInv /\ [Next]_vars => IInv' /\ EndsStay
<1> SUFFICES ASSUME IInv, [Next]_vars PROVE IInv' /\ EndsStay
  OBVIOUS
<1>1. CASE UNCHANGED vars
  <2>1. DataInv' /\ Forward /\ Live' = Live /\ Calm
    BY <1>1, SessionsStay, StillIsCalm DEF vars, IInv, Live, Held
  <2> QED BY <1>1, <2>1, CallsSame DEF vars, Forward
<1> QED BY <1>1, TaskKeeps, CallerKeeps, EnvironmentKeeps DEF Next

----------------------------------------------------------------------------
(* The results.                                                            *)

LEMMA InvariantHolds == Spec => []IInv
BY InitKeeps, NextKeeps, PTL DEF Spec

(* The types of shell_executor.rs, and that no buffer passes its limit.    *)
THEOREM TypesHold == Spec => []TypeOK
<1>1. IInv => TypeOK
  <2> SUFFICES ASSUME IInv PROVE TypeOK
    OBVIOUS
  <2>1. \A s \in Live : sessions[s] \in Session /\
          \A st \in Streams : Len(sessions[s].buffer[st]) <= MaxOutput
    BY DEF IInv, DataInv, Sound, Kept
  <2>2. \A s \in Started, st \in Streams : reader[s][st] \in Reader
    BY DEF IInv, DataInv, Readers
  <2> QED BY <2>1, <2>2 DEF IInv, DataInv, CallsKnow, Held, TypeOK
<1> QED BY <1>1, InvariantHolds, PTL

(* MAX_SESSIONS is passed by at most one session for every call but one.   *)
THEOREM LimitBendsByCallers == Spec => []LimitSlack
<1>1. IInv => LimitSlack
  BY DEF IInv
<1> QED BY <1>1, InvariantHolds, PTL

(* Every process that runs has its session and its handle, so somebody can *)
(* stop it, or a call that has just started it and waits to insert it; the *)
(* ones that have neither were lost with a dropped call or by try_wait.    *)
THEOREM NobodyIsOrphaned == Spec => []NoOrphan
<1>1. IInv => NoOrphan
  BY DEF IInv, Held
<1> QED BY <1>1, InvariantHolds, PTL

(* The buffers hold what was written, in order, whole while it fits.       *)
THEOREM BuffersFollowPipes == Spec => []OutputKept
<1>1. IInv => OutputKept
  BY DEF IInv, DataInv, Sound, Kept, OutputKept
<1> QED BY <1>1, InvariantHolds, PTL

(* Polls of a single stream return its bytes once and leave none out.      *)
THEOREM PollsAddUp == Spec => []OneStreamPolledOnce
<1>1. IInv => OneStreamPolledOnce
  BY CombinedIs DEF IInv, DataInv, Sound, PolledOf, OneStreamPolledOnce
<1> QED BY <1>1, InvariantHolds, PTL

(* Neither the waiter nor a second kill changes how a session ended.       *)
THEOREM EndsStand == Spec => EndIsFinal
<1>1. IInv /\ [Next]_vars =>
        [\A s \in Live \cap DOMAIN sessions' :
           ~sessions[s].running =>
              ~sessions'[s].running /\ sessions'[s].exit_code = sessions[s].exit_code]_vars
  BY NextKeeps DEF EndsStay, Live
<1> QED BY <1>1, InvariantHolds, PTL DEF Spec, EndIsFinal
=============================================================================
