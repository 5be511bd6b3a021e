-------------------------- MODULE ModelCallProofs --------------------------
(***************************************************************************)
(* Proofs about ModelCall, for any number of calls, models, tokens and     *)
(* attempts and any clock.                                                 *)
(*                                                                         *)
(* One invariant: the holder of the mutex is the one call at an exchange,  *)
(* so the session it found stale is still the one it replaces and the      *)
(* token it brings is newer; a call's URL came with its token until 401;   *)
(* and all a call has asked is in already_tried before the next model is.  *)
(***************************************************************************)
EXTENDS ModelCall, SequenceTheorems, TLAPS

Exchanging(c) == At(c, "issue") \/ At(c, "store")

SessionIssued == session # None => session.id <= issued

ExchangeSound(c) ==
    /\ Exchanging(c) <=> lock = c
    /\ Exchanging(c) => NeedsRefresh
    /\ At(c, "store") =>
        /\ call[c].token \in Token
        /\ call[c].token.id <= issued
        /\ session # None => session.id < call[c].token.id

PostSound(c) ==
    /\ At(c, "token") \/ Exchanging(c) => call[c].post \in {"first", "reauthorized"}
    /\ At(c, "compose") => call[c].post = "first"
    /\ At(c, "compose") \/ At(c, "post") => call[c].token \in Token
    /\ At(c, "compose") \/ (At(c, "post") /\ call[c].post # "reauthorized") =>
        call[c].base = call[c].token.base

(* An attempt has begun whose model is not among those asked yet.          *)
Beginning(k) == k.at \in {"token", "issue", "store", "compose"} /\ k.post = "first"

AskedSound(k) ==
    /\ IsInjective(k.asked)
    /\ Len(k.asked) <= MaxAttempts
    /\ Beginning(k) =>
        /\ Len(k.asked) < MaxAttempts
        /\ \A i \in 1..Len(k.asked) : k.asked[i] \in k.tried /\ k.asked[i] # k.wanted
        /\ k.wanted = None => k.asked = << >>
    /\ k.at \notin Ended /\ ~Beginning(k) =>
        /\ Len(k.asked) > 0
        /\ \A i \in 1..(Len(k.asked) - 1) : k.asked[i] \in k.tried
    /\ k.at = "select" =>
        /\ Len(k.asked) < MaxAttempts
        /\ \A i \in 1..Len(k.asked) : k.asked[i] \in k.tried

CallSound(c) ==
    /\ ExchangeSound(c)
    /\ PostSound(c)
    /\ call[c] # None => AskedSound(call[c])

CallInv == TypeOK /\ SessionIssued /\ \A c \in Callers : CallSound(c)

----------------------------------------------------------------------------
LEMMA AskingTyped ==
    \A m \in Models \cup {None}, place \in {"token"} \cup Ended : Asking(m, place) \in Call
  BY EmptySeq DEF Asking, Call, Post, Ended

LEMMA OverTyped ==
  ASSUME NEW c, call[c] \in Call, NEW how \in Ended
  PROVE  /\ Over(c, how) \in Call
         /\ Over(c, how).at = how /\ Over(c, how).asked = call[c].asked
<1>1. Asking(None, how) \in Call
  BY AskingTyped
<1> QED
  BY <1>1 DEF Over, Call, Asking

(* A call's own step leaves the other calls sound, unless it changes what  *)
(* they share.                                                             *)
LEMMA OthersKeep ==
  ASSUME CallInv, NEW c \in Callers, NEW k, Goes(c, k),
         UNCHANGED <<session, now>>, issued' >= issued, issued' \in Nat,
         lock' = lock \/ (lock = None /\ lock' = c) \/ (lock = c /\ lock' = None)
  PROVE  \A d \in Callers \ {c} : CallSound(d)'
<1> SUFFICES ASSUME NEW d \in Callers, d # c
             PROVE  CallSound(d)'
  OBVIOUS
<1>1. call'[d] = call[d] /\ (lock' = d <=> lock = d)
  BY NoneIsNoCaller DEF CallInv, TypeOK, Goes
<1>2. CallSound(d)
  BY DEF CallInv
<1>3. At(d, "store") => call[d].token.id \in Nat
  BY <1>2 DEF CallSound, ExchangeSound, Token
<1>4. issued \in Nat
  BY DEF CallInv, TypeOK
<1> QED
  BY <1>1, <1>2, <1>3, <1>4 DEF CallSound, ExchangeSound, PostSound, Exchanging, At, NeedsRefresh

LEMMA InitKeeps == Init => CallInv
<1> SUFFICES ASSUME Init PROVE CallInv
  OBVIOUS
<1>1. TypeOK /\ SessionIssued
  BY CallNumbers DEF Init, TypeOK, SessionIssued
<1>2. \A c \in Callers : CallSound(c)
  BY NoneIsNoCaller DEF Init, CallSound, ExchangeSound, PostSound, Exchanging, At
<1> QED
  BY <1>1, <1>2 DEF CallInv

(* A step of one call that leaves the session alone.                       *)
LEMMA OwnKeeps ==
  ASSUME CallInv, NEW c \in Callers, NEW k \in Call, Goes(c, k),
         UNCHANGED <<session, handle, now>>, issued' >= issued, issued' \in 0..MaxTokens,
         lock' = lock \/ (lock = None /\ lock' = c) \/ (lock = c /\ lock' = None),
         CallSound(c)'
  PROVE  CallInv'
<1>1. \A d \in Callers : CallSound(d)'
  BY OthersKeep, CallNumbers
<1>2. call' \in [Callers -> Call \cup {None}]
  BY DEF CallInv, TypeOK, Goes
<1>3. lock' \in Callers \cup {None}
  BY DEF CallInv, TypeOK
<1>4. SessionIssued'
  BY CallNumbers DEF CallInv, TypeOK, SessionIssued, Token
<1> QED
  BY <1>1, <1>2, <1>3, <1>4 DEF CallInv, TypeOK

LEMMA BeginKeeps ==
  ASSUME CallInv, NEW c \in Callers, Begin(c)
  PROVE  CallInv'
<1>1. PICK m \in Models \cup {None} : Goes(c, Asking(m, "token"))
  BY DEF Begin
<1> DEFINE k == Asking(m, "token")
<1>2. k \in Call
  BY AskingTyped
<1>3. call[c] = None /\ call'[c] = k /\ k # None
  BY <1>1, <1>2, NoneIsNoCall DEF Begin, CallInv, TypeOK, Goes
<1>4. CallSound(c)'
  <2>1. AskedSound(k)
    BY CallNumbers DEF AskedSound, Asking, IsInjective, Beginning, Ended
  <2>2. lock # c
    BY <1>3 DEF CallInv, CallSound, ExchangeSound, Exchanging, At
  <2>3. At(c, "token")' /\ call'[c].post = "first"
    BY <1>3 DEF At, Asking
  <2> QED
    BY <1>3, <2>1, <2>2, <2>3 DEF CallSound, ExchangeSound, PostSound, Exchanging, At, Begin, Asking
<1> QED
  BY <1>1, <1>2, <1>4, OwnKeeps DEF Begin, service, CallInv, TypeOK

(* The token a call leaves the mutex with.                                 *)
LEMMA TakenSound ==
  ASSUME CallInv, NEW c \in Callers, At(c, "token") \/ At(c, "store"),
         NEW k \in Token, Goes(c, TokenTaken(c, k)), lock' # c
  PROVE  CallSound(c)' /\ TokenTaken(c, k) \in Call
<1>1. call[c] \in Call /\ call[c] # None /\ k.base \in Bases
  BY DEF CallInv, TypeOK, At, Token
<1>2. CallSound(c)
  BY DEF CallInv
<1>3. call'[c] = TokenTaken(c, k) /\ TokenTaken(c, k) \in Call
  BY <1>1 DEF CallInv, TypeOK, Goes, TokenTaken, Call
<1>4. call'[c] # None
  BY <1>3, NoneIsNoCall
<1>5. call[c].post \in {"first", "reauthorized"}
  BY <1>2 DEF CallSound, PostSound, Exchanging
<1>6. CASE call[c].post = "first"
  <2>1. call'[c] = [call[c] EXCEPT !.token = k, !.base = k.base, !.at = "compose"]
    BY <1>3, <1>6 DEF TokenTaken
  <2>2. /\ call'[c].at = "compose" /\ call'[c].post = "first"
        /\ call'[c].token = k /\ call'[c].base = k.base
        /\ call'[c].asked = call[c].asked /\ call'[c].tried = call[c].tried
        /\ call'[c].wanted = call[c].wanted
    BY <2>1, <1>1, <1>6 DEF Call
  <2>3. AskedSound(call[c]) /\ Beginning(call[c])
    BY <1>1, <1>2, <1>6 DEF CallSound, Beginning, At
  <2>4. AskedSound(call'[c])
    BY <2>2, <2>3 DEF AskedSound, Beginning, Ended
  <2> QED
    BY <1>3, <1>4, <2>2, <2>4 DEF CallSound, ExchangeSound, PostSound, Exchanging, At
<1>7. CASE call[c].post = "reauthorized"
  <2>1. call'[c] = [call[c] EXCEPT !.token = k, !.at = "post"]
    BY <1>3, <1>7 DEF TokenTaken
  <2>2. /\ call'[c].at = "post" /\ call'[c].post = "reauthorized"
        /\ call'[c].token = k
        /\ call'[c].asked = call[c].asked /\ call'[c].tried = call[c].tried
        /\ call'[c].wanted = call[c].wanted
    BY <2>1, <1>1, <1>7 DEF Call
  <2>3. AskedSound(call[c]) /\ ~Beginning(call[c]) /\ call[c].at \notin Ended
    BY <1>1, <1>2, <1>7 DEF CallSound, Beginning, At, Ended
  <2>4. AskedSound(call'[c])
    BY <2>2, <2>3 DEF AskedSound, Beginning, Ended
  <2> QED
    BY <1>3, <1>4, <2>2, <2>4 DEF CallSound, ExchangeSound, PostSound, Exchanging, At
<1> QED
  BY <1>3, <1>5, <1>6, <1>7

LEMMA ReuseTokenKeeps ==
  ASSUME CallInv, NEW c \in Callers, ReuseToken(c)
  PROVE  CallInv'
<1>1. session \in Token
  BY DEF ReuseToken, NeedsRefresh, CallInv, TypeOK
<1>2. PICK k \in Token : k = session
  BY <1>1
<1>3. lock' # c
  BY NoneIsNoCaller DEF ReuseToken, MutexFree
<1>4. CallSound(c)' /\ TokenTaken(c, k) \in Call
  BY <1>2, <1>3, TakenSound DEF ReuseToken
<1>5. PICK new \in Call : new = TokenTaken(c, k)
  BY <1>4
<1>6. Goes(c, new)
  BY <1>2, <1>5 DEF ReuseToken
<1> QED
  BY <1>4, <1>6, OwnKeeps DEF ReuseToken, service, CallInv, TypeOK

LEMMA StartExchangeKeeps ==
  ASSUME CallInv, NEW c \in Callers, StartExchange(c)
  PROVE  CallInv'
<1>1. call[c] \in Call /\ call[c] # None
  BY DEF StartExchange, At, CallInv, TypeOK
<1>2. PICK new \in Call : new = [call[c] EXCEPT !.at = "issue"]
  BY <1>1 DEF Call
<1>3. call'[c] = new /\ new # None /\ Goes(c, new)
  BY <1>2, NoneIsNoCall DEF StartExchange, CallInv, TypeOK, Goes
<1>4. /\ new.at = "issue" /\ new.post = call[c].post
      /\ new.asked = call[c].asked /\ new.tried = call[c].tried /\ new.wanted = call[c].wanted
  BY <1>1, <1>2 DEF Call
<1>5. CallSound(c)
  BY DEF CallInv
<1>6. AskedSound(new)
  BY <1>1, <1>4, <1>5 DEF CallSound, AskedSound, Beginning, Ended, StartExchange, At
<1>7. NeedsRefresh'
  BY DEF StartExchange, NeedsRefresh, service
<1>8. CallSound(c)'
  BY <1>1, <1>3, <1>4, <1>5, <1>6, <1>7
     DEF CallSound, ExchangeSound, PostSound, Exchanging, At, StartExchange
<1> QED
  BY <1>3, <1>8, OwnKeeps DEF StartExchange, MutexFree, service, CallInv, TypeOK

LEMMA IssueKeeps ==
  ASSUME CallInv, NEW c \in Callers, Issue(c)
  PROVE  CallInv'
<1>1. call[c] \in Call /\ call[c] # None
  BY DEF Issue, At, CallInv, TypeOK
<1>2. PICK b \in Bases, l \in Lifetimes :
        Goes(c, [call[c] EXCEPT !.at = "store",
                                !.token = [id |-> issued + 1, base |-> b, expires |-> now + l]])
  BY DEF Issue
<1>3. [id |-> issued + 1, base |-> b, expires |-> now + l] \in Token
  BY CallNumbers DEF Token, CallInv, TypeOK, Issue
<1>4. PICK t \in Token : t = [id |-> issued + 1, base |-> b, expires |-> now + l]
  BY <1>3
<1>5. PICK new \in Call : new = [call[c] EXCEPT !.at = "store", !.token = t]
  BY <1>1 DEF Call
<1>6. call'[c] = new /\ new # None /\ Goes(c, new)
  BY <1>2, <1>4, <1>5, NoneIsNoCall DEF CallInv, TypeOK, Goes
<1>7. /\ new.at = "store" /\ new.post = call[c].post /\ new.token = t
      /\ new.asked = call[c].asked /\ new.tried = call[c].tried /\ new.wanted = call[c].wanted
  BY <1>1, <1>5 DEF Call
<1>8. CallSound(c)
  BY DEF CallInv
<1>9. AskedSound(new)
  BY <1>1, <1>7, <1>8 DEF CallSound, AskedSound, Beginning, Ended, Issue, At
<1>10. NeedsRefresh' /\ lock' = c
  BY <1>8 DEF Issue, NeedsRefresh, CallSound, ExchangeSound, Exchanging
<1>11. t.id = issued' /\ (session # None => session.id < t.id) /\ issued' \in 0..MaxTokens
  BY <1>4, CallNumbers DEF Issue, CallInv, TypeOK, SessionIssued, Token
<1>12. CallSound(c)'
  BY <1>1, <1>6, <1>7, <1>8, <1>9, <1>10, <1>11
     DEF CallSound, ExchangeSound, PostSound, Exchanging, At, Issue
<1> QED
  BY <1>6, <1>11, <1>12, OwnKeeps, CallNumbers DEF Issue, CallInv, TypeOK

LEMMA StoreTokenKeeps ==
  ASSUME CallInv, NEW c \in Callers, StoreToken(c)
  PROVE  CallInv'
<1>1. CallSound(c) /\ lock = c
  BY DEF StoreToken, CallInv, CallSound, ExchangeSound, Exchanging
<1>2. PICK k \in Token : k = call[c].token
  BY <1>1 DEF StoreToken, CallSound, ExchangeSound
<1>3. session' = k /\ lock' = None /\ Goes(c, TokenTaken(c, k)) /\ k.id <= issued
  BY <1>1, <1>2 DEF StoreToken, CallSound, ExchangeSound
<1>4. CallSound(c)' /\ TokenTaken(c, k) \in Call
  BY <1>3, TakenSound, NoneIsNoCaller DEF StoreToken
<1>5. ASSUME NEW d \in Callers, d # c
      PROVE  CallSound(d)'
  <2>1. call'[d] = call[d] /\ lock # d /\ lock' # d
    BY <1>1, <1>3, <1>5, NoneIsNoCaller DEF CallInv, TypeOK, Goes
  <2>2. CallSound(d) /\ ~Exchanging(d)
    BY <2>1 DEF CallInv, CallSound, ExchangeSound
  <2> QED
    BY <2>1, <2>2 DEF CallSound, ExchangeSound, PostSound, Exchanging, At
<1>6. TypeOK'
  BY <1>3, <1>4 DEF StoreToken, CallInv, TypeOK, Goes, service
<1>7. SessionIssued'
  BY <1>3 DEF SessionIssued, StoreToken, service
<1> QED
  BY <1>4, <1>5, <1>6, <1>7 DEF CallInv

LEMMA OverKeeps ==
  ASSUME CallInv, NEW c \in Callers, call[c] # None, NEW how \in Ended,
         Goes(c, Over(c, how)), LeavesMutex(c), UNCHANGED <<session, handle, service>>
  PROVE  CallInv'
<1>1. call[c] \in Call
  BY DEF CallInv, TypeOK
<1>2. PICK new \in Call : new = Over(c, how)
  BY <1>1, OverTyped
<1>3. new.at = how /\ new.asked = call[c].asked
  BY <1>1, <1>2, OverTyped
<1>4. call'[c] = new /\ new # None /\ Goes(c, new)
  BY <1>2, NoneIsNoCall DEF CallInv, TypeOK, Goes
<1>5. AskedSound(new)
  BY <1>3 DEF CallInv, CallSound, AskedSound, Beginning, Ended
<1>6. lock' # c
  BY NoneIsNoCaller DEF LeavesMutex
<1>7. CallSound(c)'
  BY <1>3, <1>4, <1>5, <1>6 DEF CallSound, ExchangeSound, PostSound, Exchanging, At, Ended
<1> QED
  BY <1>4, <1>7, OwnKeeps DEF LeavesMutex, service, CallInv, TypeOK

LEMMA ComposeKeeps ==
  ASSUME CallInv, NEW c \in Callers, Compose(c)
  PROVE  CallInv'
<1>1. call[c] \in Call /\ call[c] # None
  BY DEF Compose, At, CallInv, TypeOK
<1>2. CallSound(c) /\ AskedSound(call[c])
  BY <1>1 DEF CallInv, CallSound
<1> DEFINE ask == IF call[c].wanted = None THEN handle ELSE call[c].wanted
<1>3. PICK m \in Models : m = ask
  BY <1>1 DEF CallInv, TypeOK, Call
<1>4. PICK asked \in Seq(Models) : asked = Append(call[c].asked, m)
  <2>1. call[c].asked \in Seq(Models)
    BY <1>1 DEF Call
  <2> QED
    BY <2>1, AppendProperties
<1>5. PICK new \in Call : new = [call[c] EXCEPT !.at = "post", !.base = BaseTaken(c), !.asked = asked]
  BY <1>1 DEF Call, BaseTaken
<1>6. call'[c] = new /\ new # None /\ Goes(c, new)
  BY <1>3, <1>4, <1>5, NoneIsNoCall DEF Compose, CallInv, TypeOK, Goes
<1>7. /\ new.at = "post" /\ new.post = call[c].post
      /\ new.token = call[c].token /\ new.base = call[c].base
      /\ new.asked = asked /\ new.tried = call[c].tried
  BY <1>1, <1>5 DEF Call, BaseTaken
<1>8. AskedSound(new)
  <2> DEFINE old == call[c].asked
  <2>1. Beginning(call[c]) /\ old \in Seq(Models)
    BY <1>1, <1>2 DEF CallSound, PostSound, Beginning, Compose, At, Call
  <2>2. /\ Len(asked) = Len(old) + 1 /\ asked[Len(old) + 1] = m
        /\ \A i \in 1..Len(old) : asked[i] = old[i]
        /\ DOMAIN asked = 1..(Len(old) + 1)
    BY <1>4, <2>1
  <2>3. /\ IsInjective(old) /\ Len(old) < MaxAttempts
        /\ \A i \in 1..Len(old) : old[i] \in call[c].tried
    BY <1>2, <2>1 DEF AskedSound
  <2>4. \A i \in 1..Len(old) : old[i] # m
    <3>1. CASE call[c].wanted = None
      BY <1>2, <2>1, <3>1 DEF AskedSound
    <3>2. CASE call[c].wanted # None
      BY <1>2, <1>3, <2>1, <3>2 DEF AskedSound
    <3> QED
      BY <3>1, <3>2
  <2>5. Len(old) \in Nat /\ DOMAIN old = 1..Len(old)
    BY <2>1
  <2>6. ASSUME NEW a \in DOMAIN asked, NEW b \in DOMAIN asked, asked[a] = asked[b]
        PROVE  a = b
    <3>1. /\ a \in 1..Len(old) \/ a = Len(old) + 1
          /\ b \in 1..Len(old) \/ b = Len(old) + 1
      BY <2>2, <2>5
    <3>2. CASE a \in 1..Len(old) /\ b \in 1..Len(old)
      BY <2>2, <2>3, <2>6, <2>5, <3>2 DEF IsInjective
    <3>3. ASSUME a \in 1..Len(old), b = Len(old) + 1
          PROVE  FALSE
      <4>1. asked[a] = old[a] /\ asked[b] = m
        BY <2>2, <3>3
      <4> QED
        BY <2>4, <2>6, <3>3, <4>1
    <3>4. ASSUME b \in 1..Len(old), a = Len(old) + 1
          PROVE  FALSE
      <4>1. asked[b] = old[b] /\ asked[a] = m
        BY <2>2, <3>4
      <4> QED
        BY <2>4, <2>6, <3>4, <4>1
    <3> QED
      BY <3>1, <3>2, <3>3, <3>4
  <2>7. IsInjective(asked)
    BY <2>6 DEF IsInjective
  <2> QED
    BY <1>7, <2>2, <2>3, <2>5, <2>7, CallNumbers DEF AskedSound, Beginning
<1>9. CallSound(c)'
  BY <1>1, <1>2, <1>6, <1>7, <1>8
     DEF CallSound, ExchangeSound, PostSound, Exchanging, At, Compose
<1> QED
  BY <1>6, <1>9, OwnKeeps DEF Compose, service, CallInv, TypeOK

LEMMA PostAgainKeeps ==
  ASSUME CallInv, NEW c \in Callers, PostAgain(c)
  PROVE  CallInv'
<1>1. call[c] \in Call /\ call[c] # None /\ call[c].at = "post"
  BY DEF PostAgain, At, CallInv, TypeOK
<1>2. CallSound(c) /\ AskedSound(call[c])
  BY <1>1 DEF CallInv, CallSound
<1>3. PICK r \in Reply :
        /\ Again(call[c].post, r) # None
        /\ Goes(c, [call[c] EXCEPT !.post = Again(call[c].post, r),
                                   !.at = IF r = "unauthorized" THEN "token" ELSE "post"])
  BY DEF PostAgain
<1>4. PICK p \in Post : p = Again(call[c].post, r)
  BY <1>1, <1>3 DEF Again, Post, Call
<1>5. /\ call[c].post # "reauthorized" /\ p # "first"
      /\ p = "reauthorized" <=> r = "unauthorized"
  BY <1>3, <1>4 DEF Again
<1>6. PICK at \in {"token", "post"} : at = IF r = "unauthorized" THEN "token" ELSE "post"
  OBVIOUS
<1>7. PICK new \in Call : new = [call[c] EXCEPT !.post = p, !.at = at]
  BY <1>1 DEF Call
<1>8. call'[c] = new /\ new # None /\ Goes(c, new)
  BY <1>3, <1>4, <1>6, <1>7, NoneIsNoCall DEF CallInv, TypeOK, Goes
<1>9. /\ new.at = at /\ new.post = p
      /\ new.token = call[c].token /\ new.base = call[c].base
      /\ new.asked = call[c].asked /\ new.tried = call[c].tried
  BY <1>1, <1>7 DEF Call
<1>10. AskedSound(new)
  BY <1>1, <1>2, <1>5, <1>6, <1>9 DEF AskedSound, Beginning, Ended
<1>11. CallSound(c)'
  BY <1>1, <1>2, <1>5, <1>6, <1>8, <1>9, <1>10
     DEF CallSound, ExchangeSound, PostSound, Exchanging, At, PostAgain
<1> QED
  BY <1>8, <1>11, OwnKeeps DEF PostAgain, service, CallInv, TypeOK

LEMMA PostOverKeeps ==
  ASSUME CallInv, NEW c \in Callers, NEW how \in Ended,
         At(c, "post") \/ At(c, "select"), Goes(c, Over(c, how)),
         UNCHANGED <<session, lock, handle, service>>
  PROVE  CallInv'
<1>1. call[c] # None /\ lock # c
  BY DEF At, CallInv, CallSound, ExchangeSound, Exchanging
<1> QED
  BY <1>1, OverKeeps DEF LeavesMutex

LEMMA ModelRefusedKeeps ==
  ASSUME CallInv, NEW c \in Callers, ModelRefused(c)
  PROVE  CallInv'
<1>1. call[c] \in Call /\ call[c] # None /\ call[c].at = "post"
  BY DEF ModelRefused, At, CallInv, TypeOK
<1>2. CallSound(c) /\ AskedSound(call[c])
  BY <1>1 DEF CallInv, CallSound
<1>3. CASE Len(call[c].asked) >= MaxAttempts
  BY <1>3, PostOverKeeps DEF ModelRefused, Ended
<1>4. CASE ~(Len(call[c].asked) >= MaxAttempts)
  <2>1. Len(call[c].asked) > 0 /\ call[c].asked \in Seq(Models)
    BY <1>1, <1>2 DEF AskedSound, Beginning, Ended, Call
  <2>2. PICK tried \in SUBSET Models : tried = TriedNow(c)
    <3>1. call[c].asked[Len(call[c].asked)] \in Models
      BY <2>1, ElementOfSeq
    <3>2. call[c].tried \in SUBSET Models
      BY <1>1 DEF Call
    <3> QED
      BY <3>1, <3>2 DEF TriedNow
  <2>3. PICK new \in Call : new = [call[c] EXCEPT !.at = "select", !.tried = tried]
    BY <1>1 DEF Call
  <2>4. call'[c] = new /\ new # None /\ Goes(c, new)
    BY <1>4, <2>2, <2>3, NoneIsNoCall DEF ModelRefused, CallInv, TypeOK, Goes
  <2>5. /\ new.at = "select" /\ new.post = call[c].post
        /\ new.asked = call[c].asked /\ new.tried = tried
    BY <1>1, <2>3 DEF Call
  <2>6. \A i \in 1..Len(call[c].asked) : call[c].asked[i] \in tried
    BY <1>1, <1>2, <2>1, <2>2 DEF AskedSound, Beginning, Ended, TriedNow
  <2>7. AskedSound(new)
    BY <1>2, <1>4, <2>1, <2>5, <2>6, CallNumbers DEF AskedSound, Beginning, Ended
  <2>8. CallSound(c)'
    BY <1>1, <1>2, <2>4, <2>5, <2>7
       DEF CallSound, ExchangeSound, PostSound, Exchanging, At, ModelRefused
  <2> QED
    BY <2>4, <2>8, OwnKeeps DEF ModelRefused, service, CallInv, TypeOK
<1> QED
  BY <1>3, <1>4

LEMMA SelectKeeps ==
  ASSUME CallInv, NEW c \in Callers, Select(c)
  PROVE  CallInv'
<1>1. call[c] \in Call /\ call[c] # None /\ call[c].at = "select"
  BY DEF Select, At, CallInv, TypeOK
<1>2. CallSound(c) /\ AskedSound(call[c])
  BY <1>1 DEF CallInv, CallSound
<1>3. CASE Goes(c, Over(c, "failed"))
  BY <1>3, PostOverKeeps DEF Select, Ended
<1>4. ASSUME NEW m \in Models \ call[c].tried,
             Goes(c, [call[c] EXCEPT !.at = "token", !.post = "first", !.wanted = m,
                                     !.tried = call[c].tried \cup {m}])
      PROVE  CallInv'
  <2>1. PICK tried \in SUBSET Models : tried = call[c].tried \cup {m}
    BY <1>1 DEF Call
  <2>2. PICK new \in Call : new = [call[c] EXCEPT !.at = "token", !.post = "first",
                                                  !.wanted = m, !.tried = tried]
    BY <1>1 DEF Call, Post
  <2>3. call'[c] = new /\ new # None /\ Goes(c, new)
    BY <1>4, <2>1, <2>2, NoneIsNoCall DEF CallInv, TypeOK, Goes
  <2>4. /\ new.at = "token" /\ new.post = "first" /\ new.wanted = m
        /\ new.asked = call[c].asked /\ new.tried = tried
    BY <1>1, <2>2 DEF Call
  <2>5. AskedSound(new)
    BY <1>1, <1>2, <2>1, <2>4, NoneIsNoModel DEF AskedSound, Beginning, Ended
  <2>6. CallSound(c)'
    BY <1>1, <1>2, <2>3, <2>4, <2>5
       DEF CallSound, ExchangeSound, PostSound, Exchanging, At, Select
  <2>7. UNCHANGED <<session, lock, handle, now>> /\ issued' = issued /\ issued \in 0..MaxTokens
    BY DEF Select, service, CallInv, TypeOK
  <2>8. issued' >= issued
    BY <2>7, CallNumbers
  <2> QED
    BY <2>3, <2>6, <2>7, <2>8, OwnKeeps
<1> QED
  BY <1>3, <1>4 DEF Select

LEMMA EnvironmentKeeps ==
  ASSUME CallInv, SetModel \/ Tick \/ UNCHANGED vars
  PROVE  CallInv'
<1>1. UNCHANGED <<session, lock, call, issued>> /\ now' \in 0..MaxTime /\ now' >= now
  BY CallNumbers DEF SetModel, Tick, vars, service, CallInv, TypeOK
<1>2. handle' \in Models
  BY DEF SetModel, Tick, vars, CallInv, TypeOK
<1>3. NeedsRefresh => NeedsRefresh'
  BY <1>1, CallNumbers DEF NeedsRefresh, CallInv, TypeOK, Token
<1>4. \A d \in Callers : CallSound(d)'
  BY <1>1, <1>3 DEF CallInv, CallSound, ExchangeSound, PostSound, Exchanging, At
<1> QED
  BY <1>1, <1>2, <1>4 DEF CallInv, TypeOK, SessionIssued

LEMMA StepKeeps ==
  ASSUME CallInv, [Next]_vars
  PROVE  CallInv'
<1>1. ASSUME NEW c \in Callers, Begin(c) \/ Step(c) \/ Drop(c)
      PROVE  CallInv'
  <2>1. CASE ExchangeFails(c)
    BY <2>1, OverKeeps DEF ExchangeFails, At, Ended
  <2>2. CASE Answered(c)
    BY <2>2, PostOverKeeps DEF Answered, Ended
  <2>3. CASE PostFails(c)
    BY <2>3, PostOverKeeps DEF PostFails, Ended
  <2>4. CASE Drop(c)
    BY <2>4, OverKeeps DEF Drop, Ended
  <2> QED
    BY <1>1, <2>1, <2>2, <2>3, <2>4, BeginKeeps, ReuseTokenKeeps, StartExchangeKeeps, IssueKeeps,
       StoreTokenKeeps, ComposeKeeps, PostAgainKeeps, ModelRefusedKeeps, SelectKeeps DEF Step
<1>2. CASE SetModel \/ Tick \/ UNCHANGED vars
  BY <1>2, EnvironmentKeeps
<1> QED
  BY <1>1, <1>2 DEF Next

LEMMA Invariance == Spec => []CallInv
<1>1. Init => CallInv
  BY InitKeeps
<1>2. CallInv /\ [Next]_vars => CallInv'
  BY StepKeeps
<1> QED
  BY <1>1, <1>2, PTL DEF Spec

----------------------------------------------------------------------------
(* Every variable keeps its shape.                                         *)
THEOREM TypeCorrect == Spec => []TypeOK
<1>1. CallInv => TypeOK
  BY DEF CallInv
<1> QED
  BY <1>1, Invariance, PTL

(* Until it was refused, a token goes to the URL it came with (complete).  *)
THEOREM TokensStayPaired == Spec => []TokenToItsBase
<1>1. CallInv => TokenToItsBase
  BY DEF CallInv, CallSound, PostSound, TokenToItsBase
<1> QED
  BY <1>1, Invariance, PTL

(* No model is asked in two attempts of one call, and there are at most    *)
(* MAX_FALLBACK_ATTEMPTS (complete_with_fallback).                         *)
THEOREM ModelsAskedOnce == Spec => []AskedOnce
<1>1. CallInv => AskedOnce
  BY DEF CallInv, CallSound, AskedSound, AskedOnce
<1> QED
  BY <1>1, Invariance, PTL

(* A session is replaced only by a newer one, and only when it is stale    *)
(* (ensure_fresh_token).                                                   *)
THEOREM SessionsMoveOn == Spec => SessionMovesOn
<1>1. CallInv /\ [Next]_vars =>
        [session # None /\ session' # session => NeedsRefresh /\ session'.id > session.id]_vars
  <2> SUFFICES ASSUME CallInv, Next, session # None, session' # session
               PROVE  NeedsRefresh /\ session'.id > session.id
    BY DEF vars
  <2>1. PICK c \in Callers : StoreToken(c)
    BY DEF Next, Step, Begin, ReuseToken, StartExchange, Issue, ExchangeFails, Compose, PostAgain,
           Answered, PostFails, ModelRefused, Select, Drop, SetModel, Tick
  <2>2. ExchangeSound(c)
    BY DEF CallInv, CallSound
  <2> QED
    BY <2>1, <2>2 DEF ExchangeSound, Exchanging, StoreToken, CallInv, TypeOK, Token
<1> QED
  BY <1>1, Invariance, PTL DEF Spec, SessionMovesOn
=============================================================================
