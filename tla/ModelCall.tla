----------------------------- MODULE ModelCall -----------------------------
(***************************************************************************)
(* A model call from the invoker to the service and back: the fallback     *)
(* loop of model_invoker.rs (complete_with_fallback) around the client of  *)
(* auth/copilot.rs.                                                        *)
(*                                                                         *)
(* All calls share the client: one session token behind a mutex that is    *)
(* held over its exchange for a new one, and one handle that names the     *)
(* default model and may be turned by others at any time.  A call takes    *)
(* the token and the base URL together, lets the mutex go, and posts;      *)
(* by the time it posts again the session may be another's.                *)
(*                                                                         *)
(* The service is external: it issues tokens and answers a post in any way *)
(* at any time, 401 for a token that has not expired among them.  A call   *)
(* may be dropped wherever it waits.  Left out: messages, tools, streamed deltas.         *)
(***************************************************************************)
EXTENDS Naturals, FiniteSets, Sequences, Functions

CONSTANTS
    Callers,      \* calls that may be under way at once
    Models,
    Bases,        \* base URLs a token may name
    None,
    MaxAttempts,  \* MAX_FALLBACK_ATTEMPTS
    Margin,       \* a token this close to its expiry is refreshed
    Lifetimes,    \* how long a token may be said to last
    MaxTokens,    \* bound of the model: tokens the service issues
    MaxTime       \* bound of the model: the clock

ASSUME CallNumbers ==
    /\ MaxAttempts \in Nat \ {0}
    /\ Margin \in Nat /\ Lifetimes \subseteq Nat
    /\ MaxTokens \in Nat /\ MaxTime \in Nat

ASSUME NoneIsNoCaller == None \notin Callers
ASSUME NoneIsNoModel == None \notin Models

(* What an exchange returns, numbered in the order of issue.               *)
Token == [id : 1..MaxTokens, base : Bases, expires : Nat]

ASSUME NoneIsNoToken == None \notin Token

(* Which post of an attempt a call is at: the first, the same again with a *)
(* fresh client, again after 421, after 401, and twice after 5xx.          *)
Post == {"first", "fresh", "redirected", "reauthorized", "later", "last"}

(* What becomes of a post: an answer; a refusal of the model, or any other *)
(* 4xx; 421; 401; 5xx; no connection or no reply in time; a failure of the *)
(* transport that will not go away; a body that cannot be used.            *)
Reply == {"answer", "refusal", "misdirected", "unauthorized", "overloaded",
          "unreachable", "broken", "garbled"}
ClientError == {"refusal", "misdirected", "unauthorized"}

VARIABLES
    session,   \* CopilotAuth: the token in use, or None
    lock,      \* who holds its mutex, or None
    handle,    \* the default model
    call,      \* each call, or None before it is made
    issued,    \* tokens issued
    now

vars == <<session, lock, handle, call, issued, now>>

(* at: where the call waits; wanted: options.model; tried: already_tried;  *)
(* asked: the model of every attempt.                                      *)
Ended == {"answered", "failed"}
Call == [at : {"token", "issue", "store", "compose", "post", "select"} \cup Ended,
         post : Post, wanted : Models \cup {None}, tried : SUBSET Models, asked : Seq(Models),
         token : Token \cup {None}, base : Bases \cup {None}]

ASSUME NoneIsNoCall == None \notin Call

TypeOK ==
    /\ session \in Token \cup {None}
    /\ lock \in Callers \cup {None}
    /\ handle \in Models
    /\ call \in [Callers -> Call \cup {None}]
    /\ issued \in 0..MaxTokens
    /\ now \in 0..MaxTime

Init ==
    /\ session = None
    /\ lock = None
    /\ handle \in Models
    /\ call = [c \in Callers |-> None]
    /\ issued = 0
    /\ now = 0

service == <<issued, now>>

At(c, place) == call[c] # None /\ call[c].at = place

Goes(c, new) == call' = [call EXCEPT ![c] = new]

Asking(m, place) ==
    [at |-> place, post |-> "first", wanted |-> m, tried |-> {m} \ {None}, asked |-> << >>,
     token |-> None, base |-> None]

(* Of a call that has ended only what it asked is kept.                    *)
Over(c, how) == [Asking(None, how) EXCEPT !.asked = call[c].asked]

----------------------------------------------------------------------------
(* complete_with_fallback: a model asked for by name counts as tried.      *)
Begin(c) ==
    /\ call[c] = None
    /\ \E m \in Models \cup {None} : Goes(c, Asking(m, "token"))
    /\ UNCHANGED <<session, lock, handle, service>>

----------------------------------------------------------------------------
(* ensure_fresh_token under the mutex.                                     *)
NeedsRefresh == IF session = None THEN TRUE ELSE now + Margin >= session.expires

(* Mutant: the client is not behind a mutex.                               *)
AlwaysFree == TRUE

MutexFree == lock = None

(* The call has token k.  Before its first post it takes the URL that goes *)
(* with it; after 401 it keeps the one it has.                             *)
TokenTaken(c, k) ==
    IF call[c].post = "first"
    THEN [call[c] EXCEPT !.token = k, !.base = k.base, !.at = "compose"]
    ELSE [call[c] EXCEPT !.token = k, !.at = "post"]

ReuseToken(c) ==
    /\ At(c, "token") /\ MutexFree /\ ~NeedsRefresh
    /\ Goes(c, TokenTaken(c, session))
    /\ UNCHANGED <<session, lock, handle, service>>

(* The mutex is kept while the exchange is under way.                      *)
StartExchange(c) ==
    /\ At(c, "token") /\ MutexFree /\ NeedsRefresh
    /\ lock' = c
    /\ Goes(c, [call[c] EXCEPT !.at = "issue"])
    /\ UNCHANGED <<session, handle, service>>

(* exchange_copilot_token at the service.                                  *)
Issue(c) ==
    /\ At(c, "issue") /\ issued < MaxTokens
    /\ issued' = issued + 1
    /\ \E b \in Bases, l \in Lifetimes :
         Goes(c, [call[c] EXCEPT !.at = "store",
                                 !.token = [id |-> issued + 1, base |-> b, expires |-> now + l]])
    /\ UNCHANGED <<session, lock, handle, now>>

StoreToken(c) ==
    /\ At(c, "store")
    /\ session' = call[c].token
    /\ lock' = None
    /\ Goes(c, TokenTaken(c, call[c].token))
    /\ UNCHANGED <<handle, service>>

(* Mutant: the failed exchange leaves the mutex taken.                     *)
KeepsMutex(c) == UNCHANGED lock

LeavesMutex(c) == lock' = IF lock = c THEN None ELSE lock

(* The exchange is refused, or what it returned is lost or of no use.      *)
ExchangeFails(c) ==
    /\ At(c, "issue") \/ At(c, "store")
    /\ LeavesMutex(c)
    /\ Goes(c, Over(c, "failed"))
    /\ UNCHANGED <<session, handle, service>>

----------------------------------------------------------------------------
(* CopilotModelClient::complete.                                           *)

(* Mutant: the URL is looked up when the request is put together.          *)
CurrentBase(c) == session.base

BaseTaken(c) == call[c].base

(* The default model is read after the mutex is gone.                      *)
Compose(c) ==
    /\ At(c, "compose")
    /\ LET m == IF call[c].wanted = None THEN handle ELSE call[c].wanted
       IN Goes(c, [call[c] EXCEPT !.at = "post", !.base = BaseTaken(c),
                                  !.asked = Append(call[c].asked, m)])
    /\ UNCHANGED <<session, lock, handle, service>>

(* What is posted again, and as which post.  Only the first two posts look *)
(* at 421 and 401, only the first at a failing transport.                  *)
Again(p, r) ==
    CASE p = "first" /\ r = "unreachable" -> "fresh"
      [] p \in {"first", "fresh"} /\ r = "misdirected" -> "redirected"
      [] p \in {"first", "fresh"} /\ r = "unauthorized" -> "reauthorized"
      [] p \in {"first", "fresh"} /\ r = "overloaded" -> "later"
      [] p = "later" /\ r = "overloaded" -> "last"
      [] OTHER -> None

(* After 401 the call asks for the token again, which is a new one only if *)
(* the clock says so.                                                      *)
PostAgain(c) ==
    /\ At(c, "post")
    /\ \E r \in Reply :
         /\ Again(call[c].post, r) # None
         /\ Goes(c, [call[c] EXCEPT !.post = Again(call[c].post, r),
                                       !.at = IF r = "unauthorized" THEN "token" ELSE "post"])
    /\ UNCHANGED <<session, lock, handle, service>>

Answered(c) ==
    /\ At(c, "post")
    /\ Goes(c, Over(c, "answered"))
    /\ UNCHANGED <<session, lock, handle, service>>

(* Neither an answer nor a refusal of the model: the call fails.           *)
PostFails(c) ==
    /\ At(c, "post")
    /\ \E r \in {"overloaded", "unreachable", "broken", "garbled"} : Again(call[c].post, r) = None
    /\ Goes(c, Over(c, "failed"))
    /\ UNCHANGED <<session, lock, handle, service>>

----------------------------------------------------------------------------
(* complete_with_fallback again: NeedsFallback.                            *)

(* Mutant: only models asked for by name count as tried.                   *)
TriedByName(c) == call[c].tried

TriedNow(c) == call[c].tried \cup {call[c].asked[Len(call[c].asked)]}

ModelRefused(c) ==
    /\ At(c, "post")
    /\ \E r \in ClientError : Again(call[c].post, r) = None
    /\ Goes(c, IF Len(call[c].asked) >= MaxAttempts
               THEN Over(c, "failed")
               ELSE [call[c] EXCEPT !.at = "select", !.tried = TriedNow(c)])
    /\ UNCHANGED <<session, lock, handle, service>>

(* select_fallback_model names any model, or none.                         *)
Select(c) ==
    /\ At(c, "select")
    /\ \/ \E m \in Models \ call[c].tried :
            Goes(c, [call[c] EXCEPT !.at = "token", !.post = "first",
                                    !.wanted = m, !.tried = call[c].tried \cup {m}])
       \/ Goes(c, Over(c, "failed"))
    /\ UNCHANGED <<session, lock, handle, service>>

(* Whoever waits for the call gives it up; a mutex it holds is let go.     *)
Drop(c) ==
    /\ call[c] # None /\ call[c].at \notin Ended
    /\ LeavesMutex(c)
    /\ Goes(c, Over(c, "failed"))
    /\ UNCHANGED <<session, handle, service>>

----------------------------------------------------------------------------
(* The others.                                                             *)
SetModel ==
    /\ handle' \in Models \ {handle}
    /\ UNCHANGED <<session, lock, call, service>>

Tick ==
    /\ now < MaxTime
    /\ now' = now + 1
    /\ UNCHANGED <<session, lock, handle, call, issued>>

Step(c) ==
    \/ ReuseToken(c) \/ StartExchange(c) \/ Issue(c) \/ StoreToken(c) \/ ExchangeFails(c)
    \/ Compose(c) \/ PostAgain(c) \/ Answered(c) \/ PostFails(c) \/ ModelRefused(c) \/ Select(c)

Next ==
    \/ \E c \in Callers : Begin(c) \/ Step(c) \/ Drop(c)
    \/ SetModel \/ Tick

Spec == Init /\ [][Next]_vars

(* Every exchange and every post ends, by the timeouts of the HTTP client  *)
(* if not by a reply, and the mutex, which serves its waiters in order, is *)
(* wanted a bounded number of times.                                       *)
FairSpec == Spec /\ \A c \in Callers : WF_vars(Step(c))

----------------------------------------------------------------------------
(* The session only moves on: no call puts back an older token than        *)
(* another has stored meanwhile, and none replaces one that is still good, *)
(* however many calls found it stale (ensure_fresh_token).                 *)
SessionMovesOn ==
    [][session # None /\ session' # session => NeedsRefresh /\ session'.id > session.id]_vars

(* Until it was refused, a token is posted to the URL that came with it,   *)
(* whatever other calls have exchanged since (complete).                   *)
TokenToItsBase ==
    \A c \in Callers :
        At(c, "post") /\ call[c].post # "reauthorized" => call[c].base = call[c].token.base

(* No attempt repeats a model, though the default may change under the     *)
(* call and the selector may name anything, and there are no more than     *)
(* MAX_FALLBACK_ATTEMPTS (complete_with_fallback).                         *)
AskedOnce ==
    \A c \in Callers : call[c] # None =>
        IsInjective(call[c].asked) /\ Len(call[c].asked) <= MaxAttempts

(* Every call ends, though calls wait for the mutex and for one another's  *)
(* exchange, fail or are dropped there (complete).                         *)
CallsEnd ==
    \A c \in Callers : call[c] # None ~> call[c] # None /\ call[c].at \in Ended

(* "401: token may have expired - refresh and retry once": it does not     *)
(* hold, as a token the clock still trusts is posted again.                *)
RefusedTokenReplaced ==
    [][\A c \in Callers :
        At(c, "token") /\ call[c].post = "reauthorized" /\ At(c, "post")' =>
            call'[c].token # call[c].token]_vars
=============================================================================
