----------------------------- MODULE CredsCache -----------------------------
(***************************************************************************)
(* The credential caches of client/creds.go and the account credentials of *)
(* client/vk_account.go: several streams ask for TURN credentials, one     *)
(* fetch runs at a time and not too soon after the last, the workers of a  *)
(* stream invalidate its cache on auth errors, and the phone app answers   *)
(* requests for account credentials on stdin.                              *)
(*                                                                         *)
(* Credentials are represented by the link they were issued for.  What an  *)
(* anonymous fetch does is in VkFetch.                                     *)
(***************************************************************************)
EXTENDS Naturals, FiniteSets

CONSTANTS
  Streams,   \* callers of GetCreds, each with a cache of its own (getCacheID)
  Links,     \* VK call links
  LinksOf,   \* [Streams -> the links a stream asks for]
  Checks,    \* the streams of runHashChecks, whose calls have 90 s
  AuthMode,  \* "anonymous" or "account"
  MaxErrors, \* maxCacheErrors
  Workers,   \* [Streams -> how many of its workers may be in invalidate] (model only)
  None       \* no link, no stream

ASSUME CredsAssumption ==
  /\ LinksOf \in [Streams -> SUBSET Links]
  /\ AuthMode \in {"anonymous", "account"}
  /\ MaxErrors \in Nat \ {0} /\ Workers \in [Streams -> Nat] /\ Checks \subseteq Streams
  /\ None \notin Links /\ None \notin Streams

VARIABLES
  ctx,       \* cancelled
  pc,        \* [Streams -> where its GetCreds is]
  want,      \* [Streams -> the link it asks for]
  got,       \* [Streams -> the credentials of its last call]
  cache,     \* [Streams -> its cache: the Link, and the credentials]
  expired,   \* [Streams -> the cached credentials are past ExpiresAt]
  errors,    \* [Streams -> errorCount]
  flushing,  \* [Streams -> how many workers wait in invalidate for the mutex]
  fetcher,   \* the stream that holds vkRequestMu
  tooSoon,   \* globalLastVkFetchTime is less than minInterval ago
  recent,    \* history: the last fetch ended less than minInterval ago
  injected,  \* injectedCredsByLink: [Links -> credentials or None]
  asked,     \* the links the app has been asked for and has not answered
  arriving,  \* the link on the stdin line being handled
  answer     \* TurnCredsResultChan: a link, "cancelled" or None

caches == <<cache, expired, errors, flushing>>
account == <<injected, asked, arriving, answer>>
throttle == <<fetcher, tooSoon, recent>>
vars == <<ctx, pc, want, got, caches, throttle, account>>

(* Where a stream holds the cache's mutex, and where it fetches.           *)
Holding == {"queue", "throttle", "fetch", "ask", "wait"}
Fetching == {"fetch", "ask", "wait"}
Busy == {"look", "lock"} \cup Holding

Empty == [link |-> None, creds |-> None]

Goto(s, where) == pc' = [pc EXCEPT ![s] = where]

Return(s, creds) ==
  /\ Goto(s, "idle")
  /\ got' = [got EXCEPT ![s] = creds]

-----------------------------------------------------------------------------
(* getVkCredsCached.                                                       *)

Call(s, link) ==
  /\ pc[s] = "idle" /\ link \in LinksOf[s]
  /\ Goto(s, "look")
  /\ want' = [want EXCEPT ![s] = link]
  /\ UNCHANGED <<ctx, got, caches, throttle, account>>

HitAnyLink(s) == cache[s].link # None /\ ~expired[s]

Hit(s) == cache[s].link = want[s] /\ ~expired[s]

(* Under the read lock, then again under the lock; nobody writes the cache *)
(* of an idle stream but invalidate, which a step does at once.            *)
Look(s) ==
  /\ pc[s] = "look"
  /\ IF Hit(s) THEN Return(s, cache[s].creds) ELSE Goto(s, "lock") /\ UNCHANGED got
  /\ UNCHANGED <<ctx, want, caches, throttle, account>>

Lock(s) ==
  /\ pc[s] = "lock"
  /\ IF Hit(s) THEN Return(s, cache[s].creds) ELSE Goto(s, "queue") /\ UNCHANGED got
  /\ UNCHANGED <<ctx, want, caches, throttle, account>>

-----------------------------------------------------------------------------
(* fetchVkCredsSerialized.                                                 *)

QueueUnserialized(s) ==
  /\ pc[s] = "queue"
  /\ Goto(s, "throttle")
  /\ fetcher' = s
  /\ UNCHANGED <<ctx, want, got, caches, tooSoon, recent, account>>

Queue(s) ==
  /\ pc[s] = "queue" /\ fetcher = None
  /\ Goto(s, "throttle")
  /\ fetcher' = s
  /\ UNCHANGED <<ctx, want, got, caches, tooSoon, recent, account>>

(* The wait ends with the call's ctx, and then without a fetch.            *)
Throttle(s) ==
  /\ pc[s] = "throttle"
  /\ \/ ~tooSoon /\ Goto(s, IF AuthMode = "account" THEN "ask" ELSE "fetch")
        /\ UNCHANGED <<got, fetcher>>
     \/ tooSoon /\ (ctx \/ s \in Checks) /\ Return(s, None) /\ fetcher' = None
  /\ UNCHANGED <<ctx, want, caches, tooSoon, recent, account>>

ThrottleEnds ==
  /\ recent
  /\ tooSoon' = FALSE /\ recent' = FALSE
  /\ UNCHANGED <<ctx, pc, want, got, caches, fetcher, account>>

StampNothing == UNCHANGED tooSoon

(* The deferred globalLastVkFetchTime, good or failed.                     *)
Stamp == tooSoon' = TRUE

(* Released are vkRequestMu and the cache's mutex.                         *)
FetchReturns(s) ==
  /\ fetcher' = None
  /\ Stamp /\ recent' = TRUE

Succeeds(s, creds) ==
  /\ Return(s, creds)
  /\ cache' = [cache EXCEPT ![s] = [link |-> want[s], creds |-> creds]]
  /\ expired' = [expired EXCEPT ![s] = FALSE]
  /\ FetchReturns(s)
  /\ UNCHANGED <<errors, flushing>>

Fails(s) ==
  /\ Return(s, None)
  /\ FetchReturns(s)
  /\ UNCHANGED caches

(* An anonymous fetch.                                                     *)
Fetch(s) ==
  /\ pc[s] = "fetch"
  /\ (~ctx /\ Succeeds(s, want[s])) \/ Fails(s)
  /\ UNCHANGED <<ctx, want, account>>

-----------------------------------------------------------------------------
(* fetchAccountVkCreds and the app that answers.                           *)

(* Injected credentials, or the app is asked: the channel is drained, and  *)
(* VK_AUTH_REQUIRED printed.                                               *)
AskAccount(s) ==
  /\ pc[s] = "ask"
  /\ IF injected[want[s]] # None
       THEN Succeeds(s, injected[want[s]]) /\ UNCHANGED account
       ELSE /\ Goto(s, "wait")
            /\ answer' = None
            /\ asked' = asked \cup {want[s]}
            /\ UNCHANGED <<got, caches, throttle, injected, arriving>>
  /\ UNCHANGED <<ctx, want>>

(* The payload names no link: it is injected for the one asked for.        *)
TakeAnswer(s) ==
  /\ pc[s] = "wait" /\ answer # None
  /\ answer' = None
  /\ IF answer = "cancelled" THEN Fails(s) /\ UNCHANGED injected
     ELSE Succeeds(s, answer) /\ injected' = [injected EXCEPT ![want[s]] = answer]
  /\ UNCHANGED <<ctx, want, asked, arriving>>

WaitTimesOutNever(s) ==
  /\ pc[s] = "wait" /\ ctx
  /\ Fails(s)
  /\ UNCHANGED <<ctx, want, account>>

(* After five minutes, or with ctx.                                        *)
WaitTimesOut(s) ==
  /\ pc[s] = "wait"
  /\ Fails(s)
  /\ UNCHANGED <<ctx, want, account>>

(* The app answers when it likes (external): a TURN_CREDS line is injected *)
(* first.                                                                  *)
AppAnswers(link) ==
  /\ link \in asked /\ arriving = None
  /\ asked' = asked \ {link}
  /\ injected' = [injected EXCEPT ![link] = link]
  /\ arriving' = link
  /\ UNCHANGED <<ctx, pc, want, got, caches, throttle, answer>>

(* TURN_CREDS|error: says nothing of the link.                             *)
AppRefuses(link) ==
  /\ link \in asked /\ arriving = None
  /\ asked' = asked \ {link}
  /\ arriving' = "cancelled"
  /\ UNCHANGED <<ctx, pc, want, got, caches, throttle, injected, answer>>

(* Drained, and sent.                                                      *)
PassAnswer ==
  /\ arriving # None
  /\ answer' = arriving
  /\ arriving' = None
  /\ UNCHANGED <<ctx, pc, want, got, caches, throttle, injected, asked>>

InjectedExpires(link) ==
  /\ injected[link] # None
  /\ injected' = [injected EXCEPT ![link] = None]
  /\ UNCHANGED <<ctx, pc, want, got, caches, throttle, asked, arriving, answer>>

-----------------------------------------------------------------------------
(* handleAuthError, by any worker of the stream.                           *)

TooMany(n) == n >= MaxErrors

(* Errors more than errorWindow after the last start a new count.          *)
AuthError(s) ==
  /\ flushing[s] < Workers[s]
  /\ \E before \in {0, errors[s]} :
       /\ errors' = [errors EXCEPT ![s] = before + 1]
       /\ flushing' = [flushing EXCEPT ![s] = IF TooMany(before + 1) THEN @ + 1 ELSE @]
  /\ UNCHANGED <<ctx, pc, want, got, cache, expired, throttle, account>>

(* invalidate waits for the mutex, for as long as the fetch takes.         *)
Invalidate(s) ==
  /\ flushing[s] > 0 /\ pc[s] \notin Holding
  /\ cache' = [cache EXCEPT ![s] = Empty]
  /\ errors' = [errors EXCEPT ![s] = 0]
  /\ flushing' = [flushing EXCEPT ![s] = @ - 1]
  /\ UNCHANGED <<ctx, pc, want, got, expired, throttle, account>>

(* A group's refreshCreds invalidates before it calls, what is injected    *)
(* as well.                                                                *)
Refresh(s) ==
  /\ pc[s] = "idle" /\ s \notin Checks /\ LinksOf[s] = {want[s]}
  /\ cache' = [cache EXCEPT ![s] = Empty]
  /\ errors' = [errors EXCEPT ![s] = 0]
  /\ injected' = IF AuthMode = "account" THEN [injected EXCEPT ![want[s]] = None]
                 ELSE injected
  /\ Goto(s, "look")
  /\ UNCHANGED <<ctx, want, got, expired, flushing, throttle, asked, arriving, answer>>

(* A successful allocation.                                                *)
Allocated(s) ==
  /\ errors[s] > 0
  /\ errors' = [errors EXCEPT ![s] = 0]
  /\ UNCHANGED <<ctx, pc, want, got, cache, expired, flushing, throttle, account>>

Expire(s) ==
  /\ ~expired[s] /\ cache[s] # Empty
  /\ expired' = [expired EXCEPT ![s] = TRUE]
  /\ UNCHANGED <<ctx, pc, want, got, cache, errors, flushing, throttle, account>>

Cancel ==
  /\ ~ctx
  /\ ctx' = TRUE
  /\ UNCHANGED <<pc, want, got, caches, throttle, account>>

-----------------------------------------------------------------------------
Init ==
  /\ ctx = FALSE
  /\ pc = [s \in Streams |-> "idle"]
  /\ want = [s \in Streams |-> None]
  /\ got = [s \in Streams |-> None]
  /\ cache = [s \in Streams |-> Empty]
  /\ expired = [s \in Streams |-> FALSE]
  /\ errors = [s \in Streams |-> 0]
  /\ flushing = [s \in Streams |-> 0]
  /\ fetcher = None
  /\ tooSoon = FALSE /\ recent = FALSE
  /\ injected = [l \in Links |-> None]
  /\ asked = {}
  /\ arriving = None
  /\ answer = None

Next ==
  \/ \E s \in Streams :
       \/ \E link \in Links : Call(s, link)
       \/ Look(s) \/ Lock(s) \/ Queue(s) \/ Throttle(s) \/ Fetch(s)
       \/ AskAccount(s) \/ TakeAnswer(s) \/ WaitTimesOut(s)
       \/ AuthError(s) \/ Invalidate(s) \/ Refresh(s) \/ Allocated(s) \/ Expire(s)
  \/ \E link \in Links : AppAnswers(link) \/ AppRefuses(link) \/ InjectedExpires(link)
  \/ ThrottleEnds \/ PassAnswer \/ Cancel

Spec == Init /\ [][Next]_vars

(* A goroutine that can go on does; timers and VK's requests end.  A Go    *)
(* mutex is handed to the waiter that has starved, so it is strongly fair. *)
(* Nothing is assumed of the app, of the workers or of a Cancel.           *)
Fairness ==
  /\ \A s \in Streams :
       /\ WF_vars(Look(s)) /\ WF_vars(Lock(s)) /\ SF_vars(Queue(s))
       /\ WF_vars(Throttle(s)) /\ WF_vars(Fetch(s)) /\ WF_vars(AskAccount(s))
       /\ WF_vars(TakeAnswer(s) \/ WaitTimesOut(s)) /\ SF_vars(Invalidate(s))
  /\ WF_vars(ThrottleEnds)

FairSpec == Spec /\ Fairness

-----------------------------------------------------------------------------
(* Properties.                                                             *)

Credentials == Links \cup {None}

TypeOK ==
  /\ ctx \in BOOLEAN /\ tooSoon \in BOOLEAN /\ recent \in BOOLEAN
  /\ pc \in [Streams -> {"idle"} \cup Busy]
  /\ want \in [Streams -> Credentials] /\ got \in [Streams -> Credentials]
  /\ cache \in [Streams -> [link : Credentials, creds : Credentials]]
  /\ expired \in [Streams -> BOOLEAN]
  /\ errors \in [Streams -> Nat]
  /\ \A s \in Streams : errors[s] <= MaxErrors + Workers[s]
  /\ flushing \in [Streams -> Nat] /\ \A s \in Streams : flushing[s] <= Workers[s]
  /\ fetcher \in Streams \cup {None}
  /\ injected \in [Links -> Credentials]
  /\ asked \in SUBSET Links
  /\ arriving \in Credentials \cup {"cancelled"}
  /\ answer \in Credentials \cup {"cancelled"}

(* However many groups, checks and refreshes want credentials, one of them *)
(* talks to VK or to the app at a time (creds.go:282-288).                 *)
OneFetchAtATime ==
  \A s \in Streams : pc[s] \in Fetching \cup {"throttle"} => fetcher = s

(* No fetch begins within the throttle's interval of the end of another,   *)
(* of this or another stream, good or failed (creds.go:290-305).           *)
FetchesSpaced ==
  [][\A s \in Streams : pc[s] = "throttle" /\ pc'[s] \in Fetching => ~recent]_vars

(* The credentials an anonymous call returns are of the link it asked for, *)
(* though a stream with several links has one cache for them               *)
(* (creds.go:244, 259; main.go:65 and 415).                                *)
RightCreds ==
  AuthMode = "anonymous" => \A s \in Streams : pc[s] = "idle" => got[s] \in {want[s], None}

(* A call returns: no stream waits for ever for another's fetch, nor for   *)
(* an app that does not answer (creds.go:285, vk_account.go:198).          *)
EveryCallReturns ==
  \A s \in Streams : pc[s] \in Busy ~> pc[s] = "idle"

(* A worker whose auth errors are one too many gets out of invalidate,     *)
(* with the cache emptied, although the mutex is held for a whole fetch    *)
(* (creds.go:161-163).                                                     *)
AuthErrorsAreHeard ==
  \A s \in Streams : flushing[s] > 0 ~> cache[s] = Empty

=============================================================================
