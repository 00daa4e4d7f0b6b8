-------------------------- MODULE CredsCacheProofs --------------------------
(***************************************************************************)
(* The safety properties of the credential caches, for any number of       *)
(* streams, links and workers.  A fetch belongs to the stream that holds   *)
(* vkRequestMu, the throttle's clock runs at least as long as the interval *)
(* that is to be kept, and what is cached was issued for the link it is    *)
(* cached under.                                                           *)
(***************************************************************************)
EXTENDS CredsCache, TLAPS

(* The workers in invalidate are those whose error was one too many.       *)
CountsFit == \A s \in Streams : errors[s] < MaxErrors + flushing[s]

ThrottleCovers == recent => tooSoon

IssuedForItsLink ==
  AuthMode = "anonymous" =>
    \A s \in Streams : cache[s].creds = cache[s].link /\ pc[s] \notin {"ask", "wait"}

AsksForALink == \A s \in Streams : pc[s] \in Busy => want[s] \in Links

IInv ==
  /\ TypeOK
  /\ AsksForALink
  /\ CountsFit
  /\ OneFetchAtATime
  /\ ThrottleCovers
  /\ IssuedForItsLink
  /\ RightCreds

-----------------------------------------------------------------------------
(* Types and counts.                                                       *)

LEMMA LinkTypes ==
  ASSUME NEW s \in Streams, NEW link \in LinksOf[s]
  PROVE  link \in Credentials
  BY CredsAssumption DEF Credentials

(* A fetch that succeeds leaves credentials in the cache.                  *)
LEMMA SucceedsType ==
  ASSUME TypeOK, CountsFit, NEW s \in Streams, NEW c \in Credentials, Succeeds(s, c),
         UNCHANGED <<ctx, want, asked>>,
         injected' \in [Links -> Credentials],
         arriving' \in Credentials \cup {"cancelled"}, answer' \in Credentials \cup {"cancelled"}
  PROVE  TypeOK' /\ CountsFit'
<1>1. pc' \in [Streams -> {"idle"} \cup Busy] /\ got' \in [Streams -> Credentials]
  BY DEF TypeOK, Succeeds, Return, Goto
<1>2. [link |-> want[s], creds |-> c] \in [link : Credentials, creds : Credentials]
  BY DEF TypeOK
<1>3. /\ cache' \in [Streams -> [link : Credentials, creds : Credentials]]
      /\ expired' \in [Streams -> BOOLEAN]
  BY <1>2 DEF TypeOK, Succeeds
<1>4. fetcher' \in Streams \cup {None} /\ tooSoon' \in BOOLEAN /\ recent' \in BOOLEAN
  BY DEF Succeeds, FetchReturns, Stamp
<1>5. UNCHANGED <<errors, flushing>>
  BY DEF Succeeds
<1>6. QED
  BY <1>1, <1>3, <1>4, <1>5 DEF TypeOK, CountsFit

LEMMA FailsType ==
  ASSUME TypeOK, CountsFit, NEW s \in Streams, Fails(s),
         UNCHANGED <<ctx, want, asked, injected, arriving>>,
         answer' \in Credentials \cup {"cancelled"}
  PROVE  TypeOK' /\ CountsFit'
<1>1. pc' \in [Streams -> {"idle"} \cup Busy] /\ got' \in [Streams -> Credentials]
  BY DEF TypeOK, Fails, Return, Goto, Credentials
<1>2. fetcher' \in Streams \cup {None} /\ tooSoon' \in BOOLEAN /\ recent' \in BOOLEAN
  BY DEF Fails, FetchReturns, Stamp
<1>3. UNCHANGED <<cache, expired, errors, flushing>>
  BY DEF Fails, caches
<1>4. QED
  BY <1>1, <1>2, <1>3 DEF TypeOK, CountsFit

LEMMA CallTypes ==
  ASSUME TypeOK, CountsFit, NEW s \in Streams,
         (\E link \in Links : Call(s, link)) \/ Look(s) \/ Lock(s) \/ Queue(s) \/ Throttle(s)
  PROVE  TypeOK' /\ CountsFit'
<1>1. /\ UNCHANGED <<ctx, cache, expired, errors, flushing, recent, tooSoon>>
      /\ UNCHANGED <<injected, asked, arriving, answer>>
  BY DEF Call, Look, Lock, Queue, Throttle, caches, account, throttle
<1>2. pc' \in [Streams -> {"idle"} \cup Busy]
  BY DEF TypeOK, Call, Look, Lock, Queue, Throttle, Return, Goto, Busy, Holding
<1>3. want' \in [Streams -> Credentials]
  BY LinkTypes DEF TypeOK, Call, Look, Lock, Queue, Throttle
<1>4. got' \in [Streams -> Credentials]
  <2>1. cache[s].creds \in Credentials /\ None \in Credentials
    BY DEF TypeOK, Credentials
  <2>2. QED
    BY <2>1 DEF TypeOK, Call, Look, Lock, Queue, Throttle, Return
<1>5. fetcher' \in Streams \cup {None}
  BY DEF TypeOK, Call, Look, Lock, Queue, Throttle, throttle
<1>6. QED
  BY <1>1, <1>2, <1>3, <1>4, <1>5 DEF TypeOK, CountsFit

LEMMA FetchTypes ==
  ASSUME TypeOK, CountsFit, AsksForALink, NEW s \in Streams,
         Fetch(s) \/ AskAccount(s) \/ TakeAnswer(s) \/ WaitTimesOut(s)
  PROVE  TypeOK' /\ CountsFit'
<1>1. want[s] \in Credentials
  BY DEF TypeOK
<1>2. CASE Fetch(s)
  BY <1>1, <1>2, SucceedsType, FailsType DEF Fetch, account, TypeOK
<1>3. CASE AskAccount(s)
  <2>1. want[s] \in Links
    BY <1>3 DEF AskAccount, AsksForALink, Busy, Holding
  <2>2. CASE injected[want[s]] # None
    <3>1. injected[want[s]] \in Credentials /\ Succeeds(s, injected[want[s]])
      BY <1>3, <2>1, <2>2 DEF AskAccount, TypeOK
    <3>2. QED
      BY <1>3, <2>2, <3>1, SucceedsType DEF AskAccount, account, TypeOK
  <2>3. CASE injected[want[s]] = None
    <3>1. /\ answer' = None /\ asked' = asked \cup {want[s]}
          /\ pc' = [pc EXCEPT ![s] = "wait"]
          /\ UNCHANGED <<ctx, want, got, caches, throttle, injected, arriving>>
      BY <1>3, <2>3 DEF AskAccount, Goto
    <3>2. pc' \in [Streams -> {"idle"} \cup Busy]
      BY <3>1 DEF TypeOK, Busy, Holding
    <3>3. asked' \in SUBSET Links /\ answer' \in Credentials \cup {"cancelled"}
      BY <2>1, <3>1 DEF TypeOK, Credentials
    <3>4. QED
      BY <3>1, <3>2, <3>3 DEF TypeOK, CountsFit, caches, throttle
  <2>4. QED
    BY <2>2, <2>3
<1>4. CASE TakeAnswer(s)
  <2>1. None \in Credentials
    BY DEF Credentials
  <2>2. CASE answer = "cancelled"
    BY <1>4, <2>1, <2>2, FailsType DEF TakeAnswer
  <2>3. CASE answer # "cancelled"
    <3>1. answer \in Credentials
      BY <2>3 DEF TypeOK
    <3>2. injected' \in [Links -> Credentials]
      BY <1>4, <2>3, <3>1 DEF TakeAnswer, TypeOK
    <3>3. QED
      BY <1>4, <2>1, <2>3, <3>1, <3>2, SucceedsType DEF TakeAnswer, TypeOK
  <2>4. QED
    BY <2>2, <2>3
<1>5. CASE WaitTimesOut(s)
  BY <1>5, FailsType DEF WaitTimesOut, account, TypeOK
<1>6. QED
  BY <1>2, <1>3, <1>4, <1>5

(* The steps of the app, the clocks and the client's end.                  *)
LEMMA AroundTypes ==
  ASSUME TypeOK, CountsFit,
         \/ \E link \in Links : AppAnswers(link) \/ AppRefuses(link) \/ InjectedExpires(link)
         \/ ThrottleEnds \/ PassAnswer \/ Cancel
  PROVE  TypeOK' /\ CountsFit'
<1>1. UNCHANGED <<pc, want, got, cache, expired, errors, flushing, fetcher>>
  BY DEF AppAnswers, AppRefuses, InjectedExpires, ThrottleEnds, PassAnswer, Cancel, caches, throttle
<1>2. ctx' \in BOOLEAN /\ tooSoon' \in BOOLEAN /\ recent' \in BOOLEAN
  BY DEF TypeOK, AppAnswers, AppRefuses, InjectedExpires, ThrottleEnds, PassAnswer, Cancel, throttle
<1>3. injected' \in [Links -> Credentials]
  BY DEF TypeOK, AppAnswers, AppRefuses, InjectedExpires, ThrottleEnds, PassAnswer, Cancel,
         account, Credentials
<1>4. /\ asked' \in SUBSET Links
      /\ arriving' \in Credentials \cup {"cancelled"}
      /\ answer' \in Credentials \cup {"cancelled"}
  BY DEF TypeOK, AppAnswers, AppRefuses, InjectedExpires, ThrottleEnds, PassAnswer, Cancel,
         account, Credentials
<1>5. QED
  BY <1>1, <1>2, <1>3, <1>4 DEF TypeOK, CountsFit

(* A worker is counted in invalidate in the step that makes its error one  *)
(* too many, so the count never gets further ahead than by those.          *)
LEMMA ErrorTypes ==
  ASSUME TypeOK, CountsFit, NEW s \in Streams, AuthError(s)
  PROVE  TypeOK' /\ CountsFit'
<1>1. PICK before \in {0, errors[s]} :
        /\ errors' = [errors EXCEPT ![s] = before + 1]
        /\ flushing' = [flushing EXCEPT ![s] = IF TooMany(before + 1) THEN @ + 1 ELSE @]
  BY DEF AuthError
<1>2. /\ before \in Nat /\ before <= errors[s] /\ errors[s] \in Nat /\ flushing[s] \in Nat
      /\ flushing[s] < Workers[s] /\ Workers[s] \in Nat /\ MaxErrors \in Nat \ {0}
      /\ errors[s] < MaxErrors + flushing[s]
  <2>1. /\ errors[s] \in Nat /\ flushing[s] \in Nat
        /\ flushing[s] < Workers[s] /\ errors[s] < MaxErrors + flushing[s]
    BY DEF AuthError, TypeOK, CountsFit
  <2>2. Workers[s] \in Nat /\ MaxErrors \in Nat \ {0}
    BY CredsAssumption
  <2>3. before \in Nat /\ before <= errors[s]
    BY <1>1, <2>1
  <2>4. QED
    BY <2>1, <2>2, <2>3
<1>3. errors' \in [Streams -> Nat] /\ flushing' \in [Streams -> Nat]
  BY <1>1, <1>2 DEF TypeOK
<1>4. errors'[s] < MaxErrors + flushing'[s] /\ flushing'[s] <= Workers[s]
  <2>1. errors'[s] = before + 1
    BY <1>1 DEF TypeOK
  <2>2. CASE before + 1 >= MaxErrors
    <3>1. flushing'[s] = flushing[s] + 1
      BY <1>1, <2>2 DEF TypeOK, TooMany
    <3>2. QED
      BY <1>2, <2>1, <3>1
  <2>3. CASE ~(before + 1 >= MaxErrors)
    <3>1. flushing'[s] = flushing[s]
      BY <1>1, <2>3 DEF TypeOK, TooMany
    <3>2. QED
      BY <1>2, <2>1, <2>3, <3>1
  <2>4. QED
    BY <2>2, <2>3
<1>5. \A t \in Streams \ {s} : errors'[t] = errors[t] /\ flushing'[t] = flushing[t]
  BY <1>1 DEF TypeOK
<1>6. CountsFit' /\ \A t \in Streams : flushing'[t] <= Workers[t]
  BY <1>4, <1>5 DEF CountsFit, TypeOK
<1>7. \A t \in Streams : errors'[t] <= MaxErrors + Workers[t]
  BY <1>3, <1>6, CredsAssumption DEF CountsFit
<1>8. UNCHANGED <<ctx, pc, want, got, cache, expired, throttle, account>>
  BY DEF AuthError
<1>9. QED
  BY <1>3, <1>6, <1>7, <1>8 DEF TypeOK, throttle, account

LEMMA FlushTypes ==
  ASSUME TypeOK, CountsFit, NEW s \in Streams,
         Invalidate(s) \/ Refresh(s) \/ Allocated(s) \/ Expire(s)
  PROVE  TypeOK' /\ CountsFit'
<1>1. Empty \in [link : Credentials, creds : Credentials]
  BY DEF Empty, Credentials
<1>2. UNCHANGED <<ctx, want, got, fetcher, tooSoon, recent, asked, arriving, answer>>
  BY DEF Invalidate, Refresh, Allocated, Expire, throttle, account
<1>3. /\ cache' \in [Streams -> [link : Credentials, creds : Credentials]]
      /\ expired' \in [Streams -> BOOLEAN]
      /\ pc' \in [Streams -> {"idle"} \cup Busy]
  <2>1. \/ cache' = [cache EXCEPT ![s] = Empty]
        \/ cache' = cache
    BY DEF Invalidate, Refresh, Allocated, Expire
  <2>2. \/ expired' = [expired EXCEPT ![s] = TRUE]
        \/ expired' = expired
    BY DEF Invalidate, Refresh, Allocated, Expire
  <2>3. \/ pc' = [pc EXCEPT ![s] = "look"]
        \/ pc' = pc
    BY DEF Invalidate, Refresh, Allocated, Expire, Goto
  <2>4. "look" \in {"idle"} \cup Busy
    BY DEF Busy
  <2>5. QED
    BY <1>1, <2>1, <2>2, <2>3, <2>4 DEF TypeOK
<1>4. injected' \in [Links -> Credentials]
  BY DEF TypeOK, Invalidate, Refresh, Allocated, Expire, account, Credentials
<1>5. \/ flushing' = [flushing EXCEPT ![s] = flushing[s] - 1] /\ flushing[s] > 0
      \/ UNCHANGED flushing
  BY DEF Invalidate, Refresh, Allocated, Expire
<1>6. flushing' \in [Streams -> Nat] /\ \A t \in Streams : flushing'[t] <= flushing[t]
  BY <1>5 DEF TypeOK
<1>7. errors' = [errors EXCEPT ![s] = 0] \/ UNCHANGED <<errors, flushing>>
  BY DEF Invalidate, Refresh, Allocated, Expire
<1>8. errors' \in [Streams -> Nat] /\ \A t \in Streams : errors'[t] <= errors[t]
  <2>1. CASE errors' = [errors EXCEPT ![s] = 0]
    BY <2>1 DEF TypeOK
  <2>2. CASE UNCHANGED errors
    BY <2>2 DEF TypeOK
  <2>3. QED
    BY <1>7, <2>1, <2>2
<1>9. CountsFit'
  <2>1. \A t \in Streams \ {s} : errors'[t] = errors[t] /\ flushing'[t] = flushing[t]
    BY <1>5, <1>7 DEF TypeOK
  <2>2. errors'[s] < MaxErrors + flushing'[s]
    BY <1>6, <1>7, CredsAssumption DEF TypeOK, CountsFit
  <2>3. QED
    BY <2>1, <2>2 DEF CountsFit
<1>10. /\ \A t \in Streams : flushing'[t] <= Workers[t]
       /\ \A t \in Streams : errors'[t] <= MaxErrors + Workers[t]
  BY <1>6, <1>8, CredsAssumption DEF TypeOK
<1>11. QED
  BY <1>2, <1>3, <1>4, <1>6, <1>8, <1>9, <1>10 DEF TypeOK

-----------------------------------------------------------------------------
(* Who fetches, when, and for which link.                                  *)

(* A stream gets vkRequestMu when nobody has it.                           *)
LEMMA OneFetchStep ==
  ASSUME IInv, NEW s \in Streams,
         \/ \E link \in Links : Call(s, link)
         \/ Look(s) \/ Lock(s) \/ Queue(s) \/ Throttle(s) \/ Fetch(s)
         \/ AskAccount(s) \/ TakeAnswer(s) \/ WaitTimesOut(s) \/ Refresh(s)
  PROVE  OneFetchAtATime' /\ ThrottleCovers'
<1>1. ThrottleCovers'
  BY DEF IInv, ThrottleCovers, Call, Look, Lock, Queue, Throttle, Fetch, AskAccount, TakeAnswer,
     WaitTimesOut, Refresh, Succeeds, Fails, FetchReturns, Stamp, throttle
<1>2. \A t \in Streams \ {s} : pc'[t] = pc[t]
  BY DEF IInv, TypeOK, Call, Look, Lock, Queue, Throttle, Fetch, AskAccount, TakeAnswer,
         WaitTimesOut, Refresh, Succeeds, Fails, Return, Goto
<1>3. CASE fetcher' = fetcher /\ pc'[s] \notin Fetching \cup {"throttle"}
  BY <1>1, <1>2, <1>3 DEF IInv, OneFetchAtATime
<1>4. CASE fetcher' = fetcher /\ fetcher = s
  BY <1>1, <1>2, <1>4 DEF IInv, OneFetchAtATime
<1>5. CASE fetcher = s /\ fetcher' = None /\ pc'[s] = "idle"
  BY <1>1, <1>2, <1>5 DEF IInv, OneFetchAtATime, Fetching
<1>6. CASE fetcher = None /\ fetcher' = s
  BY <1>1, <1>2, <1>6, CredsAssumption DEF IInv, OneFetchAtATime
<1>7. pc \in [Streams -> {"idle"} \cup Busy]
  BY DEF IInv, TypeOK
<1>8. pc[s] \in Fetching \cup {"throttle"} => fetcher = s
  BY DEF IInv, OneFetchAtATime
<1>9. \/ fetcher' = fetcher /\ pc'[s] \notin Fetching \cup {"throttle"}
      \/ fetcher' = fetcher /\ fetcher = s
      \/ fetcher = s /\ fetcher' = None /\ pc'[s] = "idle"
      \/ fetcher = None /\ fetcher' = s
  BY <1>7, <1>8 DEF Call, Look, Lock, Queue, Throttle, Fetch, AskAccount, TakeAnswer,
     WaitTimesOut, Refresh, Succeeds, Fails, Return, Goto, FetchReturns, throttle, Fetching
<1>10. QED
  BY <1>3, <1>4, <1>5, <1>6, <1>9

(* What is asked for is a link, and what is cached and returned is of the  *)
(* link asked for.                                                         *)
LEMMA RightStep ==
  ASSUME IInv, NEW s \in Streams,
         \/ \E link \in Links : Call(s, link)
         \/ Look(s) \/ Lock(s) \/ Queue(s) \/ Throttle(s) \/ Fetch(s)
         \/ AskAccount(s) \/ TakeAnswer(s) \/ WaitTimesOut(s) \/ Refresh(s)
  PROVE  AsksForALink' /\ IssuedForItsLink' /\ RightCreds'
<1> DEFINE Of(t) == /\ pc[t] \in Busy => want[t] \in Links
                    /\ AuthMode = "anonymous" =>
                         /\ cache[t].creds = cache[t].link /\ pc[t] \notin {"ask", "wait"}
                         /\ pc[t] = "idle" => got[t] \in {want[t], None}
<1>1. \A t \in Streams : Of(t)
  BY DEF IInv, AsksForALink, IssuedForItsLink, RightCreds
<1>2. \A t \in Streams \ {s} :
        pc'[t] = pc[t] /\ want'[t] = want[t] /\ cache'[t] = cache[t] /\ got'[t] = got[t]
  BY DEF IInv, TypeOK, Call, Look, Lock, Queue, Throttle, Fetch, AskAccount, TakeAnswer,
         WaitTimesOut, Refresh, Succeeds, Fails, Return, Goto, caches
<1>3. ASSUME Of(s) PROVE Of(s)'
  <2>1. /\ pc \in [Streams -> {"idle"} \cup Busy] /\ want \in [Streams -> Credentials]
        /\ cache \in [Streams -> [link : Credentials, creds : Credentials]]
        /\ got \in [Streams -> Credentials]
    BY DEF IInv, TypeOK
  <2>2. CASE \E link \in Links : Call(s, link)
    BY <1>3, <2>1, <2>2 DEF Call, Goto, caches, Busy
  <2>3. CASE Look(s) \/ Lock(s)
    BY <1>3, <2>1, <2>3 DEF Look, Lock, Hit, Return, Goto, caches, Busy, Holding
  <2>4. CASE Queue(s) \/ Throttle(s)
    BY <1>3, <2>1, <2>4 DEF Queue, Throttle, Return, Goto, caches, Busy, Holding
  <2>5. CASE Fetch(s)
    BY <1>3, <2>1, <2>5 DEF Fetch, Succeeds, Fails, Return, Goto, caches, Busy, Holding
  <2>6. CASE AskAccount(s) \/ TakeAnswer(s) \/ WaitTimesOut(s)
    BY <1>3, <2>1, <2>6
       DEF AskAccount, TakeAnswer, WaitTimesOut, Succeeds, Fails, Return, Goto, caches, Busy, Holding
  <2>7. CASE Refresh(s)
    BY <1>3, <2>1, <2>7, CredsAssumption DEF Refresh, Goto, Empty, Busy
  <2>8. QED
    BY <2>2, <2>3, <2>4, <2>5, <2>6, <2>7
<1>4. \A t \in Streams : Of(t)'
  BY <1>1, <1>2, <1>3
<1>5. QED
  BY <1>4 DEF AsksForALink, IssuedForItsLink, RightCreds

(* What goes on around the calls leaves them alone.                        *)
LEMMA AroundStep ==
  ASSUME IInv,
         \/ \E s \in Streams : AuthError(s) \/ Invalidate(s) \/ Allocated(s) \/ Expire(s)
         \/ \E link \in Links : AppAnswers(link) \/ AppRefuses(link) \/ InjectedExpires(link)
         \/ ThrottleEnds \/ PassAnswer \/ Cancel
  PROVE  /\ OneFetchAtATime' /\ ThrottleCovers'
         /\ AsksForALink' /\ IssuedForItsLink' /\ RightCreds'
<1>1. UNCHANGED <<pc, want, got, fetcher>>
  BY DEF AuthError, Invalidate, Allocated, Expire, AppAnswers, AppRefuses, InjectedExpires,
         ThrottleEnds, PassAnswer, Cancel, throttle
<1>2. UNCHANGED cache \/ \E s \in Streams : cache' = [cache EXCEPT ![s] = Empty]
  BY DEF AuthError, Invalidate, Allocated, Expire, AppAnswers, AppRefuses, InjectedExpires,
         ThrottleEnds, PassAnswer, Cancel, caches
<1>3. \A t \in Streams : cache[t].creds = cache[t].link => cache'[t].creds = cache'[t].link
  BY <1>2 DEF IInv, TypeOK, Empty
<1>4. ThrottleCovers'
  BY DEF IInv, ThrottleCovers, AuthError, Invalidate, Allocated, Expire, AppAnswers, AppRefuses,
         InjectedExpires, ThrottleEnds, PassAnswer, Cancel, throttle
<1>5. QED
  BY <1>1, <1>3, <1>4
     DEF IInv, OneFetchAtATime, AsksForALink, IssuedForItsLink, RightCreds

-----------------------------------------------------------------------------
(* The theorems.                                                           *)

LEMMA InitHolds == Init => IInv
<1> SUFFICES ASSUME Init PROVE IInv
  OBVIOUS
<1>1. /\ \A s \in Streams : errors[s] = 0 /\ flushing[s] = 0
      /\ errors \in [Streams -> Nat] /\ flushing \in [Streams -> Nat]
  BY DEF Init
<1>2. CountsFit /\ \A s \in Streams : errors[s] <= MaxErrors + Workers[s] /\ flushing[s] <= Workers[s]
  BY <1>1, CredsAssumption DEF CountsFit
<1>3. Empty \in [link : Credentials, creds : Credentials]
  BY DEF Empty, Credentials
<1>4. TypeOK
  BY <1>1, <1>2, <1>3 DEF Init, TypeOK, Credentials
<1>5. AsksForALink /\ OneFetchAtATime /\ ThrottleCovers /\ IssuedForItsLink /\ RightCreds
  BY DEF Init, AsksForALink, OneFetchAtATime, ThrottleCovers, IssuedForItsLink, RightCreds,
         Empty, Busy, Holding, Fetching
<1>6. QED
  BY <1>2, <1>4, <1>5 DEF IInv

LEMMA NextHolds == IInv /\ [Next]_vars => IInv'
<1> SUFFICES ASSUME IInv, [Next]_vars PROVE IInv'
  OBVIOUS
<1>1. TypeOK /\ CountsFit /\ AsksForALink
  BY DEF IInv
<1>2. ASSUME NEW s \in Streams, \E link \in Links : Call(s, link)
      PROVE  IInv'
  BY <1>1, <1>2, CallTypes, OneFetchStep, RightStep DEF IInv
<1>3. ASSUME NEW s \in Streams, Look(s) \/ Lock(s) \/ Queue(s) \/ Throttle(s)
      PROVE  IInv'
  BY <1>1, <1>3, CallTypes, OneFetchStep, RightStep DEF IInv
<1>4. ASSUME NEW s \in Streams, Fetch(s) \/ AskAccount(s) \/ TakeAnswer(s) \/ WaitTimesOut(s)
      PROVE  IInv'
  BY <1>1, <1>4, FetchTypes, OneFetchStep, RightStep DEF IInv
<1>5. ASSUME NEW s \in Streams, Refresh(s)
      PROVE  IInv'
  BY <1>1, <1>5, FlushTypes, OneFetchStep, RightStep DEF IInv
<1>6. ASSUME NEW s \in Streams, AuthError(s)
      PROVE  IInv'
  BY <1>1, <1>6, ErrorTypes, AroundStep DEF IInv
<1>7. ASSUME NEW s \in Streams, Invalidate(s) \/ Allocated(s) \/ Expire(s)
      PROVE  IInv'
  BY <1>1, <1>7, FlushTypes, AroundStep DEF IInv
<1>8. ASSUME \/ \E link \in Links : AppAnswers(link) \/ AppRefuses(link) \/ InjectedExpires(link)
             \/ ThrottleEnds \/ PassAnswer \/ Cancel
      PROVE  IInv'
  BY <1>1, <1>8, AroundTypes, AroundStep DEF IInv
<1>9. CASE UNCHANGED vars
  BY <1>9 DEF vars, caches, throttle, account, IInv, TypeOK, CountsFit, AsksForALink,
     OneFetchAtATime, ThrottleCovers, IssuedForItsLink, RightCreds
<1>10. QED
  BY <1>2, <1>3, <1>4, <1>5, <1>6, <1>7, <1>8, <1>9 DEF Next

(* The inductive invariant: locks, throttle and caches fit each other      *)
(* (creds.go:161-308).                                                     *)
THEOREM CredsInvariant == Spec => []IInv
<1>1. QED
  BY InitHolds, NextHolds, PTL DEF Spec

(* The types hold, and the count of errors is bounded by the workers that  *)
(* wait in invalidate for the mutex of a long fetch (creds.go:161-187).    *)
THEOREM CredsTypes == Spec => []TypeOK
<1>1. IInv => TypeOK
  BY DEF IInv
<1>2. QED
  BY <1>1, CredsInvariant, PTL

(* One stream at a time fetches (creds.go:279-288).                        *)
THEOREM OneFetch == Spec => []OneFetchAtATime
<1>1. IInv => OneFetchAtATime
  BY DEF IInv
<1>2. QED
  BY <1>1, CredsInvariant, PTL

(* An anonymous call returns credentials of the link it asked for          *)
(* (creds.go:241-277).                                                     *)
THEOREM RightCredentials == Spec => []RightCreds
<1>1. IInv => RightCreds
  BY DEF IInv
<1>2. QED
  BY <1>1, CredsInvariant, PTL

(* A fetch begins no sooner than the throttle's interval after the last    *)
(* one ended, whoever made it and however it ended (creds.go:290-308).     *)
THEOREM FetchesAreSpaced == Spec => FetchesSpaced
<1>1. ASSUME IInv, [Next]_vars, NEW s \in Streams, pc[s] = "throttle", pc'[s] \in Fetching
      PROVE  ~recent
  <2>1. pc \in [Streams -> {"idle"} \cup Busy]
    BY <1>1 DEF IInv, TypeOK
  <2>2. ~tooSoon
    <3>1. CASE Throttle(s)
      BY <1>1, <2>1, <3>1 DEF Throttle, Return, Goto, Fetching
    <3>2. CASE UNCHANGED pc
      BY <1>1, <3>2 DEF Fetching
    <3>3. CASE \E t \in Streams \ {s} : \E where \in {"idle"} \cup Busy : Goto(t, where)
      BY <1>1, <2>1, <3>3 DEF Goto, Fetching
    <3>4. Throttle(s) \/ UNCHANGED pc \/
          \E t \in Streams \ {s} : \E where \in {"idle"} \cup Busy : Goto(t, where)
      BY <1>1 DEF Next, vars, Call, Look, Lock, Queue, Throttle, Fetch, AskAccount, TakeAnswer,
         WaitTimesOut, AuthError, Invalidate, Refresh, Allocated, Expire, AppAnswers, AppRefuses,
         InjectedExpires, ThrottleEnds, PassAnswer, Cancel, Succeeds, Fails, Return, Busy, Holding
    <3>5. QED
      BY <3>1, <3>2, <3>3, <3>4
  <2>3. QED
    BY <1>1, <2>2 DEF IInv, ThrottleCovers
<1>2. IInv /\ [Next]_vars =>
        [\A s \in Streams : pc[s] = "throttle" /\ pc'[s] \in Fetching => ~recent]_vars
  BY <1>1
<1>3. QED
  BY <1>2, CredsInvariant, PTL DEF Spec, FetchesSpaced

-----------------------------------------------------------------------------
(* Nobody waits for somebody who has left.                                 *)

(* vkRequestMu is held by a stream that fetches or sits out the throttle,  *)
(* and the throttle is sat out only while its clock runs                   *)
(* (creds.go:282-305).                                                     *)
WaitsAreForSomebody ==
  /\ fetcher # None => pc[fetcher] \in Fetching \cup {"throttle"}
  /\ tooSoon => recent

LEMMA WaitStep ==
  ASSUME IInv, WaitsAreForSomebody, [Next]_vars
  PROVE  WaitsAreForSomebody'
<1>1. /\ pc \in [Streams -> {"idle"} \cup Busy] /\ fetcher \in Streams \cup {None}
      /\ \A s \in Streams : pc[s] \in Fetching \cup {"throttle"} => fetcher = s
  BY DEF IInv, TypeOK, OneFetchAtATime
<1>2. ASSUME NEW s \in Streams, Fetch(s) \/ AskAccount(s) \/ TakeAnswer(s) \/ WaitTimesOut(s)
      PROVE  WaitsAreForSomebody'
  <2>1. CASE fetcher' = None /\ tooSoon' = TRUE /\ recent' = TRUE
    BY <2>1 DEF WaitsAreForSomebody
  <2>2. CASE UNCHANGED throttle /\ Goto(s, "wait")
    BY <1>1, <2>2 DEF WaitsAreForSomebody, throttle, Goto, Fetching
  <2>3. (fetcher' = None /\ tooSoon' = TRUE /\ recent' = TRUE)
          \/ (UNCHANGED throttle /\ Goto(s, "wait"))
    BY <1>2 DEF Fetch, AskAccount, TakeAnswer, WaitTimesOut, Succeeds, Fails, FetchReturns, Stamp
  <2>4. QED
    BY <2>1, <2>2, <2>3
<1>3. ASSUME NEW s \in Streams, Throttle(s)
      PROVE  WaitsAreForSomebody'
  <2>1. UNCHANGED <<tooSoon, recent>> /\ pc[s] = "throttle"
    BY <1>3 DEF Throttle
  <2>2. \/ fetcher' = None
        \/ fetcher' = s /\ pc'[s] \in {"ask", "fetch"}
    BY <1>1, <1>3, <2>1 DEF Throttle, Goto
  <2>3. QED
    BY <2>1, <2>2 DEF WaitsAreForSomebody, Fetching
<1>4. ASSUME NEW s \in Streams, Queue(s)
      PROVE  WaitsAreForSomebody'
  <2>1. fetcher' = s /\ pc'[s] = "throttle" /\ UNCHANGED <<tooSoon, recent>>
    BY <1>1, <1>4 DEF Queue, Goto
  <2>2. QED
    BY <2>1 DEF WaitsAreForSomebody
<1>5. ASSUME NEW s \in Streams, NEW where, UNCHANGED throttle, Goto(s, where),
             pc[s] \notin Fetching \cup {"throttle"}
      PROVE  WaitsAreForSomebody'
  <2>1. fetcher # None => fetcher \in Streams /\ fetcher # s
    BY <1>1, <1>5 DEF WaitsAreForSomebody
  <2>2. fetcher # None => pc'[fetcher] = pc[fetcher]
    BY <1>1, <1>5, <2>1 DEF Goto
  <2>3. QED
    BY <1>5, <2>2 DEF WaitsAreForSomebody, throttle
<1>6. ASSUME NEW s \in Streams, (\E link \in Links : Call(s, link)) \/ Look(s) \/ Lock(s) \/ Refresh(s)
      PROVE  WaitsAreForSomebody'
  <2>1. UNCHANGED throttle /\ (\E where : Goto(s, where)) /\ pc[s] \in {"idle", "look", "lock"}
    BY <1>6 DEF Call, Look, Lock, Refresh, Return
  <2>2. QED
    BY <1>5, <2>1 DEF Fetching
<1>7. CASE UNCHANGED <<pc, fetcher>> /\ ((tooSoon' => recent') \/ UNCHANGED <<tooSoon, recent>>)
  BY <1>7 DEF WaitsAreForSomebody
<1>8. ASSUME \/ \E s \in Streams : AuthError(s) \/ Invalidate(s) \/ Allocated(s) \/ Expire(s)
             \/ \E link \in Links : AppAnswers(link) \/ AppRefuses(link) \/ InjectedExpires(link)
             \/ ThrottleEnds \/ PassAnswer \/ Cancel \/ UNCHANGED vars
      PROVE  WaitsAreForSomebody'
  BY <1>7, <1>8 DEF AuthError, Invalidate, Allocated, Expire, AppAnswers, AppRefuses,
     InjectedExpires, ThrottleEnds, PassAnswer, Cancel, throttle, vars
<1>9. QED
  BY <1>2, <1>3, <1>4, <1>6, <1>8 DEF Next

(* Every return gives vkRequestMu back, the throttle's and the app's       *)
(* included: who waits for it waits for a stream that goes on by itself    *)
(* (creds.go:282-305).                                                     *)
THEOREM NoLockIsLeftBehind == Spec => []WaitsAreForSomebody
<1>1. Init => WaitsAreForSomebody
  BY DEF Init, WaitsAreForSomebody
<1>2. IInv /\ WaitsAreForSomebody /\ [Next]_vars => WaitsAreForSomebody'
  BY WaitStep
<1>3. QED
  BY <1>1, <1>2, CredsInvariant, PTL DEF Spec
=============================================================================
