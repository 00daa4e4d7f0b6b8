------------------------------ MODULE VkFetch ------------------------------
(***************************************************************************)
(* One fetch of anonymous TURN credentials after another (fetchVkCreds,    *)
(* and getTokenChain of client/creds.go, the VK Calls path of              *)
(* client/creds_vkcalls.go), with the captchas it meets (Captcha) and the  *)
(* lockout that follows one it could not solve.  vkRequestMu lets one      *)
(* fetch run at a time (CredsCache).                                       *)
(*                                                                         *)
(* VK is external: a request answers whatever the code tells apart.        *)
(***************************************************************************)
EXTENDS Naturals, Sequences

CONSTANTS
  AttemptLimit,    \* vkCredentialAttemptLimit
  NumCreds,        \* len(vkCredentialsList)
  CaptchaLimit,    \* 3: the attempt at which a token chain stops solving
  MaxSliderChecks  \* captchaV2MaxSliderChecks

ASSUME FetchAssumption ==
  /\ AttemptLimit \in Nat \ {0} /\ NumCreds \in Nat \ {0}
  /\ CaptchaLimit \in Nat /\ MaxSliderChecks \in Nat \ {0}

VARIABLES
  anonPath,    \* "vkcalls" or "legacy"
  captchaMode, managed, step, rung, try, left, open, line, reader, chan,  \* of Captcha
  ctx,         \* cancelled
  stage,       \* of the fetch: the request it is about to make, "captcha", "pause" or "idle"
  attempt,     \* of fetchVkCreds's loop
  tries,       \* attempt of getTokenChain's loop
  lockout,     \* globalCaptchaLockout is in the future
  outcome,     \* of the last fetch
  dead         \* history: VK has called the call unavailable in this fetch

K == INSTANCE Captcha

settings == <<anonPath, captchaMode, managed>>
captcha == <<step, rung, try, left, open, line, reader, chan>>
fetch == <<stage, attempt, tries, outcome, dead>>
vars == <<settings, captcha, ctx, fetch, lockout>>

Requests == {"vkcalls", "anonToken", "preview", "token", "session"}
Outcomes == {"none", "ok", "dead", "captcha", "error", "cancelled"}

-----------------------------------------------------------------------------
(* How a fetch goes on.                                                    *)

Done(result) ==
  /\ stage' = "idle"
  /\ outcome' = result
  /\ UNCHANGED <<attempt, tries>>

Ask(request) ==
  /\ stage' = request
  /\ UNCHANGED <<attempt, tries, outcome>>

(* A token chain with the next pair of client id and secret.               *)
NewChain(n) ==
  /\ stage' = "anonToken"
  /\ attempt' = n
  /\ tries' = 0
  /\ UNCHANGED outcome

FinalKindsCallOnly == {"dead"}

FinalKindsCaptchaOnly == {"captcha"}

(* A dead call and a captcha to be waited out end the fetch.               *)
FinalKinds == {"dead", "captcha"}

(* The next set of credentials, after a pause when all have had their turn.*)
ChainFails(kind) ==
  IF kind \in FinalKinds THEN Done(kind)
  ELSE IF attempt + 1 = AttemptLimit THEN Done("error")
  ELSE IF attempt % NumCreds = NumCreds - 1 THEN Ask("pause")
  ELSE NewChain(attempt + 1)

CallIsDead == dead' = TRUE

-----------------------------------------------------------------------------
Start ==
  /\ stage = "idle"
  /\ dead' = FALSE
  /\ IF lockout THEN Done("captcha")
     ELSE IF anonPath = "vkcalls" THEN Ask("vkcalls")
     ELSE NewChain(0)
  /\ UNCHANGED <<settings, captcha, ctx, lockout>>

(* The five requests of the VK Calls path: only a dead call is final.      *)
VkCalls ==
  /\ stage = "vkcalls"
  /\ \/ ~ctx /\ Done("ok") /\ UNCHANGED dead
     \/ ~ctx /\ CallIsDead /\ Done("dead")
     \/ NewChain(0) /\ UNCHANGED dead
  /\ UNCHANGED <<settings, captcha, ctx, lockout>>

(* get_anonym_token.                                                       *)
AnonToken ==
  /\ stage = "anonToken"
  /\ \/ ~ctx /\ Ask("preview")
     \/ ChainFails("error")
  /\ UNCHANGED <<settings, captcha, ctx, lockout, dead>>

(* getCallPreview: its failure is only logged.                             *)
Preview ==
  /\ stage = "preview"
  /\ \/ Ask("token") /\ UNCHANGED dead
     \/ ~ctx /\ CallIsDead /\ ChainFails("dead")
  /\ UNCHANGED <<settings, captcha, ctx, lockout>>

(* getAnonymousToken, up to an answer without a captcha.                   *)
Token ==
  /\ stage = "token"
  /\ \/ ~ctx /\ Ask("session") /\ UNCHANGED dead
     \/ ~ctx /\ CallIsDead /\ ChainFails("dead")
     \/ ChainFails("error") /\ UNCHANGED dead
  /\ UNCHANGED <<settings, captcha, ctx, lockout>>

MayTry == tries < CaptchaLimit

(* A captcha with a redirect and a session token.                          *)
CaptchaAsked ==
  /\ stage = "token" /\ ~ctx
  /\ MayTry
  /\ K!Begin
  /\ stage' = "captcha"
  /\ UNCHANGED <<settings, ctx, attempt, tries, lockout, outcome, dead>>

CaptchaOnceMore ==
  /\ stage = "token" /\ ~ctx
  /\ ~MayTry
  /\ lockout' = TRUE
  /\ ChainFails("captcha")
  /\ UNCHANGED <<settings, captcha, ctx, dead>>

CaptchaStep ==
  /\ stage = "captcha"
  /\ K!SolverStep
  /\ UNCHANGED <<settings, ctx, fetch, lockout>>

CountNothing == UNCHANGED tries

(* The loop's attempt++.                                                   *)
CountTry == tries' = tries + 1

(* The token is sent with the next request.                                *)
CaptchaSolved ==
  /\ stage = "captcha"
  /\ K!Return("solved")
  /\ stage' = "token"
  /\ CountTry
  /\ UNCHANGED <<settings, ctx, attempt, lockout, outcome, dead>>

(* A cancelled solve starts the lockout as well.  errCaptchaSessionExpired *)
(* is never returned: no error of the Go solver has the texts it goes by   *)
(* (isCaptchaSessionDead).                                                 *)
CaptchaFails ==
  /\ stage = "captcha"
  /\ K!Return("failed")
  /\ lockout' = TRUE
  /\ ChainFails("captcha")
  /\ UNCHANGED <<settings, ctx, dead>>

(* anonymLogin and joinConversationByLink.                                 *)
Session ==
  /\ stage = "session"
  /\ \/ ~ctx /\ Done("ok")
     \/ ChainFails("error")
  /\ UNCHANGED <<settings, captcha, ctx, lockout, dead>>

Pause ==
  /\ stage = "pause"
  /\ \/ NewChain(attempt + 1)
     \/ ctx /\ Done("cancelled")
  /\ UNCHANGED <<settings, captcha, ctx, lockout, dead>>

LockoutEnds ==
  /\ lockout
  /\ lockout' = FALSE
  /\ UNCHANGED <<settings, captcha, ctx, fetch>>

Cancel ==
  /\ ~ctx
  /\ ctx' = TRUE
  /\ UNCHANGED <<settings, captcha, fetch, lockout>>

(* The app and the reader of stdin, fetch or no fetch.                     *)
AppAnswers == K!AppAnswers /\ UNCHANGED <<settings, ctx, fetch, lockout>>

ReaderStep == K!ReaderStep /\ UNCHANGED <<settings, ctx, fetch, lockout>>

-----------------------------------------------------------------------------
Init ==
  /\ anonPath \in {"vkcalls", "legacy"}
  /\ K!Init
  /\ ctx = FALSE
  /\ stage = "idle" /\ attempt = 0 /\ tries = 0
  /\ lockout = FALSE
  /\ outcome = "none" /\ dead = FALSE

FetchStep ==
  \/ VkCalls \/ AnonToken \/ Preview \/ Token \/ Session \/ Pause
  \/ CaptchaAsked \/ CaptchaOnceMore \/ CaptchaStep \/ CaptchaSolved \/ CaptchaFails

Next == Start \/ FetchStep \/ LockoutEnds \/ Cancel \/ AppAnswers \/ ReaderStep

Spec == Init /\ [][Next]_vars

(* Every request and every wait for the app has a timeout, and the reader  *)
(* goes on with a line it has read.                                        *)
FairSpec == Spec /\ WF_vars(FetchStep) /\ WF_vars(ReaderStep)

-----------------------------------------------------------------------------
(* Properties.                                                             *)

(* Every variable has its type.                                            *)
TypeOK ==
  /\ anonPath \in {"vkcalls", "legacy"}
  /\ K!TypeOK
  /\ stage \in Requests \cup {"idle", "captcha", "pause"}
  /\ attempt \in 0 .. AttemptLimit - 1
  /\ tries \in 0 .. CaptchaLimit
  /\ lockout \in BOOLEAN /\ dead \in BOOLEAN
  /\ outcome \in Outcomes

(* VK's word that the call is over ends the fetch with that error, on      *)
(* whichever path and attempt it was said: no other client id is tried,    *)
(* and the group is not left retrying (creds.go:39-41, 326, 353).          *)
DeadCallIsFinal == dead => stage = "idle" /\ outcome = "dead"

(* No request is made while the lockout runs: the fetch that started it    *)
(* has ended, and no fetch starts (creds.go:317, 357, 501, 515).           *)
LockedOutIsQuiet == lockout => stage = "idle"

(* A fetch ends, however often VK asks for a captcha, whatever the rungs   *)
(* of the ladder come to and though the app may never answer: the waits    *)
(* for it are deaf to ctx (creds.go:485-540, 648-722, 746).                *)
FetchEnds == stage # "idle" ~> stage = "idle"

(* How much of a fetch is left at most: the token chains, how far the one  *)
(* that runs has come, its captchas, and what is left of a captcha: rungs, *)
(* attempts of the Go solver, how far the attempt has come, guesses.       *)
Chains ==
  IF stage = "idle" THEN 0
  ELSE IF stage = "vkcalls" THEN AttemptLimit + 1
  ELSE AttemptLimit - attempt

Part == [vkcalls |-> 0, anonToken |-> 4, preview |-> 3, token |-> 2, captcha |-> 2,
         session |-> 1, pause |-> 0, idle |-> 0]

Rungs == IF stage = "captcha" THEN K!LastRung - rung ELSE K!LastRung

Place == [idle |-> 0, page |-> 7, checkbox |-> 6, slider |-> 5, check |-> 4, backoff |-> 3,
          ask |-> 3, app |-> 2, pause |-> 1, solved |-> 0, failed |-> 0]

Rank == <<Chains, Part[stage], CaptchaLimit - tries, Rungs, 2 - try, Place[step], left>>

Below(a, b) == \E i \in 1 .. 7 : a[i] < b[i] /\ \A j \in 1 .. i - 1 : a[j] = b[j]

(* Each step of a fetch, the captchas it meets included, leaves less of it *)
(* to do, and nobody else adds to it: the loops over credentials, captchas,*)
(* rungs, attempts, show types and guesses cannot feed one another         *)
(* (creds.go:339, 485, 676; captcha_v2.go:145, 263; captcha_v2_slider.go:93).*)
EachStepIsOneLess ==
  [][/\ FetchStep => Below(Rank', Rank)
     /\ stage # "idle" /\ ~FetchStep => Rank' = Rank]_vars

(* What a request takes for its answer came while that request waited: the *)
(* late answer to an earlier one, still on the channel, is not the token   *)
(* of this captcha (main.go:52, creds.go:743).  One that comes late enough *)
(* to meet the next request is taken for its answer all the same.          *)
StaleResultIsDropped == step = "app" /\ chan # <<>> => chan[1].inTime

(* The goroutine that reads stdin, STOP among it, does not block on a      *)
(* result nobody waits for (main.go:158-161).                              *)
LinesAreRead == line # <<>> ~> line = <<>>
=============================================================================
