------------------------------ MODULE Captcha ------------------------------
(***************************************************************************)
(* How one captcha is solved (solveCaptchaBySelectedMode of client/creds.go *)
(* and client/captcha_v2.go): a ladder of attempts, some made by the Go    *)
(* solver and some by a WebView of the phone app, which is asked on stdout *)
(* and answers on stdin, where the reader in main puts the answer on       *)
(* CaptchaResultChan.                                                      *)
(*                                                                         *)
(* VK and the app are external: they answer whatever the code tells apart, *)
(* the app when it likes or never.  VkFetch uses this module.              *)
(***************************************************************************)
EXTENDS Naturals, Sequences

CONSTANT MaxSliderChecks  \* captchaV2MaxSliderChecks (not 0)

VARIABLES
  captchaMode, \* "auto", "rjs" or "wv"
  managed,     \* netifdManaged: no browser to ask
  ctx,         \* cancelled
  step,        \* where the solver is; "idle" between captchas
  rung,        \* of the ladder
  try,         \* attempt of solveVkCaptchaV2Attempts
  left,        \* guesses the slider has left
  open,        \* the app may still answer some request
  line,        \* the CAPTCHA_RESULT line being handled: <<>> or <<is it a token>>
  reader,      \* the goroutine of stdin: "read", or "drained" before its send
  chan         \* CaptchaResultChan, with room for one: is it a token, and
               \* (history) was it sent while the request that is on waited

solver == <<step, rung, try, left>>
app == <<open, line, reader, chan>>

Steps == {"idle", "page", "checkbox", "slider", "check", "backoff", "ask", "app", "pause",
          "solved", "failed"}

(* The Go solver has two attempts on the first rung and one on a later.    *)
Ladder == [auto |-> <<"go", "app", "app", "go", "app">>, rjs |-> <<"go", "app">>,
           wv |-> <<"app">>]
LastRung == Len(Ladder[captchaMode])
GoTries == IF rung = 1 THEN 2 ELSE 1

-----------------------------------------------------------------------------
(* The ladder.                                                             *)

Enter(n) ==
  /\ rung' = n /\ try' = 1
  /\ step' = IF Ladder[captchaMode][n] = "go" THEN "page" ELSE "ask"

Ends(result) == step' = result /\ UNCHANGED <<rung, try>>

(* Every rung but the last looks at ctx, and the WebViews of the automatic *)
(* chain are followed by a pause.                                          *)
RungFails ==
  IF rung = LastRung \/ ctx THEN Ends("failed")
  ELSE IF Ladder[captchaMode][rung] = "app" THEN Ends("pause")
  ELSE Enter(rung + 1)

Begin ==
  /\ step = "idle"
  /\ Enter(1)
  /\ UNCHANGED <<left, app>>

Pause ==
  /\ step = "pause"
  /\ Enter(rung + 1) \/ (ctx /\ Ends("failed"))
  /\ UNCHANGED <<left, app>>

-----------------------------------------------------------------------------
(* solveVkCaptchaV2Attempts.  No request succeeds once ctx is cancelled.   *)

AttemptFails == Ends("backoff")

(* The page, the proof of work, initSession and the settings.              *)
Page ==
  /\ step = "page"
  /\ AttemptFails \/ (~ctx /\ (Ends("checkbox") \/ Ends("slider")))
  /\ UNCHANGED <<left, app>>

(* A checkbox may turn into a slider (the answer "bot", or another show    *)
(* type); "error_limit" ends the rung at once.                             *)
Checkbox ==
  /\ step = "checkbox"
  /\ AttemptFails \/ (~ctx /\ (Ends("solved") \/ Ends("slider") \/ RungFails))
  /\ UNCHANGED <<left, app>>

(* getContent, the guesses and componentDone.                              *)
Slider ==
  /\ step = "slider"
  /\ \/ (AttemptFails \/ (~ctx /\ RungFails)) /\ UNCHANGED left
     \/ ~ctx /\ Ends("check") /\ left' \in 1 .. MaxSliderChecks
  /\ UNCHANGED app

Check ==
  /\ step = "check"
  /\ \/ (AttemptFails \/ (~ctx /\ (Ends("solved") \/ RungFails))) /\ UNCHANGED left
     \/ ~ctx /\ left > 1 /\ left' = left - 1 /\ Ends("check")
  /\ UNCHANGED app

(* Also after the last attempt.                                            *)
Backoff ==
  /\ step = "backoff"
  /\ IF ctx \/ try = GoTries THEN RungFails
     ELSE step' = "page" /\ try' = try + 1 /\ UNCHANGED rung
  /\ UNCHANGED <<left, app>>

-----------------------------------------------------------------------------
(* requestWebViewCaptcha.                                                  *)

KeepResult == UNCHANGED chan

(* drainCaptchaResult.                                                     *)
DropResult == chan' = <<>>

Ask ==
  /\ step = "ask"
  /\ IF managed THEN RungFails /\ UNCHANGED <<open, chan>>
     ELSE Ends("app") /\ DropResult /\ open' = TRUE
  /\ UNCHANGED <<left, line, reader>>

(* What is on the channel belongs to a request that is over.               *)
WaitOver ==
  chan' = IF chan = <<>> THEN <<>> ELSE <<[token |-> chan[1].token, inTime |-> FALSE]>>

Answered ==
  /\ step = "app" /\ chan # <<>>
  /\ IF chan[1].token THEN Ends("solved") ELSE RungFails
  /\ chan' = <<>>
  /\ UNCHANGED <<left, open, line, reader>>

(* The timeout is of a context of its own: ctx does not end the wait.      *)
Unanswered ==
  /\ step = "app"
  /\ RungFails
  /\ WaitOver
  /\ UNCHANGED <<left, open, line, reader>>

SolverStep ==
  \/ Page \/ Checkbox \/ Slider \/ Check \/ Backoff \/ Ask \/ Answered \/ Unanswered \/ Pause

(* solveCaptchaBySelectedMode returns, and its variables are gone.         *)
Return(result) ==
  /\ step = result
  /\ step' = "idle" /\ rung' = 1 /\ try' = 1 /\ left' = 1
  /\ UNCHANGED app

-----------------------------------------------------------------------------
(* The app (external), and the reader of stdin.                            *)

AppAnswers ==
  /\ open /\ line = <<>>
  /\ open' \in BOOLEAN    \* other requests may be unanswered
  /\ \E token \in BOOLEAN : line' = <<token>>
  /\ UNCHANGED <<solver, reader, chan>>

ReaderLeaves == UNCHANGED chan

ReaderDrops == chan' = <<>>

ReaderDrains ==
  /\ line # <<>> /\ reader = "read"
  /\ ReaderDrops
  /\ reader' = "drained"
  /\ UNCHANGED <<solver, open, line>>

(* The send waits for room.                                                *)
ReaderSends ==
  /\ reader = "drained" /\ chan = <<>>
  /\ chan' = <<[token |-> line[1], inTime |-> step = "app"]>>
  /\ reader' = "read" /\ line' = <<>>
  /\ UNCHANGED <<solver, open>>

ReaderStep == ReaderDrains \/ ReaderSends

-----------------------------------------------------------------------------
Init ==
  /\ captchaMode \in {"auto", "rjs", "wv"} /\ managed \in BOOLEAN
  /\ step = "idle" /\ rung = 1 /\ try = 1 /\ left = 1
  /\ open = FALSE /\ line = <<>> /\ reader = "read" /\ chan = <<>>

TypeOK ==
  /\ captchaMode \in {"auto", "rjs", "wv"} /\ managed \in BOOLEAN
  /\ ctx \in BOOLEAN
  /\ step \in Steps
  /\ rung \in 1 .. LastRung /\ try \in 1 .. GoTries /\ left \in 1 .. MaxSliderChecks
  /\ open \in BOOLEAN
  /\ reader \in {"read", "drained"} /\ (reader = "drained" => line # <<>>)
  /\ line \in {<<>>} \cup {<<token>> : token \in BOOLEAN}
  /\ chan \in {<<>>} \cup {<<r>> : r \in [token : BOOLEAN, inTime : BOOLEAN]}

=============================================================================
