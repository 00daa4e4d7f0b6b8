--------------------------- MODULE VkFetchProofs ---------------------------
(***************************************************************************)
(* Proofs about VkFetch and the Captcha module it runs: for every number   *)
(* of client ids, attempts and captchas.                                   *)
(***************************************************************************)
EXTENDS VkFetch, WellFoundedInduction, TLAPS

(* What the counters rest on: a captcha is begun, a pause made and a       *)
(* WebView followed by a pause only while there is another try to come.    *)
RoomLeft ==
  /\ stage = "captcha" => tries < CaptchaLimit
  /\ stage = "pause" => attempt + 1 < AttemptLimit
  /\ step = "pause" => rung < K!LastRung

IInv == TypeOK /\ RoomLeft /\ DeadCallIsFinal /\ LockedOutIsQuiet /\ StaleResultIsDropped

(* The ladder of every mode has rungs.                                     *)
LEMMA LadderLength ==
  ASSUME captchaMode \in {"auto", "rjs", "wv"}
  PROVE  K!LastRung \in Nat \ {0}
<1>1. /\ K!Ladder["auto"] = <<"go", "app", "app", "go", "app">>
      /\ K!Ladder["rjs"] = <<"go", "app">>
      /\ K!Ladder["wv"] = <<"app">>
  BY DEF K!Ladder
<1>2. CASE captchaMode = "auto"
  <2>1. Len(<<"go", "app", "app", "go", "app">>) = 5  OBVIOUS
  <2>2. K!Ladder[captchaMode] = <<"go", "app", "app", "go", "app">>
    BY <1>1, <1>2
  <2>3. K!LastRung = 5
    BY <2>1, <2>2 DEF K!LastRung
  <2> QED  BY <2>3
<1>3. CASE captchaMode = "rjs"
  <2>1. Len(<<"go", "app">>) = 2  OBVIOUS
  <2>2. K!Ladder[captchaMode] = <<"go", "app">>
    BY <1>1, <1>3
  <2>3. K!LastRung = 2
    BY <2>1, <2>2 DEF K!LastRung
  <2> QED  BY <2>3
<1>4. CASE captchaMode = "wv"
  <2>1. Len(<<"app">>) = 1  OBVIOUS
  <2>2. K!Ladder[captchaMode] = <<"app">>
    BY <1>1, <1>4
  <2>3. K!LastRung = 1
    BY <2>1, <2>2 DEF K!LastRung
  <2> QED  BY <2>3
<1> QED  BY <1>2, <1>3, <1>4

(* What a step of the solver keeps.                                        *)
LEMMA SolverKeeps ==
  ASSUME K!TypeOK, step = "pause" => rung < K!LastRung, StaleResultIsDropped,
         MaxSliderChecks \in Nat \ {0}, K!SolverStep \/ K!Begin,
         UNCHANGED <<captchaMode, managed, ctx>>
  PROVE  /\ K!TypeOK' /\ (step' = "pause" => rung' < K!LastRung')
         /\ StaleResultIsDropped' /\ step' # "idle"
<1> DEFINE Last == K!LastRung
<1>1. Last \in Nat \ {0}  BY LadderLength DEF K!TypeOK
<1>2. K!LastRung' = Last  BY DEF K!LastRung
<1> HIDE DEF Last
<1> DEFINE Goes == /\ step' \in K!Steps \ {"idle", "app"}
                   /\ rung' \in 1 .. Last /\ try' \in 1 .. K!GoTries'
                   /\ step' = "pause" => rung' < Last
<1>3. ASSUME NEW n \in 1 .. Last, K!Enter(n)  PROVE Goes
  BY <1>3, <1>1 DEF K!Enter, K!Steps, K!GoTries
<1>4. ASSUME NEW r \in K!Steps \ {"idle", "app", "pause"}, K!Ends(r)  PROVE Goes
  BY <1>4 DEF K!Ends, K!TypeOK, K!GoTries, Last
<1>5. ASSUME K!RungFails  PROVE Goes
  <2>1. CASE rung = Last \/ ctx
    BY <2>1, <1>4, <1>5 DEF K!RungFails, K!Steps, Last
  <2>2. CASE rung # Last /\ ~ctx
    <3>1. rung \in 1 .. Last /\ rung < Last  BY <2>2, <1>1 DEF K!TypeOK, Last
    <3>2. CASE K!Ends("pause")
      BY <3>1, <3>2 DEF K!Ends, K!TypeOK, K!Steps, K!GoTries
    <3>3. CASE K!Enter(rung + 1)
      BY <3>1, <3>3, <1>3, <1>1
    <3> QED  BY <3>2, <3>3, <2>2, <1>5 DEF K!RungFails, Last
  <2> QED  BY <2>1, <2>2
<1> DEFINE AppKept == UNCHANGED <<open, line, reader, chan>>
<1>6. ASSUME Goes, left' \in 1 .. MaxSliderChecks, line' = line, reader' = reader,
             open' \in BOOLEAN, chan' \in {<<>>} \cup {<<r>> : r \in [token : BOOLEAN, inTime : BOOLEAN]}
      PROVE  /\ K!TypeOK' /\ (step' = "pause" => rung' < K!LastRung')
             /\ StaleResultIsDropped' /\ step' # "idle"
  BY <1>6, <1>2 DEF K!TypeOK, StaleResultIsDropped, K!Steps
<1>7. ASSUME Goes, UNCHANGED <<left, open, line, reader, chan>>
      PROVE  /\ K!TypeOK' /\ (step' = "pause" => rung' < K!LastRung')
             /\ StaleResultIsDropped' /\ step' # "idle"
  BY <1>6, <1>7 DEF K!TypeOK
<1>8. {"page", "checkbox", "slider", "check", "backoff", "ask", "solved", "failed"}
      \subseteq K!Steps \ {"idle", "app", "pause"}
  BY DEF K!Steps
<1>9. CASE K!Begin
  BY <1>9, <1>3, <1>1, <1>7 DEF K!Begin, K!app
<1>10. CASE K!Page
  BY <1>10, <1>4, <1>7, <1>8 DEF K!Page, K!app, K!AttemptFails
<1>11. CASE K!Checkbox
  BY <1>11, <1>4, <1>5, <1>7, <1>8 DEF K!Checkbox, K!app, K!AttemptFails
<1>12. CASE K!Slider
  <2>1. Goes
    BY <1>12, <1>4, <1>5, <1>8 DEF K!Slider, K!AttemptFails
  <2>2. left' \in 1 .. MaxSliderChecks
    BY <1>12 DEF K!Slider, K!TypeOK
  <2> QED  BY <2>1, <2>2, <1>6, <1>12 DEF K!Slider, K!app, K!TypeOK
<1>13. CASE K!Check
  <2>1. Goes
    BY <1>13, <1>4, <1>5, <1>8 DEF K!Check, K!AttemptFails
  <2>2. left' \in 1 .. MaxSliderChecks
    BY <1>13 DEF K!Check, K!TypeOK
  <2> QED  BY <2>1, <2>2, <1>6, <1>13 DEF K!Check, K!app, K!TypeOK
<1>14. CASE K!Backoff
  <2>1. CASE K!RungFails
    BY <2>1, <1>14, <1>5, <1>7 DEF K!Backoff, K!app
  <2>2. CASE ~(ctx \/ try = K!GoTries)
    <3>1. step' = "page" /\ try' = try + 1 /\ rung' = rung
      BY <2>2, <1>14 DEF K!Backoff
    <3>2. try + 1 \in 1 .. K!GoTries
      BY <2>2 DEF K!GoTries, K!TypeOK
    <3>3. Goes
      BY <3>1, <3>2 DEF K!TypeOK, K!Steps, K!GoTries, Last
    <3> QED  BY <3>3, <1>14, <1>7 DEF K!Backoff, K!app
  <2> QED  BY <2>1, <2>2, <1>14 DEF K!Backoff
<1>15. CASE K!Ask
  <2>1. CASE managed
    BY <2>1, <1>15, <1>5, <1>7 DEF K!Ask
  <2>2. CASE ~managed
    <3>1. /\ step' = "app" /\ rung' = rung /\ try' = try /\ chan' = <<>> /\ open' = TRUE
          /\ UNCHANGED <<left, line, reader>>
      BY <2>2, <1>15 DEF K!Ask, K!Ends, K!DropResult
    <3>2. K!TypeOK'
      BY <3>1 DEF K!TypeOK, K!Steps, K!LastRung, K!GoTries
    <3>3. StaleResultIsDropped'
      BY <3>1 DEF StaleResultIsDropped
    <3> QED  BY <3>1, <3>2, <3>3
  <2> QED  BY <2>1, <2>2
<1>16. CASE K!Answered
  <2>1. Goes
    BY <1>16, <1>4, <1>5, <1>8 DEF K!Answered
  <2> QED  BY <2>1, <1>6, <1>16 DEF K!Answered, K!TypeOK
<1>17. CASE K!Unanswered
  <2>1. Goes  BY <1>17, <1>5 DEF K!Unanswered
  <2>2. chan' \in {<<>>} \cup {<<r>> : r \in [token : BOOLEAN, inTime : BOOLEAN]}
    <3>1. chan' = IF chan = <<>> THEN <<>> ELSE <<[token |-> chan[1].token, inTime |-> FALSE]>>
      BY <1>17 DEF K!Unanswered, K!WaitOver
    <3>2. chan # <<>> => chan[1].token \in BOOLEAN
      BY DEF K!TypeOK
    <3> QED  BY <3>1, <3>2
  <2> QED  BY <2>1, <2>2, <1>6, <1>17 DEF K!Unanswered, K!TypeOK
<1>18. CASE K!Pause
  <2>1. rung + 1 \in 1 .. Last \/ K!Ends("failed")
    BY <1>18, <1>1 DEF K!Pause, K!TypeOK, Last
  <2>2. Goes
    BY <2>1, <1>18, <1>3, <1>4, <1>8 DEF K!Pause
  <2> QED  BY <2>2, <1>18, <1>7 DEF K!Pause, K!app
<1> QED
  BY <1>9, <1>10, <1>11, <1>12, <1>13, <1>14, <1>15, <1>16, <1>17, <1>18 DEF K!SolverStep

-----------------------------------------------------------------------------
(* Steps of the fetch.                                                     *)

(* The next set of credentials, a pause or the end.                        *)
LEMMA ChainFailsIs ==
  ASSUME TypeOK, NEW kind \in {"dead", "captcha", "error"}, ChainFails(kind)
  PROVE  /\ stage' \in {"idle", "pause", "anonToken"}
         /\ attempt' \in 0 .. AttemptLimit - 1 /\ tries' \in 0 .. CaptchaLimit
         /\ outcome' \in Outcomes
         /\ stage' = "pause" => attempt' + 1 < AttemptLimit
         /\ kind \in FinalKinds => stage' = "idle" /\ outcome' = kind
  BY FetchAssumption
     DEF TypeOK, ChainFails, FinalKinds, Done, Ask, NewChain, Outcomes

LEMMA InitIInv == Init => IInv
<1> SUFFICES ASSUME Init PROVE IInv  OBVIOUS
<1> USE FetchAssumption
<1>a. K!LastRung \in Nat \ {0}
  BY LadderLength DEF Init, K!Init
<1>b. rung \in 1 .. K!LastRung /\ try \in 1 .. K!GoTries /\ left \in 1 .. MaxSliderChecks
  BY <1>a DEF Init, K!Init, K!GoTries
<1>1. K!TypeOK
  BY <1>b DEF Init, K!Init, K!TypeOK, K!Steps
<1>c. attempt \in 0 .. AttemptLimit - 1 /\ tries \in 0 .. CaptchaLimit
  BY DEF Init
<1>2. TypeOK
  BY <1>1, <1>c DEF Init, TypeOK, Outcomes
<1> QED
  BY <1>2 DEF Init, K!Init, IInv, RoomLeft, DeadCallIsFinal, LockedOutIsQuiet,
              StaleResultIsDropped

(* Steps in which the solver and the app stand still.                      *)
LEMMA FetchKeeps ==
  ASSUME IInv, UNCHANGED <<settings, captcha>>, ctx' \in BOOLEAN,
         stage' \in Requests \cup {"idle", "pause"},
         attempt' \in 0 .. AttemptLimit - 1, tries' \in 0 .. CaptchaLimit,
         outcome' \in Outcomes, lockout' \in BOOLEAN, dead' \in BOOLEAN,
         stage' = "pause" => attempt' + 1 < AttemptLimit,
         dead' => stage' = "idle" /\ outcome' = "dead", lockout' => stage' = "idle"
  PROVE  IInv'
<1>1. K!TypeOK'
  BY DEF IInv, TypeOK, K!TypeOK, K!LastRung, K!GoTries, settings, captcha
<1>2. TypeOK'
  BY <1>1 DEF IInv, TypeOK, settings
<1>3. RoomLeft'
  BY DEF IInv, RoomLeft, Requests, K!LastRung, settings, captcha
<1>4. StaleResultIsDropped'
  BY DEF IInv, StaleResultIsDropped, captcha
<1> QED  BY <1>2, <1>3, <1>4 DEF IInv, DeadCallIsFinal, LockedOutIsQuiet

(* Steps of the solver, the app or the reader beside a fetch.              *)
LEMMA CaptchaKeeps ==
  ASSUME IInv, UNCHANGED <<settings, ctx, fetch, lockout>>, K!TypeOK',
         step' = "pause" => rung' < K!LastRung', StaleResultIsDropped'
  PROVE  IInv'
  BY DEF IInv, TypeOK, RoomLeft, DeadCallIsFinal, LockedOutIsQuiet, settings, fetch

LEMMA NextIInv == IInv /\ [Next]_vars => IInv'
<1> SUFFICES ASSUME IInv, [Next]_vars PROVE IInv'  OBVIOUS
<1> USE FetchAssumption
<1>a. TypeOK  BY DEF IInv
<1>b. stage # "idle" => ~dead /\ ~lockout  BY DEF IInv, DeadCallIsFinal, LockedOutIsQuiet
<1>c. ASSUME NewChain(0)
      PROVE  /\ stage' = "anonToken" /\ attempt' \in 0 .. AttemptLimit - 1
             /\ tries' \in 0 .. CaptchaLimit /\ outcome' \in Outcomes
  BY <1>c, <1>a DEF NewChain, TypeOK
<1>d. ASSUME NEW r \in Outcomes, Done(r)
      PROVE  /\ stage' = "idle" /\ attempt' \in 0 .. AttemptLimit - 1
             /\ tries' \in 0 .. CaptchaLimit /\ outcome' = r
  BY <1>d, <1>a DEF Done, TypeOK
<1>e. {"ok", "dead", "captcha"} \subseteq Outcomes  BY DEF Outcomes
<1>1. CASE Start
  <2>1. UNCHANGED <<settings, captcha>> /\ ctx' \in BOOLEAN /\ lockout' = lockout /\ dead' = FALSE
    BY <1>1, <1>a DEF Start, TypeOK, K!TypeOK
  <2>2. CASE lockout
    BY <2>1, <2>2, <1>1, <1>a, <1>d, <1>e, FetchKeeps DEF Start, TypeOK
  <2>3. CASE ~lockout /\ Ask("vkcalls")
    BY <2>1, <2>3, <1>1, <1>a, FetchKeeps DEF Ask, Requests, TypeOK
  <2>4. CASE ~lockout /\ NewChain(0)
    BY <2>1, <2>4, <1>1, <1>a, <1>c, FetchKeeps DEF Requests, TypeOK
  <2> QED  BY <2>2, <2>3, <2>4, <1>1 DEF Start
<1>2. CASE VkCalls
  <2>1. UNCHANGED <<settings, captcha>> /\ ctx' \in BOOLEAN /\ lockout' = lockout /\ ~lockout /\ ~dead
    BY <1>2, <1>a, <1>b DEF VkCalls, TypeOK, K!TypeOK
  <2>2. CASE Done("ok") /\ UNCHANGED dead
    BY <2>1, <2>2, <1>a, <1>d, <1>e, FetchKeeps DEF TypeOK
  <2>3. CASE CallIsDead /\ Done("dead")
    BY <2>1, <2>3, <1>a, <1>d, <1>e, FetchKeeps DEF CallIsDead, TypeOK
  <2>4. CASE NewChain(0) /\ UNCHANGED dead
    BY <2>1, <2>4, <1>a, <1>c, FetchKeeps DEF Requests, TypeOK
  <2> QED  BY <2>2, <2>3, <2>4, <1>2 DEF VkCalls
<1>3. CASE AnonToken
  <2>1. CASE Ask("preview")
    BY <2>1, <1>3, <1>a, <1>b, FetchKeeps
       DEF AnonToken, Ask, TypeOK, K!TypeOK, Requests
  <2>2. CASE ChainFails("error")
    BY <2>2, <1>3, <1>a, <1>b, ChainFailsIs, FetchKeeps
       DEF AnonToken, TypeOK, K!TypeOK, Requests
  <2> QED  BY <2>1, <2>2, <1>3 DEF AnonToken
<1>4. CASE Preview
  <2>1. CASE Ask("token") /\ UNCHANGED dead
    BY <2>1, <1>4, <1>a, <1>b, FetchKeeps
       DEF Preview, Ask, TypeOK, K!TypeOK, Requests
  <2>2. CASE CallIsDead /\ ChainFails("dead")
    BY <2>2, <1>4, <1>a, <1>b, ChainFailsIs, FetchKeeps
       DEF Preview, CallIsDead, FinalKinds, TypeOK, K!TypeOK, Requests
  <2> QED  BY <2>1, <2>2, <1>4 DEF Preview
<1>5. CASE Token
  <2>1. CASE Ask("session") /\ UNCHANGED dead
    BY <2>1, <1>5, <1>a, <1>b, FetchKeeps
       DEF Token, Ask, TypeOK, K!TypeOK, Requests
  <2>2. CASE CallIsDead /\ ChainFails("dead")
    BY <2>2, <1>5, <1>a, <1>b, ChainFailsIs, FetchKeeps
       DEF Token, CallIsDead, FinalKinds, TypeOK, K!TypeOK, Requests
  <2>3. CASE ChainFails("error") /\ UNCHANGED dead
    BY <2>3, <1>5, <1>a, <1>b, ChainFailsIs, FetchKeeps
       DEF Token, TypeOK, K!TypeOK, Requests
  <2> QED  BY <2>1, <2>2, <2>3, <1>5 DEF Token
<1>6. CASE Session
  <2>1. CASE Done("ok")
    BY <2>1, <1>6, <1>a, <1>b, FetchKeeps
       DEF Session, Done, TypeOK, K!TypeOK, Requests, Outcomes
  <2>2. CASE ChainFails("error")
    BY <2>2, <1>6, <1>a, <1>b, ChainFailsIs, FetchKeeps
       DEF Session, TypeOK, K!TypeOK, Requests
  <2> QED  BY <2>1, <2>2, <1>6 DEF Session
<1>7. CASE Pause
  <2>1. attempt + 1 < AttemptLimit  BY <1>7 DEF Pause, IInv, RoomLeft
  <2> QED
    BY <2>1, <1>7, <1>a, <1>b, FetchKeeps
       DEF Pause, NewChain, Done, TypeOK, K!TypeOK, Requests, Outcomes
<1>8. CASE CaptchaAsked
  <2>1. K!TypeOK' /\ (step' = "pause" => rung' < K!LastRung') /\ StaleResultIsDropped'
    BY <1>8, SolverKeeps DEF CaptchaAsked, IInv, TypeOK, RoomLeft, settings
  <2> QED
    BY <2>1, <1>8, <1>b
       DEF CaptchaAsked, MayTry, IInv, TypeOK, RoomLeft, DeadCallIsFinal, LockedOutIsQuiet,
           settings
<1>9. CASE CaptchaOnceMore
  BY <1>9, <1>a, <1>b, ChainFailsIs, FetchKeeps
     DEF CaptchaOnceMore, FinalKinds, TypeOK, K!TypeOK, Requests
<1>10. CASE CaptchaStep
  BY <1>10, SolverKeeps, CaptchaKeeps DEF CaptchaStep, IInv, TypeOK, RoomLeft, settings
<1>11. ASSUME NEW r \in {"solved", "failed"}, K!Return(r), UNCHANGED <<settings, ctx>>
       PROVE  K!TypeOK' /\ step' = "idle" /\ StaleResultIsDropped'
  <2>1. K!LastRung \in Nat \ {0} /\ K!LastRung' = K!LastRung
    BY <1>11, <1>a, LadderLength DEF TypeOK, K!TypeOK, K!LastRung, settings
  <2> QED
    BY <2>1, <1>11, <1>a
       DEF K!Return, K!app, TypeOK, K!TypeOK, K!Steps, K!GoTries, settings, StaleResultIsDropped
<1>12. CASE CaptchaSolved
  <2>1. K!TypeOK' /\ step' = "idle" /\ StaleResultIsDropped'
    BY <1>12, <1>11 DEF CaptchaSolved
  <2>2. tries' \in 0 .. CaptchaLimit
    BY <1>12 DEF CaptchaSolved, CountTry, IInv, RoomLeft, TypeOK
  <2> QED
    BY <2>1, <2>2, <1>12, <1>b
       DEF CaptchaSolved, IInv, TypeOK, RoomLeft, DeadCallIsFinal, LockedOutIsQuiet, Requests,
           settings
<1>13. CASE CaptchaFails
  <2>1. K!TypeOK' /\ step' = "idle" /\ StaleResultIsDropped'
    BY <1>13, <1>11 DEF CaptchaFails
  <2>2. /\ stage' = "idle" /\ outcome' = "captcha"
        /\ attempt' \in 0 .. AttemptLimit - 1 /\ tries' \in 0 .. CaptchaLimit
    BY <1>13, <1>a, ChainFailsIs DEF CaptchaFails, FinalKinds
  <2> QED
    BY <2>1, <2>2, <1>13, <1>b
       DEF CaptchaFails, IInv, TypeOK, RoomLeft, DeadCallIsFinal, LockedOutIsQuiet, Outcomes,
           settings
<1>14. CASE LockoutEnds
  <2>1. K!TypeOK'
    BY <1>14, <1>a DEF LockoutEnds, TypeOK, K!TypeOK, K!LastRung, K!GoTries, settings, captcha
  <2>2. TypeOK'
    BY <2>1, <1>14, <1>a DEF LockoutEnds, TypeOK, settings, fetch
  <2>3. RoomLeft'
    BY <1>14 DEF LockoutEnds, IInv, RoomLeft, K!LastRung, settings, captcha, fetch
  <2> QED
    BY <2>2, <2>3, <1>14 DEF LockoutEnds, IInv, DeadCallIsFinal, LockedOutIsQuiet,
       StaleResultIsDropped, captcha, fetch
<1>15. CASE Cancel
  <2>1. K!TypeOK'
    BY <1>15, <1>a DEF Cancel, TypeOK, K!TypeOK, K!LastRung, K!GoTries, settings, captcha
  <2>2. TypeOK'
    BY <2>1, <1>15, <1>a DEF Cancel, TypeOK, settings, fetch
  <2>3. RoomLeft'
    BY <1>15 DEF Cancel, IInv, RoomLeft, K!LastRung, settings, captcha, fetch
  <2> QED
    BY <2>2, <2>3, <1>15 DEF Cancel, IInv, DeadCallIsFinal, LockedOutIsQuiet,
       StaleResultIsDropped, captcha, fetch
<1>16. CASE AppAnswers
  <2>1. K!TypeOK' /\ (step' = "pause" => rung' < K!LastRung') /\ StaleResultIsDropped'
    BY <1>16 DEF AppAnswers, K!AppAnswers, K!solver, IInv, TypeOK, K!TypeOK, K!LastRung,
       K!GoTries, RoomLeft, StaleResultIsDropped, settings
  <2> QED  BY <2>1, <1>16, CaptchaKeeps DEF AppAnswers
<1>17. CASE ReaderStep
  <2>1. CASE K!ReaderDrains
    <3>1. K!TypeOK' /\ (step' = "pause" => rung' < K!LastRung') /\ StaleResultIsDropped'
      BY <2>1, <1>17 DEF ReaderStep, K!ReaderDrains, K!ReaderDrops, K!solver, IInv, TypeOK,
         K!TypeOK, K!LastRung, K!GoTries, RoomLeft, StaleResultIsDropped, settings
    <3> QED  BY <3>1, <1>17, CaptchaKeeps DEF ReaderStep
  <2>2. CASE K!ReaderSends
    <3>1. line[1] \in BOOLEAN \/ line = <<>>
      BY <1>a DEF TypeOK, K!TypeOK
    <3>2. K!TypeOK'
      <4>1. line # <<>>
        BY <2>2, <1>a DEF K!ReaderSends, TypeOK, K!TypeOK
      <4>2. [token |-> line[1], inTime |-> step = "app"] \in [token : BOOLEAN, inTime : BOOLEAN]
        BY <3>1, <4>1
      <4> DEFINE r == [token |-> line[1], inTime |-> step = "app"]
      <4>3. chan' = <<r>> /\ r \in [token : BOOLEAN, inTime : BOOLEAN]
        BY <4>2, <2>2 DEF K!ReaderSends
      <4> HIDE DEF r
      <4>4. chan' \in {<<>>} \cup {<<x>> : x \in [token : BOOLEAN, inTime : BOOLEAN]}
        BY <4>3
      <4> QED
        BY <4>4, <2>2, <1>17, <1>a DEF ReaderStep, K!ReaderSends, K!solver, TypeOK, K!TypeOK,
           K!LastRung, K!GoTries, settings
    <3>3. (step' = "pause" => rung' < K!LastRung') /\ StaleResultIsDropped'
      BY <2>2, <1>17 DEF ReaderStep, K!ReaderSends, K!solver, IInv, RoomLeft, K!LastRung,
         StaleResultIsDropped, settings
    <3> QED  BY <3>2, <3>3, <1>17, CaptchaKeeps DEF ReaderStep
  <2> QED  BY <2>1, <2>2, <1>17 DEF ReaderStep, K!ReaderStep
<1>18. CASE UNCHANGED vars
  BY <1>18 DEF vars, IInv, TypeOK, K!TypeOK, K!LastRung, K!GoTries, RoomLeft,
     DeadCallIsFinal, LockedOutIsQuiet, StaleResultIsDropped, settings, captcha, fetch
<1> QED
  BY <1>1, <1>2, <1>3, <1>4, <1>5, <1>6, <1>7, <1>8, <1>9, <1>10, <1>12, <1>13, <1>14,
     <1>15, <1>16, <1>17, <1>18 DEF Next, FetchStep

LEMMA Inductive == Spec => []IInv
<1>1. Init => IInv  BY InitIInv
<1>2. IInv /\ [Next]_vars => IInv'  BY NextIInv
<1> QED  BY <1>1, <1>2, PTL DEF Spec

-----------------------------------------------------------------------------
(* Every variable keeps its type: the counters of attempts, captchas and   *)
(* rungs stay below their limits (creds.go:339, 485, 676).                 *)
THEOREM TypeCorrect == Spec => []TypeOK
<1>1. IInv => TypeOK  BY DEF IInv
<1> QED  BY <1>1, Inductive, PTL

(* VK's word that the call is over ends the fetch with that error          *)
(* (creds.go:326, 353), however many client ids there are.                 *)
THEOREM DeadCallEndsTheFetch == Spec => []DeadCallIsFinal
<1>1. IInv => DeadCallIsFinal  BY DEF IInv
<1> QED  BY <1>1, Inductive, PTL

(* No request is made while the lockout runs (creds.go:317, 501, 515).     *)
THEOREM LockoutSilences == Spec => []LockedOutIsQuiet
<1>1. IInv => LockedOutIsQuiet  BY DEF IInv
<1> QED  BY <1>1, Inductive, PTL

(* A result left on the channel by an earlier request is never taken for   *)
(* the answer to a later one (creds.go:743).                               *)
THEOREM NoStaleResult == Spec => []StaleResultIsDropped
<1>1. IInv => StaleResultIsDropped  BY DEF IInv
<1> QED  BY <1>1, Inductive, PTL

-----------------------------------------------------------------------------
(* The channel has room when the reader of stdin comes to send: it has     *)
(* drained it, and nobody else sends in between (main.go:158-162).         *)
RoomForTheResult == reader = "drained" => chan = <<>>

LEMMA SolverTakesOnly ==
  ASSUME K!SolverStep
  PROVE  UNCHANGED <<line, reader>> /\ (chan = <<>> => chan' = <<>>)
<1>1. CASE K!Page \/ K!Checkbox \/ K!Slider \/ K!Check \/ K!Backoff \/ K!Pause
  BY <1>1 DEF K!Page, K!Checkbox, K!Slider, K!Check, K!Backoff, K!Pause, K!app
<1>2. CASE K!Ask
  BY <1>2 DEF K!Ask, K!DropResult
<1>3. CASE K!Answered \/ K!Unanswered
  BY <1>3 DEF K!Answered, K!Unanswered, K!WaitOver
<1>4. QED
  BY <1>1, <1>2, <1>3 DEF K!SolverStep

(* The send of a result never blocks, so the reader is back at stdin,      *)
(* where the next line may be STOP, whoever waits for captchas or does not *)
(* (main.go:158-162).                                                      *)
THEOREM ReaderNeverBlocks == Spec => []RoomForTheResult
<1>1. Init => RoomForTheResult
  BY DEF Init, K!Init, RoomForTheResult
<1>2. RoomForTheResult /\ [Next]_vars => RoomForTheResult'
  <2>1. SUFFICES ASSUME RoomForTheResult, [Next]_vars PROVE RoomForTheResult'
    OBVIOUS
  <2>2. CASE UNCHANGED captcha
    BY <2>1, <2>2 DEF RoomForTheResult, captcha
  <2>3. CASE CaptchaStep
    BY <2>1, <2>3, SolverTakesOnly DEF CaptchaStep, RoomForTheResult
  <2>4. CASE CaptchaAsked \/ CaptchaSolved \/ CaptchaFails
    BY <2>1, <2>4 DEF CaptchaAsked, CaptchaSolved, CaptchaFails, K!Begin, K!Return, K!app,
       RoomForTheResult
  <2>5. CASE AppAnswers
    BY <2>1, <2>5 DEF AppAnswers, K!AppAnswers, RoomForTheResult
  <2>6. CASE ReaderStep
    BY <2>6 DEF ReaderStep, K!ReaderStep, K!ReaderDrains, K!ReaderDrops, K!ReaderSends,
       RoomForTheResult
  <2>7. UNCHANGED captcha \/ CaptchaStep \/ CaptchaAsked \/ CaptchaSolved \/ CaptchaFails
          \/ AppAnswers \/ ReaderStep
    BY <2>1 DEF Next, FetchStep, Start, VkCalls, AnonToken, Preview, Token, Session, Pause,
       CaptchaOnceMore, LockoutEnds, Cancel, vars
  <2>8. QED
    BY <2>2, <2>3, <2>4, <2>5, <2>6, <2>7
<1>3. QED
  BY <1>1, <1>2, PTL DEF Spec

-----------------------------------------------------------------------------
(* What is left of a fetch.                                                *)

Ranks == [1 .. 7 -> Nat]

(* Nothing can be taken from what is left for ever.                        *)
THEOREM RankIsWellFounded == IsWellFoundedOn({rr \in Ranks \X Ranks : Below(rr[1], rr[2])}, Ranks)
<1> DEFINE Lex == LexProductOrdering(OpToRel(<, Nat), Nat, 7)
           R == {rr \in Ranks \X Ranks : Below(rr[1], rr[2])}
<1>1. IsWellFoundedOn(Lex, Ranks)
  BY NatLessThanWellFounded, WFLexProductOrdering DEF Ranks
<1>2. R \cap (Ranks \X Ranks) \subseteq Lex
  <2>1. SUFFICES ASSUME NEW rr \in Ranks \X Ranks, Below(rr[1], rr[2])
                 PROVE  rr \in Lex
    OBVIOUS
  <2>2. PICK i \in 1 .. 7 : rr[1][i] < rr[2][i] /\ \A j \in 1 .. i - 1 : rr[1][j] = rr[2][j]
    BY <2>1 DEF Below
  <2>3. <<rr[1][i], rr[2][i]>> \in OpToRel(<, Nat)
    BY <2>2 DEF OpToRel, Ranks
  <2>4. QED
    BY <2>2, <2>3 DEF LexProductOrdering, Ranks
<1> HIDE DEF Lex
<1>3. QED
  BY <1>1, <1>2, IsWellFoundedOnSubrelation

(* Where the ranks of two states first differ.                             *)
LEMMA BelowAt ==
  ASSUME NEW a, NEW b, NEW i \in 1 .. 7, a[i] < b[i], \A j \in 1 .. i - 1 : a[j] = b[j]
  PROVE  Below(a, b)
  BY DEF Below

LEMMA RankType == IInv => Rank \in Ranks
<1> SUFFICES ASSUME IInv PROVE Rank \in Ranks
  OBVIOUS
<1>1. K!LastRung \in Nat \ {0}
  BY LadderLength DEF IInv, TypeOK, K!TypeOK
<1>2. Chains \in Nat
  BY FetchAssumption DEF IInv, TypeOK, Chains
<1>3. Part[stage] \in Nat
  BY DEF IInv, TypeOK, Requests, Part
<1>4. CaptchaLimit - tries \in Nat
  BY FetchAssumption DEF IInv, TypeOK
<1>5. Rungs \in Nat
  BY <1>1 DEF IInv, TypeOK, K!TypeOK, Rungs
<1>6. 2 - try \in Nat
  BY DEF IInv, TypeOK, K!TypeOK, K!GoTries
<1>7. Place[step] \in Nat
  BY DEF IInv, TypeOK, K!TypeOK, K!Steps, Place
<1>8. left \in Nat
  BY FetchAssumption DEF IInv, TypeOK, K!TypeOK
<1>9. QED
  BY <1>2, <1>3, <1>4, <1>5, <1>6, <1>7, <1>8 DEF Rank, Ranks

(* A step of the solver takes a later rung, another attempt, another place *)
(* in the attempt or a guess.                                              *)
LEMMA SolverGoesOn ==
  ASSUME K!TypeOK, step = "pause" => rung < K!LastRung, MaxSliderChecks \in Nat \ {0},
         K!SolverStep
  PROVE  \/ rung < K!LastRung /\ rung' = rung + 1
         \/ rung' = rung /\ try < 2 /\ try' = try + 1
         \/ rung' = rung /\ try' = try /\ Place[step'] < Place[step]
         \/ rung' = rung /\ try' = try /\ step' = step /\ left' = left - 1
<1> DEFINE Goes == \/ rung < K!LastRung /\ rung' = rung + 1
                   \/ rung' = rung /\ try' = try /\ Place[step'] < Place[step]
<1>1. rung \in 1 .. K!LastRung /\ try \in 1 .. 2 /\ left \in 1 .. MaxSliderChecks
  BY DEF K!TypeOK, K!GoTries
<1>2. ASSUME NEW r \in {"failed", "solved"}, K!Ends(r),
             step \in {"page", "checkbox", "slider", "check", "backoff", "ask", "app", "pause"}
      PROVE  Goes
  BY <1>2 DEF K!Ends, Place
<1>3. ASSUME K!RungFails, step \in {"checkbox", "slider", "check", "backoff", "ask", "app"}
      PROVE  Goes
  <2>1. CASE K!Ends("failed")
    BY <2>1, <1>2, <1>3
  <2>2. CASE K!Ends("pause")
    BY <2>2, <1>3 DEF K!Ends, Place
  <2>3. CASE rung # K!LastRung /\ K!Enter(rung + 1)
    BY <2>3, <1>1, LadderLength DEF K!Enter, K!TypeOK
  <2>4. QED
    BY <2>1, <2>2, <2>3, <1>3 DEF K!RungFails
<1>4. CASE K!Page
  BY <1>4 DEF K!Page, K!AttemptFails, K!Ends, Place
<1>5. CASE K!Checkbox
  BY <1>5, <1>2, <1>3 DEF K!Checkbox, K!AttemptFails, K!Ends, Place
<1>6. CASE K!Slider
  BY <1>6, <1>3 DEF K!Slider, K!AttemptFails, K!Ends, Place
<1>7. CASE K!Check
  <2>1. CASE K!Ends("check") /\ left' = left - 1
    BY <2>1, <1>7 DEF K!Check, K!Ends
  <2>2. CASE K!AttemptFails \/ K!Ends("solved") \/ K!RungFails
    BY <2>2, <1>2, <1>3, <1>7 DEF K!Check, K!AttemptFails, K!Ends, Place
  <2>3. QED
    BY <2>1, <2>2, <1>7 DEF K!Check
<1>8. CASE K!Backoff
  <2>1. CASE K!RungFails
    BY <2>1, <1>3, <1>8 DEF K!Backoff
  <2>2. CASE try # K!GoTries /\ try' = try + 1 /\ UNCHANGED rung
    BY <2>2 DEF K!TypeOK, K!GoTries
  <2>3. QED
    BY <2>1, <2>2, <1>8 DEF K!Backoff
<1>9. CASE K!Ask
  BY <1>9, <1>3 DEF K!Ask, K!Ends, Place
<1>10. CASE K!Answered
  BY <1>10, <1>2, <1>3 DEF K!Answered
<1>11. CASE K!Unanswered
  BY <1>11, <1>3 DEF K!Unanswered
<1>12. CASE K!Pause
  BY <1>12, <1>1, <1>2 DEF K!Pause, K!Enter
<1>13. QED
  BY <1>4, <1>5, <1>6, <1>7, <1>8, <1>9, <1>10, <1>11, <1>12 DEF K!SolverStep

(* A token chain that failed leaves fewer chains, or only a pause.         *)
LEMMA ChainGoesOn ==
  ASSUME IInv, NEW kind \in {"dead", "captcha", "error"}, ChainFails(kind),
         stage \in {"anonToken", "preview", "token", "captcha", "session"}
  PROVE  \/ Chains' < Chains
         \/ Chains' = Chains /\ Part[stage'] < Part[stage]
<1>1. attempt \in 0 .. AttemptLimit - 1 /\ Chains = AttemptLimit - attempt
  BY DEF IInv, TypeOK, Chains
<1>2. CASE stage' = "idle"
  BY <1>1, <1>2, FetchAssumption DEF Chains
<1>3. CASE stage' = "pause" /\ attempt' = attempt
  BY <1>1, <1>3 DEF Chains, Part
<1>4. CASE stage' = "anonToken" /\ attempt' = attempt + 1
  BY <1>1, <1>4, FetchAssumption DEF Chains
<1>5. QED
  BY <1>2, <1>3, <1>4 DEF ChainFails, Done, Ask, NewChain

LEMMA FetchStepIsOneLess == IInv /\ FetchStep => Below(Rank', Rank)
<1> SUFFICES ASSUME IInv, FetchStep PROVE Below(Rank', Rank)
  OBVIOUS
<1>1. /\ Rank[1] = Chains /\ Rank[2] = Part[stage] /\ Rank[3] = CaptchaLimit - tries
      /\ Rank[4] = Rungs /\ Rank[5] = 2 - try /\ Rank[6] = Place[step] /\ Rank[7] = left
  BY DEF Rank
<1>2. /\ Rank'[1] = Chains' /\ Rank'[2] = Part[stage'] /\ Rank'[3] = CaptchaLimit - tries'
      /\ Rank'[4] = Rungs' /\ Rank'[5] = 2 - try' /\ Rank'[6] = Place[step']
      /\ Rank'[7] = left'
  BY DEF Rank, Part, Place
<1> DEFINE a == Rank'
           b == Rank
<1> SUFFICES Below(a, b)
  OBVIOUS
<1> HIDE DEF a, b
<1>3. ASSUME Chains' < Chains PROVE Below(a, b)
  BY <1>1, <1>2, <1>3, BelowAt DEF a, b
<1>4. ASSUME Chains' = Chains, Part[stage'] < Part[stage] PROVE Below(a, b)
  BY <1>1, <1>2, <1>4, BelowAt DEF a, b
<1> DEFINE Same == Chains' = Chains /\ Part[stage'] = Part[stage]
<1>5. ASSUME Same, CaptchaLimit - tries' < CaptchaLimit - tries PROVE Below(a, b)
  BY <1>1, <1>2, <1>5, BelowAt DEF a, b
<1>6. ASSUME Same, tries' = tries, Rungs' < Rungs PROVE Below(a, b)
  BY <1>1, <1>2, <1>6, BelowAt DEF a, b
<1>7. ASSUME Same, tries' = tries, Rungs' = Rungs, 2 - try' < 2 - try PROVE Below(a, b)
  BY <1>1, <1>2, <1>7, BelowAt DEF a, b
<1>8. ASSUME Same, tries' = tries, Rungs' = Rungs, try' = try, Place[step'] < Place[step]
      PROVE  Below(a, b)
  BY <1>1, <1>2, <1>8, BelowAt DEF a, b
<1>9. ASSUME Same, tries' = tries, Rungs' = Rungs, try' = try, step' = step, left' < left
      PROVE  Below(a, b)
  BY <1>1, <1>2, <1>9, BelowAt DEF a, b
<1>10. attempt \in 0 .. AttemptLimit - 1 /\ tries \in 0 .. CaptchaLimit /\ K!TypeOK
  BY DEF IInv, TypeOK
<1>11. CASE VkCalls
  BY <1>11, <1>3, FetchAssumption DEF VkCalls, Done, NewChain, Chains
<1>12. ASSUME NEW kind \in {"dead", "captcha", "error"}, ChainFails(kind),
              stage \in {"anonToken", "preview", "token", "captcha", "session"}
       PROVE  Below(a, b)
  BY <1>12, ChainGoesOn, <1>3, <1>4
<1>13. CASE AnonToken
  BY <1>13, <1>12, <1>4 DEF AnonToken, Ask, Chains, Part
<1>14. CASE Preview
  BY <1>14, <1>12, <1>4 DEF Preview, Ask, Chains, Part
<1>15. CASE Token
  BY <1>15, <1>12, <1>4 DEF Token, Ask, Chains, Part
<1>16. CASE Session
  BY <1>16, <1>12, <1>10, <1>3, FetchAssumption DEF Session, Done, Chains
<1>17. CASE Pause
  BY <1>17, <1>10, <1>3, FetchAssumption DEF Pause, NewChain, Done, Chains, IInv, RoomLeft
<1>18. CASE CaptchaAsked
  <2>1. Same /\ tries' = tries /\ rung' = 1
    BY <1>18 DEF CaptchaAsked, K!Begin, K!Enter, Chains, Part
  <2>2. K!LastRung' = K!LastRung /\ K!LastRung \in Nat \ {0}
    BY <1>18, <1>10, LadderLength DEF CaptchaAsked, settings, K!LastRung, K!TypeOK
  <2>3. Rungs' < Rungs
    BY <2>1, <2>2, <1>18 DEF CaptchaAsked, Rungs
  <2>4. QED
    BY <2>1, <2>3, <1>6
<1>19. CASE CaptchaOnceMore
  BY <1>19, <1>12 DEF CaptchaOnceMore
<1>20. CASE CaptchaStep
  <2>1. Same /\ tries' = tries
    BY <1>20 DEF CaptchaStep, fetch, Chains
  <2>2. K!LastRung' = K!LastRung /\ K!LastRung \in Nat \ {0}
    BY <1>20, <1>10, LadderLength DEF CaptchaStep, settings, K!LastRung, K!TypeOK
  <2>3. rung \in 1 .. K!LastRung /\ try \in 1 .. 2 /\ left \in 1 .. MaxSliderChecks
    BY <1>10 DEF K!TypeOK, K!GoTries
  <2>4. Rungs = K!LastRung - rung /\ Rungs' = K!LastRung - rung'
    BY <2>2, <1>20 DEF CaptchaStep, fetch, Rungs
  <2>5. \/ rung < K!LastRung /\ rung' = rung + 1
        \/ rung' = rung /\ try < 2 /\ try' = try + 1
        \/ rung' = rung /\ try' = try /\ Place[step'] < Place[step]
        \/ rung' = rung /\ try' = try /\ step' = step /\ left' = left - 1
    BY <1>20, <1>10, SolverGoesOn, FetchAssumption DEF CaptchaStep, IInv, RoomLeft
  <2>6. QED
    BY <2>1, <2>2, <2>3, <2>4, <2>5, <1>6, <1>7, <1>8, <1>9, FetchAssumption
<1>21. CASE CaptchaSolved
  <2>1. Same /\ tries' = tries + 1
    BY <1>21 DEF CaptchaSolved, CountTry, Chains, Part
  <2>2. QED
    BY <2>1, <1>10, <1>5, FetchAssumption
<1>22. CASE CaptchaFails
  BY <1>22, <1>12 DEF CaptchaFails
<1>23. QED
  BY <1>11, <1>13, <1>14, <1>15, <1>16, <1>17, <1>18, <1>19, <1>20, <1>21, <1>22
     DEF FetchStep

(* Each step of a fetch leaves less of it to do, and nobody else adds to   *)
(* it, for every number of credentials, captchas and guesses; with         *)
(* RankIsWellFounded no fetch goes on for ever (creds.go:339, 485, 676).   *)
THEOREM EachStepCounts == Spec => EachStepIsOneLess
<1> DEFINE A == /\ FetchStep => Below(Rank', Rank)
                /\ stage # "idle" /\ ~FetchStep => Rank' = Rank
<1>1. IInv /\ [Next]_vars => [A]_vars
  <2>1. SUFFICES ASSUME IInv, Next PROVE A
    OBVIOUS
  <2>2. FetchStep => Below(Rank', Rank)
    BY <2>1, FetchStepIsOneLess
  <2>3. ASSUME stage # "idle", ~FetchStep PROVE Rank' = Rank
    <3>1. UNCHANGED <<settings, stage, attempt, tries, step, rung, try, left>>
      BY <2>1, <2>3 DEF Next, Start, LockoutEnds, Cancel, AppAnswers, ReaderStep, captcha, fetch,
         K!AppAnswers, K!ReaderStep, K!ReaderDrains, K!ReaderSends, K!solver
    <3>2. QED
      BY <3>1 DEF Rank, Chains, Rungs, K!LastRung, settings, Part, Place
  <2>4. QED
    BY <2>2, <2>3
<1>2. QED
  BY <1>1, Inductive, PTL DEF Spec, EachStepIsOneLess

=============================================================================
