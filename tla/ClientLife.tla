----------------------------- MODULE ClientLife -----------------------------
(***************************************************************************)
(* What a client process promises to netifd and the app that started it:   *)
(* it stops when it is told to, or when it has given up and said why; it   *)
(* closes once its last session is over, starts none after that, and is    *)
(* gone only then.                                                         *)
(***************************************************************************)
CONSTANT Workers

VARIABLES
  life,      \* "running", "stopping", "closed", "exited"
  told,      \* a fatal error has been reported
  sessions   \* the workers in a session

vars == <<life, told, sessions>>

Working == life \in {"running", "stopping"}

Init == life = "running" /\ told = FALSE /\ sessions = {}

Start(w) ==
  /\ Working
  /\ w \notin sessions /\ sessions' = sessions \cup {w}
  /\ UNCHANGED <<life, told>>

(* Of itself, or refused for good.                                         *)
End(w) ==
  /\ Working
  /\ w \in sessions /\ sessions' = sessions \ {w}
  /\ told' \in {told, TRUE}
  /\ UNCHANGED life

Tell ==
  /\ Working
  /\ told' = TRUE
  /\ UNCHANGED <<life, sessions>>

Stop ==
  /\ life = "running"
  /\ life' = "stopping"
  /\ UNCHANGED <<told, sessions>>

Close ==
  /\ life = "stopping" \/ (life = "running" /\ told)
  /\ sessions = {}
  /\ life' = "closed"
  /\ UNCHANGED <<told, sessions>>

Exit ==
  /\ life = "closed"
  /\ life' = "exited"
  /\ UNCHANGED <<told, sessions>>

Next == (\E w \in Workers : Start(w) \/ End(w)) \/ Tell \/ Stop \/ Close \/ Exit

Spec == Init /\ [][Next]_vars
=============================================================================
