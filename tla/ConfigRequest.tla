--------------------------- MODULE ConfigRequest ---------------------------
(***************************************************************************)
(* What the worker groups promise about the configuration: at any moment   *)
(* at most one worker asks the server for it, a request that failed leaves *)
(* the next worker free to ask, and after an answer nobody asks again.     *)
(***************************************************************************)
CONSTANTS Workers, Nobody

VARIABLES
  asker,    \* the worker whose session carries the request, or Nobody
  answered  \* the configuration has been brought back

vars == <<asker, answered>>

Init == asker = Nobody /\ answered = FALSE

Ask(w) ==
  /\ asker = Nobody /\ ~answered
  /\ asker' = w
  /\ UNCHANGED answered

GiveUp ==
  /\ asker # Nobody
  /\ asker' = Nobody
  /\ UNCHANGED answered

Answer ==
  /\ asker # Nobody
  /\ asker' = Nobody
  /\ answered' = TRUE

Next == GiveUp \/ Answer \/ \E w \in Workers : Ask(w)

Spec == Init /\ [][Next]_vars
=============================================================================
