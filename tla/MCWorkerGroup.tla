--------------------------- MODULE MCWorkerGroup ---------------------------
(***************************************************************************)
(* Instances of the worker groups: one group of two workers, two groups of *)
(* one, and two groups of which the first has two.                         *)
(***************************************************************************)
EXTENDS WorkerGroup, TLC

CONSTANTS w1, w2, w3

OneGroup == (w1 :> 1) @@ (w2 :> 1)
OneWorker == (w1 :> 1)
TwoGroups == (w1 :> 1) @@ (w2 :> 2)
ThreeWorkers == (w1 :> 1) @@ (w2 :> 1) @@ (w3 :> 2)
=============================================================================
