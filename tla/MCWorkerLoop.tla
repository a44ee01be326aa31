----------------------------- MODULE MCWorkerLoop -----------------------------
(***************************************************************************)
(* Constants for checking WorkerLoop: j1 is tried once, j2 is more urgent  *)
(* and is retried once after a backoff; w1's loop never stops.             *)
(***************************************************************************)
EXTENDS WorkerLoop, TLC

CONSTANTS j1, j2, w1, w2

MCMaxAttempts == j1 :> 1 @@ j2 :> 2
MCBackoff == j1 :> 0 @@ j2 :> 1
MCPriority == j1 :> 1 @@ j2 :> 2
TwoSeconds == [w \in Worker |-> 2]
ShortDelay == {0, 1}
===============================================================================
