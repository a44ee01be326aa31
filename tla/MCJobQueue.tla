------------------------------ MODULE MCJobQueue ------------------------------
(***************************************************************************)
(* Constants for checking JobQueue: j1 is a plain job that is tried once,  *)
(* j2 a more urgent one that is retried once after a backoff.              *)
(***************************************************************************)
EXTENDS JobQueue, TLC

CONSTANTS j1, j2, w1, w2, t1, t2

MCMaxAttempts == j1 :> 1 @@ j2 :> 2
MCBackoff == j1 :> 0 @@ j2 :> 1
MCPriority == j1 :> 1 @@ j2 :> 2
TwoSeconds == [w \in Worker |-> 2]
ShortDelay == {0, 1}

InterchangeableActors == Permutations(Thread) \cup Permutations(Worker)
===============================================================================
