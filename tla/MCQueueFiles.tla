---------------------------- MODULE MCQueueFiles ----------------------------
(* Values for the constants of QueueFiles. *)
EXTENDS QueueFiles

CONSTANTS j1, w1, w2, c1

\* The properties are about jobs that were not contested.
Unexposed == exposed = {}

=============================================================================
