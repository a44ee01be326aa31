----------------------------- MODULE MCSession -----------------------------
(* Values for the constants of Session. *)
EXTENDS Session, TLC

CONSTANTS r1, r2, r3, r4, r5

Interchangeable == Permutations(Request)

=============================================================================
