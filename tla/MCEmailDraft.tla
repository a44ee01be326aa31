---------------------------- MODULE MCEmailDraft ----------------------------
(* Values for the constants of EmailDraft. *)
EXTENDS EmailDraft, TLC

CONSTANTS i1, c1, c2, c3, c4, o1, o2

Interchangeable == Permutations(Call) \cup Permutations(Operator)

=============================================================================
