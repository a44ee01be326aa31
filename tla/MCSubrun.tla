------------------------------ MODULE MCSubrun ------------------------------
(* Values for the constants of Subrun. *)
EXTENDS Subrun, TLC

CONSTANTS w1, w2, w3, w4, q1, q2, q3, q4, lead, helper, read, write

\* The lead may delegate reading to helpers, who may delegate too.
MCMaxChildren == (lead :> 2) @@ (helper :> 1)
MCMaxDepth == (lead :> 2) @@ (helper :> 2)
MCAllowedAgents == (lead :> {helper}) @@ (helper :> {helper})
MCAllowedCapabilities == (lead :> {read}) @@ (helper :> {read, write})

Interchangeable == Permutations(Workflow) \cup Permutations(Request)

=============================================================================
