----------------------------- MODULE MCClaiming -----------------------------
(* Claiming with model values. *)
EXTENDS Claiming

CONSTANTS g1

\* All threads are of the same agent.
OneAgent == [t \in Claimers |-> g1]

==============================================================================
