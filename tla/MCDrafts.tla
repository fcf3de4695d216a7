------------------------------ MODULE MCDrafts ------------------------------
(* Bounds and symmetry for the model checker. *)
EXTENDS Drafts, TLC

Interchangeable ==
  Permutations(Sessions) \cup Permutations(Drafts) \cup Permutations(Calls)

\* Bound: drafts of constraints come by themselves, in one reply that one message
\* answers; what is particular about them follows the claim.
ConstraintsApart ==
  \/ \A d \in Created : kind[d] # "constraint"
  \/ /\ talk.replies <= 1 /\ talk.messages <= 1
     /\ \A d \in Created : kind[d] = "constraint"
=============================================================================
