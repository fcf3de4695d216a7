-------------------------- MODULE MCNextStepLease --------------------------
(* Instances of NextStepLease for TLC. *)
EXTENDS NextStepLease, TLC

Interchangeable == Permutations(Calls) \cup Permutations(Steps) \cup Permutations(Sprints)

=============================================================================
