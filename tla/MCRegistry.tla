----------------------------- MODULE MCRegistry -----------------------------
EXTENDS Registry, TLC

Interchangeable ==
  Permutations(Calls) \cup Permutations(Paths) \cup Permutations(Ids)

\* Bound: a default is chosen only where the operator leaves the folders alone.
ChosenInPlace ==
  changes > 0 => default = None /\ confirmed = None /\ \A c \in Calls : ~call[c].chosen
=============================================================================
