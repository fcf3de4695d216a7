--------------------------- MODULE MCEventReplay ---------------------------
(* Two editors' stores: A with two calls in flight, B with one and sprints.  *)
EXTENDS EventReplay, TLC

CONSTANTS A, B

InFlight == {<<A, 1>>, <<A, 2>>, <<B, 1>>}
SameClocks == [s \in Stores |-> 0]
NoPlans == [s \in Stores |-> {}]
PlansOfB == [s \in Stores |-> IF s = B THEN {1} ELSE {}]

Interchangeable == Permutations(Texts)

\* Bound: where B has a sprint, each store has one call, B is no clone under way, and
\* the log has room for each record once.
SprintsApart ==
  planned[B] # {} => /\ call[<<A, 2>>].pc = "idle"
                     /\ call[<<B, 1>>].pc \notin {"state", "seed"}
                     /\ Len(log) <= MaxRecords
=============================================================================
