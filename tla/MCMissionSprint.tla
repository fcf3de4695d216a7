--------------------------- MODULE MCMissionSprint ---------------------------
(* Instances of MissionSprint for TLC. *)
EXTENDS MissionSprint, TLC

\* The processes, the missions and the sprints are interchangeable.
Interchangeable == Permutations(Calls) \cup Permutations(Missions) \cup Permutations(Sprints)

=============================================================================
