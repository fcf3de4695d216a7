----------------------------- MODULE MCCollabSync -----------------------------
(* Bounds and clocks under which TLC explores CollabSync.                   *)
EXTENDS CollabSync, FiniteSetsExt

CONSTANTS MaxInstant,  \* instants explored
          MaxEdits,    \* edits stamped by all stores
          Fast         \* stores whose clock is ahead

\* By a millisecond: with clocks read every other millisecond, no two stores ever
\* stamp the same one.
FastClocks == [s \in Stores |-> IF s \in Fast THEN 1 ELSE 0]

Bounded ==
  /\ instant <= MaxInstant
  /\ MapThenSumSet(LAMBDA s : counter[s], Stores) <= MaxEdits

=============================================================================
