------------------------------ MODULE MCSessions ------------------------------
(* Instances of Sessions for TLC. *)
EXTENDS Sessions, TLC

\* The ids and the calls are interchangeable, and so are the processes that write
\* under their own key.
Interchangeable ==
  Permutations(Sessions) \cup Permutations(Calls) \cup Permutations(Processes \ Linked)

=============================================================================
