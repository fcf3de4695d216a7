---------------------------- MODULE MCUploadLease ----------------------------
(* Bounds under which TLC explores UploadLease.                             *)
EXTENDS UploadLease, TLC

CONSTANTS MaxTime,    \* clock ticks explored
          MaxWrites,  \* writes committed to the store
          MaxClaims,  \* claims of the lease
          MaxMarks,   \* marks taken by the row
          MaxSteps    \* ticks and writes together

Bounded ==
  /\ now <= MaxTime
  /\ store <= MaxWrites
  /\ now + store <= MaxSteps
  /\ claims <= MaxClaims
  /\ row.generation <= MaxMarks
=============================================================================
