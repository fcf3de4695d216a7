------------------------------ MODULE MCSpinOut ------------------------------
(* Commands that overlap: in their rows, in their target, in both.          *)
EXTENDS SpinOut, TLC

CONSTANTS r1, r2, t1, t2

Commands == {[target |-> t1, rows |-> {r1}],
             [target |-> t2, rows |-> {r1, r2}]}

Interchangeable == Permutations(Processes)
=============================================================================
