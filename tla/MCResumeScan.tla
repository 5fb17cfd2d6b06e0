---------------------------- MODULE MCResumeScan ----------------------------
(***************************************************************************)
(* Instances of ResumeScan for TLC: a plan of two tasks, the second of     *)
(* which depends on the first.                                             *)
(***************************************************************************)
EXTENDS ResumeScan, TLC

CONSTANTS r1, r2, a, b

TwoTasks == <<a, b>>

Names == [e \in Entry |-> e]
BAfterA == [e \in Entry |-> IF e = b THEN {a} ELSE {}]

Symmetry == Permutations({r1, r2})
=============================================================================
