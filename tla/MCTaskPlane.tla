----------------------------- MODULE MCTaskPlane -----------------------------
(***************************************************************************)
(* Instances of TaskPlane for TLC: two processes on one machine, one on    *)
(* another.                                                                *)
(***************************************************************************)
EXTENDS TaskPlane, TLC

CONSTANTS m1, m2, p1, p2, p3

\* The two processes of a machine are interchangeable.
Symmetry == Permutations({p1, p2})

Home == [p \in Proc |-> IF p = p3 THEN m2 ELSE m1]
=============================================================================
