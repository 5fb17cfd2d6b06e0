------------------------- MODULE MCCheckpointPlane -------------------------
(***************************************************************************)
(* Instances of CheckpointPlane for TLC.                                   *)
(***************************************************************************)
EXTENDS CheckpointPlane, TLC

CONSTANTS r1, r2, h1, h2

\* Runs and handlers are interchangeable.
Symmetry == Permutations({r1, r2}) \cup Permutations({h1, h2})
=============================================================================
