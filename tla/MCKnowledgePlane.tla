--------------------------- MODULE MCKnowledgePlane ---------------------------
(***************************************************************************)
(* An instance of KnowledgePlane for TLC: two conversations of one user,   *)
(* two editors, the user and a member of the group, and two dor-log calls. *)
(***************************************************************************)
EXTENDS KnowledgePlane

CONSTANTS c1, c2, d1, d2

User == [id |-> "user", groups |-> {}, company |-> "acme"]
Mate == [id |-> "mate", groups |-> {"g"}, company |-> ""]
Editors == {User, Mate}

Symmetry == Permutations({c1, c2}) \cup Permutations({d1, d2})
=============================================================================
