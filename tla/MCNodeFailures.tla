--------------------------- MODULE MCNodeFailures ---------------------------
(* A small instance of NodeFailures for TLC. *)
EXTENDS NodeFailures, TLC

Symmetry == Permutations(Nodes) \cup Permutations(Users) \cup Permutations(Workers)
=============================================================================
