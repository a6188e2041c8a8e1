------------------------------ MODULE MCLobby -------------------------------
(* A small instance of Lobby for TLC. *)
EXTENDS Lobby, TLC

Symmetry == Permutations(Nodes) \cup Permutations(Users) \cup Permutations(Workers)
=============================================================================
