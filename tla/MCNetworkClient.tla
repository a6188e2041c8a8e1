-------------------------- MODULE MCNetworkClient ---------------------------
(* NetworkClient for TLC. *)
EXTENDS NetworkClient
=============================================================================
