--------------------------- MODULE MCConnections ----------------------------
(* Small instances of Connections for TLC. *)
EXTENDS Connections

CONSTANTS u1, u2, w1, w2

\* Three requests for one user; two at once for two; two, with sessions that expire,
\* one after the other.
MCLoads ==
  {[users |-> {u1}, workers |-> {w1}, tokens |-> 1, requests |-> 3, expiry |-> FALSE],
   [users |-> {u1, u2}, workers |-> {w1, w2}, tokens |-> 2, requests |-> 2, expiry |-> FALSE],
   [users |-> {u1, u2}, workers |-> {w1}, tokens |-> 2, requests |-> 2, expiry |-> TRUE]}
=============================================================================
