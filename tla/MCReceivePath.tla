--------------------------- MODULE MCReceivePath ----------------------------
(***************************************************************************)
(* ReceivePath for TLC: one load for the replay cache, with many ids in    *)
(* whole frames, and one for codec and bucket, with a stream cut anywhere. *)
(***************************************************************************)
EXTENDS ReceivePath, TLC

CONSTANTS r0, r1, r2, r3

MCRequests == {r0, r1, r2, r3}

ManyCommands ==
  [requests |-> {r1, r2, r3}, bodies |-> {<<>>}, sends |-> 5, window |-> 1,
   burst |-> 5, ticks |-> 0, again |-> TRUE, cut |-> FALSE, malformed |-> FALSE]

CutStream ==
  [requests |-> {r0}, bodies |-> {<<>>, <<0, 0, 0, 0, 0>>}, sends |-> 3, window |-> 3,
   burst |-> 1, ticks |-> 2, again |-> FALSE, cut |-> TRUE, malformed |-> TRUE]

MCLoads == {ManyCommands, CutStream}

Symmetry == Permutations({r1, r2, r3})
=============================================================================
