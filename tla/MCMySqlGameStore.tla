------------------------- MODULE MCMySqlGameStore -------------------------
(***************************************************************************)
(* MySqlGameStore for TLC.                                                 *)
(***************************************************************************)
EXTENDS MySqlGameStore, TLC

CONSTANTS Requests, Sequences, ActionTypes

MCActionRows ==
  [hand : Hands, sequence : Sequences, user : Users, request : Requests, action : ActionTypes]

\* Two keys of each user, two calls at a time, one hand, no action log.
Money == [callers |-> 2, keys |-> 2, hands |-> 1, seats |-> {0, 1}, actions |-> FALSE]

\* One call at a time, two hands, an action log with two sequence numbers; a seat
\* number out of range.
History == [callers |-> 1, keys |-> 1, hands |-> 2, seats |-> {0, 1, 2}, actions |-> TRUE]

MoneyOrHistory == {Money, History}

Symmetry ==
  Permutations(Users) \cup Permutations(Callers) \cup Permutations(Keys) \cup Permutations(Tables)
=============================================================================
