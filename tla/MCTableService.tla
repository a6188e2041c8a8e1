--------------------------- MODULE MCTableService ---------------------------
(* Small instances of TableService for TLC. *)
EXTENDS TableService, TLC

CONSTANTS u1, u2, r1

MCUsers == {u1, u2}
Symmetry == Permutations(MCUsers)
FreshOnly == {Fresh}
ReusedId == {r1}

\* Two hands, and nothing fails.
Steady ==
  [store_fails |-> FALSE, queues_fill |-> FALSE, blinds_settle |-> FALSE,
   sequences |-> 9, hands |-> 2, rooms |-> 1, looks |-> 2]

\* Calls fail or lose their reply, queues fill up, two rooms in succession.
Faulty ==
  [store_fails |-> TRUE, queues_fill |-> TRUE, blinds_settle |-> FALSE,
   sequences |-> 7, hands |-> 2, rooms |-> 2, looks |-> 1]

\* The same with hands that the blinds may settle.
ShortStacks ==
  [store_fails |-> TRUE, queues_fill |-> TRUE, blinds_settle |-> TRUE,
   sequences |-> 7, hands |-> 1, rooms |-> 2, looks |-> 0]

\* Everything fails, one room.
OneRoom ==
  [store_fails |-> TRUE, queues_fill |-> TRUE, blinds_settle |-> FALSE,
   sequences |-> 6, hands |-> 1, rooms |-> 1, looks |-> 1]

\* One hand, and nothing fails.
OneHand ==
  [store_fails |-> FALSE, queues_fill |-> FALSE, blinds_settle |-> FALSE,
   sequences |-> 6, hands |-> 1, rooms |-> 1, looks |-> 1]

SteadyOrFaulty == {Steady, Faulty, ShortStacks}
OnlyOneRoom == {OneRoom}
OnlyOneHand == {OneHand}
=============================================================================
