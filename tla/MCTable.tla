------------------------------ MODULE MCTable ------------------------------
(***************************************************************************)
(* Table for TLC, in two instances.  Spec explores seating, readiness and  *)
(* any number of successive hands with few chips; OneHand explores the     *)
(* betting of one hand with more of them.                                  *)
(***************************************************************************)
EXTENDS Table, TLC

Symmetry == Permutations(Players)

\* No guard reads the two counters or the connection flags, so states that
\* differ only in them have the same future.
View ==
  <<[table EXCEPT !.hand_id = 0, !.server_sequence = 0, !.connected = <<>>], sameRoster>>

\* Every seat taken and ready, with any buy-ins; Players are the seat numbers.
SeatedInit ==
  /\ \E buy_in \in [0 .. MaxPlayers - 1 -> MinBuyIn .. MaxBuyIn] :
       table = [EmptyTable EXCEPT
                  !.occupant = [s \in Seats |-> IF s < MaxPlayers THEN s ELSE NoPlayer],
                  !.stack = [s \in Seats |-> IF s < MaxPlayers THEN buy_in[s] ELSE 0],
                  !.ready = [s \in Seats |-> s < MaxPlayers],
                  !.connected = [s \in Seats |-> s < MaxPlayers],
                  !.server_sequence = 2 * MaxPlayers]
  /\ TotalChips(table) <= MaxTableChips
  /\ sameRoster = FALSE

FirstHand == table.hand_id = 0 /\ StartHand

OneHand == SeatedInit /\ [][FirstHand \/ Act]_vars

\* Somebody always acts: a client, or the action timer in its place.  This is
\* WF_vars(Act) written out, because ENABLED Act is slow to evaluate: Act is
\* enabled exactly while the acting seat passes the checks of act(), since
\* folding is always possible, and then every step is an Act.
Asked == table.acting_seat # NoSeat /\ MayAct(table, table.acting_seat)
ActFairness == []<>~Asked \/ []<><<Asked>>_vars

OneFairHand == OneHand /\ ActFairness
=============================================================================
