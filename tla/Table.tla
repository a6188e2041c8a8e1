------------------------------- MODULE Table -------------------------------
(***************************************************************************)
(* The no-limit hold'em table of src/src/poker/domain/table.cpp: seating,  *)
(* blinds, betting rounds, side pots and settlement.  One Table object is  *)
(* owned by one room, which runs one operation at a time, so every public  *)
(* operation of the class is one atomic action here.                       *)
(*                                                                         *)
(* The private members of the class are the fields of the record `table';  *)
(* the C++ helpers, which mutate those members one after the other, are    *)
(* operators from a record to the next record.  A rejected operation       *)
(* returns an error and changes nothing, so only accepted ones are steps.  *)
(*                                                                         *)
(* Cards are abstracted to what a settlement reads of them: `strength',    *)
(* the outcome of evaluateBest for every seat, is chosen when the hand is  *)
(* shown down.  last_awards_ is kept as the total won by each player.      *)
(* PlayerStatus::disconnected is never assigned by the code.               *)
(***************************************************************************)
EXTENDS Integers

CONSTANTS
  Players,              \* the ids that may sit at the table
  NoPlayer, NoSeat,     \* std::nullopt
  MinPlayers, MaxPlayers, SmallBlind, BigBlind, MinBuyIn, MaxBuyIn,
  Strengths,            \* values HandValue can take, as far as comparison goes
  MaxTableChips         \* bound: no buy-in takes the table above this total

\* validateConfig refuses every operation of a table configured otherwise.
ASSUME ConfigAssumption ==
  /\ MinPlayers \in Nat /\ MaxPlayers \in Nat
  /\ 2 <= MinPlayers /\ MinPlayers <= MaxPlayers /\ MaxPlayers <= 6
  /\ SmallBlind \in Nat /\ BigBlind \in Nat
  /\ SmallBlind > 0 /\ BigBlind >= 2 * SmallBlind
  /\ MinBuyIn \in Nat /\ MaxBuyIn \in Nat
  /\ MinBuyIn > 0 /\ MinBuyIn <= MaxBuyIn

\* A configuration has at most six seats; the ones past MaxPlayers stay empty.
Seats == 0 .. 5

ASSUME ValueAssumption ==
  /\ NoPlayer \notin Players
  /\ NoSeat \notin Seats
  /\ Strengths \subseteq Nat /\ Strengths # {}
  /\ MaxTableChips \in Nat

VARIABLES
  table,      \* the Table object
  sameRoster  \* nobody has sat down or left since the last hand began

vars == <<table, sameRoster>>

-----------------------------------------------------------------------------
(* The members of the class, table.hpp.                                    *)

Streets == {"waiting", "preflop", "flop", "turn", "river", "showdown", "settled"}
PlayerStatus == {"waiting", "active", "folded", "all_in"}
SeatValue == Seats \cup {NoSeat}

TableState ==
  [occupant : [Seats -> Players \cup {NoPlayer}],
   stack : [Seats -> Nat],
   street_commitment : [Seats -> Nat],
   hand_commitment : [Seats -> Nat],
   status : [Seats -> PlayerStatus],
   ready : [Seats -> BOOLEAN],
   connected : [Seats -> BOOLEAN],
   street : Streets,
   dealer_seat : SeatValue,
   acting_seat : SeatValue,
   current_bet : Nat,
   minimum_raise : Nat,
   pending_action : SUBSET Players,
   raise_allowed : SUBSET Players,
   last_awards : [Players -> Nat],
   hand_id : Nat,
   server_sequence : Nat]

EmptyTable ==
  [occupant |-> [s \in Seats |-> NoPlayer],
   stack |-> [s \in Seats |-> 0],
   street_commitment |-> [s \in Seats |-> 0],
   hand_commitment |-> [s \in Seats |-> 0],
   status |-> [s \in Seats |-> "waiting"],
   ready |-> [s \in Seats |-> FALSE],
   connected |-> [s \in Seats |-> FALSE],
   street |-> "waiting",
   dealer_seat |-> NoSeat,
   acting_seat |-> NoSeat,
   current_bet |-> 0,
   minimum_raise |-> BigBlind,
   pending_action |-> {},
   raise_allowed |-> {},
   last_awards |-> [p \in Players |-> 0],
   hand_id |-> 0,
   server_sequence |-> 0]

-----------------------------------------------------------------------------
(* Sums and counts over the seats, written out for the six of them.        *)

SeatSum(f) == f[0] + f[1] + f[2] + f[3] + f[4] + f[5]

SeatCount(S) == SeatSum([s \in Seats |-> IF s \in S THEN 1 ELSE 0])

Lesser(a, b) == IF a <= b THEN a ELSE b
Greater(a, b) == IF a <= b THEN b ELSE a

HandIsRunning(t) == t.street \in {"preflop", "flop", "turn", "river", "showdown"}

Occupied(t) == {s \in Seats : t.occupant[s] # NoPlayer}

PlayersAt(t, S) == {t.occupant[s] : s \in S}

CanAct(t, s) == s \in Occupied(t) /\ t.status[s] = "active" /\ t.stack[s] > 0

Actionable(t) == {s \in Seats : CanAct(t, s)}

Contenders(t) == {s \in Occupied(t) : t.status[s] \in {"active", "all_in"}}

PotSize(t) == SeatSum(t.hand_commitment)

TotalChips(t) ==
  SeatSum(t.stack) + (IF t.street = "settled" THEN 0 ELSE PotSize(t))

\* How many places clockwise of seat `from' seat s is; a full turn for itself.
Distance(from, s) == IF s > from THEN s - from ELSE s + MaxPlayers - from

FirstClockwise(from, S) ==
  IF S = {} THEN NoSeat
  ELSE CHOOSE s \in S : \A q \in S : Distance(from, s) <= Distance(from, q)

ParticipatingSeats(t) == {s \in Occupied(t) : t.status[s] = "active"}

NextParticipatingSeat(t, from) ==
  FirstClockwise(from, {s \in Occupied(t) : t.status[s] \in {"active", "all_in", "folded"}})

\* Fault: the turn passes to whoever is still in the hand.
NextCanActSeat_AnyContender(t, from) == FirstClockwise(from, Contenders(t))

\* Fault: the search for the next actor stops at the last seat.
NextCanActSeat_NoWrap(t, from) ==
  FirstClockwise(from, {s \in Actionable(t) : t.occupant[s] \in t.pending_action /\ s > from})

NextCanActSeat(t, from) ==
  FirstClockwise(from, {s \in Actionable(t) : t.occupant[s] \in t.pending_action})

-----------------------------------------------------------------------------
(* Settlement.                                                             *)

MarkSettled(t) ==
  [t EXCEPT !.ready = [s \in Seats |-> FALSE],
            !.street = "settled",
            !.acting_seat = NoSeat,
            !.pending_action = {},
            !.raise_allowed = {},
            !.current_bet = 0,
            !.server_sequence = @ + 1]

\* `won' is what each seat receives; its occupant is credited in last_awards_.
Award(t, won) ==
  [t EXCEPT !.stack = [s \in Seats |-> t.stack[s] + won[s]],
            !.last_awards =
               [p \in Players |->
                  SeatSum([s \in Seats |-> IF t.occupant[s] = p THEN won[s] ELSE 0])]]

SettleFoldWin(t) ==
  LET winner == CHOOSE s \in Contenders(t) : \A q \in Contenders(t) : s <= q
  IN  MarkSettled(Award(t, [s \in Seats |-> IF s = winner THEN PotSize(t) ELSE 0]))

\* One layer of the pot: the chips of every commitment between the next lower
\* distinct commitment and `level'.
Contributors(t, level) == {s \in Occupied(t) : t.hand_commitment[s] >= level}

\* Fault: every player still in the hand competes for every layer.
Eligible_AnyContender(t, level) == Contenders(t)

Eligible(t, level) ==
  {s \in Contributors(t, level) : t.status[s] \notin {"folded", "waiting"}}

LowerLevels(t, level) ==
  {0} \cup {t.hand_commitment[s] : s \in {q \in Occupied(t) : t.hand_commitment[q] < level}}

\* Fault: the previous level is not subtracted.
LayerSize_FromZero(t, level) == level * SeatCount(Contributors(t, level))

LayerSize(t, level) ==
  LET previous == CHOOSE l \in LowerLevels(t, level) : \A k \in LowerLevels(t, level) : k <= l
  IN  (level - previous) * SeatCount(Contributors(t, level))

\* orderedClockwise: odd chips go out one by one from the dealer's left.
WinnerIndex(t, winners, s) ==
  SeatCount({q \in winners : Distance(t.dealer_seat, q) < Distance(t.dealer_seat, s)})

\* The levels are the distinct non-zero commitments: each is visited once, at
\* the lowest seat that has it.
IsLevel(t, q) ==
  /\ t.hand_commitment[q] > 0
  /\ \A r \in Occupied(t) : r < q => t.hand_commitment[r] # t.hand_commitment[q]

\* What each seat receives of the layer that ends at the commitment of seat q.
LayerShares(t, q, strength) ==
  LET level == t.hand_commitment[q]
      eligible == Eligible(t, level)
      winners == {s \in eligible : \A r \in eligible : strength[r] <= strength[s]}
      pot == LayerSize(t, level)
      share == pot \div SeatCount(winners)
      odd == pot % SeatCount(winners)
  IN  [s \in Seats |->
         IF IsLevel(t, q) /\ s \in winners
         THEN share + (IF WinnerIndex(t, winners, s) < odd THEN 1 ELSE 0)
         ELSE 0]

BuildAndAwardPots(t, strength) ==
  LET layer == <<LayerShares(t, 0, strength), LayerShares(t, 1, strength),
                 LayerShares(t, 2, strength), LayerShares(t, 3, strength),
                 LayerShares(t, 4, strength), LayerShares(t, 5, strength)>>
  IN  Award(t, [s \in Seats |-> layer[1][s] + layer[2][s] + layer[3][s]
                                + layer[4][s] + layer[5][s] + layer[6][s]])

\* settleShowdown: a hand that has reached the showdown is settled by the cards,
\* which may rank the players left in any way; any other table is left alone.
Settlements(t) ==
  IF t.street = "showdown"
  THEN {MarkSettled(BuildAndAwardPots(t, strength)) : strength \in [Contenders(t) -> Strengths]}
  ELSE {t}

-----------------------------------------------------------------------------
(* The betting round.                                                      *)

RemoveFromActionSets(t, p) ==
  [t EXCEPT !.pending_action = @ \ {p}, !.raise_allowed = @ \ {p}]

ResetAfterFullRaise(t, raiser) ==
  LET others == PlayersAt(t, Actionable(t)) \ {raiser}
  IN  [t EXCEPT !.pending_action = others, !.raise_allowed = others]

\* Fault: a short all-in reopens raising for everybody who owes chips.
AddUnderCalledPlayers_Reopening(t, actor) ==
  LET under == {s \in Actionable(t) : t.street_commitment[s] < t.current_bet}
  IN  [t EXCEPT !.pending_action = @ \cup (PlayersAt(t, under) \ {actor}),
                !.raise_allowed = @ \cup (PlayersAt(t, under) \ {actor})]

AddUnderCalledPlayers(t, actor) ==
  LET under == {s \in Actionable(t) : t.street_commitment[s] < t.current_bet}
  IN  [t EXCEPT !.pending_action = @ \cup (PlayersAt(t, under) \ {actor})]

\* Fault: matched commitments alone close the round, so the big blind loses its option.
BettingRoundComplete_MatchedOnly(t) ==
  SeatCount(Contenders(t)) <= 1
    \/ \A s \in Actionable(t) : t.street_commitment[s] = t.current_bet

BettingRoundComplete(t) ==
  \/ SeatCount(Contenders(t)) <= 1
  \/ \A s \in Actionable(t) : /\ t.occupant[s] \notin t.pending_action
                              /\ t.street_commitment[s] = t.current_bet

NextStreet(street) ==
  CASE street = "preflop" -> "flop" [] street = "flop" -> "turn" [] street = "turn" -> "river"

AdvanceStreet(t) ==
  [t EXCEPT !.street_commitment = [s \in Seats |-> 0],
            !.current_bet = 0,
            !.minimum_raise = BigBlind,
            !.pending_action = PlayersAt(t, Actionable(t)),
            !.raise_allowed = PlayersAt(t, Actionable(t)),
            !.street = NextStreet(@)]

\* One turn of the loop in advanceUntilActionOrSettlement.  A turn taken after
\* the loop has returned changes nothing.
AdvanceTurn(t) ==
  IF t.street \in {"showdown", "settled"} THEN t
  ELSE IF SeatCount(Contenders(t)) <= 1 THEN SettleFoldWin(t)
  ELSE IF ~ BettingRoundComplete(t)
       THEN [t EXCEPT !.acting_seat =
               IF @ = NoSeat THEN NextCanActSeat(t, t.dealer_seat) ELSE @]
  ELSE IF t.street = "river" THEN [t EXCEPT !.street = "showdown"]
  ELSE LET u == AdvanceStreet(t)
       IN  IF SeatCount(Actionable(u)) <= 1
           THEN [u EXCEPT !.pending_action = {}, !.acting_seat = NoSeat]
           ELSE [u EXCEPT !.acting_seat = NextCanActSeat(u, u.dealer_seat)]

\* The street advances on every turn but the last, so there are at most four.
AdvanceUntilActionOrSettlement(t) == AdvanceTurn(AdvanceTurn(AdvanceTurn(AdvanceTurn(t))))

Pay(t, s, payment) ==
  [t EXCEPT !.stack[s] = @ - payment,
            !.street_commitment[s] = @ + payment,
            !.hand_commitment[s] = @ + payment,
            !.status[s] = IF t.stack[s] = payment THEN "all_in" ELSE @]

PayTo(t, s, target) == Pay(t, s, target - t.street_commitment[s])

\* What bet, raise and an all-in above the current bet have in common.
RaiseTo(t, s, target) ==
  LET p == t.occupant[s]
      raise_size == target - t.current_bet
      u == [PayTo(t, s, target) EXCEPT !.current_bet = target]
  IN  IF raise_size >= t.minimum_raise
      THEN ResetAfterFullRaise([u EXCEPT !.minimum_raise = raise_size], p)
      ELSE RemoveFromActionSets(AddUnderCalledPlayers(u, p), p)

\* Fault: while the round goes on, the turn stays where it is.
ConcludeAction_SameTurn(u, previous_seat) ==
  LET t == [u EXCEPT !.server_sequence = @ + 1]
  IN  IF SeatCount(Contenders(t)) <= 1 THEN SettleFoldWin(t)
      ELSE IF BettingRoundComplete(t)
           THEN AdvanceUntilActionOrSettlement([t EXCEPT !.acting_seat = NoSeat])
      ELSE t

\* The end of Table::act, after the command has been applied.
ConcludeAction(u, previous_seat) ==
  LET t == [u EXCEPT !.server_sequence = @ + 1]
  IN  IF SeatCount(Contenders(t)) <= 1 THEN SettleFoldWin(t)
      ELSE IF BettingRoundComplete(t)
           THEN AdvanceUntilActionOrSettlement([t EXCEPT !.acting_seat = NoSeat])
      ELSE [t EXCEPT !.acting_seat = NextCanActSeat(t, previous_seat)]

-----------------------------------------------------------------------------
(* Table::act, one action per command type.                                *)

\* The checks act makes before it looks at the command.
MayAct(t, s) ==
  /\ HandIsRunning(t) /\ t.street # "showdown"
  /\ s = t.acting_seat
  /\ CanAct(t, s)
  /\ t.occupant[s] \in t.pending_action

Available(t, s) == t.street_commitment[s] + t.stack[s]

Conclude(t, s) ==
  /\ table' \in Settlements(ConcludeAction(t, s))
  /\ UNCHANGED sameRoster

Fold(s) ==
  /\ MayAct(table, s)
  /\ Conclude(RemoveFromActionSets([table EXCEPT !.status[s] = "folded"], table.occupant[s]), s)

Check(s) ==
  /\ MayAct(table, s)
  /\ table.street_commitment[s] = table.current_bet
  /\ Conclude(RemoveFromActionSets(table, table.occupant[s]), s)

Call(s) ==
  /\ MayAct(table, s)
  /\ table.street_commitment[s] < table.current_bet
  /\ Conclude(RemoveFromActionSets(
                PayTo(table, s, Lesser(table.current_bet, Available(table, s))),
                table.occupant[s]), s)

Bet(s, amount) ==
  /\ MayAct(table, s)
  /\ table.current_bet = 0
  /\ amount > table.street_commitment[s] /\ amount <= Available(table, s)
  /\ amount >= table.minimum_raise \/ amount = Available(table, s)
  /\ Conclude(RaiseTo(table, s, amount), s)

Raise(s, amount) ==
  /\ MayAct(table, s)
  /\ table.current_bet # 0
  /\ table.occupant[s] \in table.raise_allowed
  /\ amount > table.current_bet /\ amount <= Available(table, s)
  /\ amount - table.current_bet >= table.minimum_raise \/ amount = Available(table, s)
  /\ Conclude(RaiseTo(table, s, amount), s)

AllIn(s) ==
  LET target == Available(table, s)
  IN  /\ MayAct(table, s)
      /\ \/ /\ target <= table.current_bet
            /\ Conclude(RemoveFromActionSets(PayTo(table, s, target), table.occupant[s]), s)
         \/ /\ target > table.current_bet
            /\ table.occupant[s] \in table.raise_allowed
            /\ Conclude(RaiseTo(table, s, target), s)

-----------------------------------------------------------------------------
(* Seating and readiness.                                                  *)

SeatPlayer(p, s, buy_in) ==
  /\ ~ HandIsRunning(table)
  /\ s < MaxPlayers
  /\ p \notin PlayersAt(table, Seats)
  /\ table.occupant[s] = NoPlayer
  /\ buy_in >= MinBuyIn /\ buy_in <= MaxBuyIn
  /\ TotalChips(table) + buy_in <= MaxTableChips
  /\ table' = [table EXCEPT !.occupant[s] = p,
                            !.stack[s] = buy_in,
                            !.connected[s] = TRUE,
                            !.server_sequence = @ + 1]
  /\ sameRoster' = FALSE

\* seats_[seat].reset(): every field of an empty seat has its initial value.
RemovePlayer(s) ==
  /\ table.occupant[s] # NoPlayer
  /\ HandIsRunning(table) => table.status[s] = "waiting"
  /\ table' = [table EXCEPT !.occupant[s] = NoPlayer,
                            !.stack[s] = 0,
                            !.street_commitment[s] = 0,
                            !.hand_commitment[s] = 0,
                            !.status[s] = "waiting",
                            !.ready[s] = FALSE,
                            !.connected[s] = FALSE,
                            !.dealer_seat = IF @ = s THEN NoSeat ELSE @,
                            !.server_sequence = @ + 1]
  /\ sameRoster' = FALSE

SetReady(s, ready) ==
  /\ ~ HandIsRunning(table)
  /\ table.occupant[s] # NoPlayer
  /\ ready => table.stack[s] > 0
  /\ table' = [table EXCEPT !.ready[s] = ready, !.server_sequence = @ + 1]
  /\ UNCHANGED sameRoster

SetConnected(s, connected) ==
  /\ table.occupant[s] # NoPlayer
  /\ table' = [table EXCEPT !.connected[s] = connected, !.server_sequence = @ + 1]
  /\ UNCHANGED sameRoster

-----------------------------------------------------------------------------
(* startHand and abortHand.                                                *)

ReadySeats(t) == {s \in Occupied(t) : t.ready[s] /\ t.stack[s] > 0}

PostBlind(t, s, blind) == Pay(t, s, Lesser(blind, t.stack[s]))

\* The table between the checks of startHand and the choice of the dealer.
FreshHand(t) ==
  [t EXCEPT !.street_commitment = [s \in Seats |-> 0],
            !.hand_commitment = [s \in Seats |-> 0],
            !.status = [s \in Seats |-> IF s \in ReadySeats(t) THEN "active" ELSE "waiting"],
            !.last_awards = [p \in Players |-> 0],
            !.current_bet = 0,
            !.minimum_raise = BigBlind,
            !.pending_action = {},
            !.raise_allowed = {},
            !.acting_seat = NoSeat,
            !.street = "preflop",
            !.hand_id = @ + 1,
            !.server_sequence = @ + 1]

\* The lowest participating seat is the first dealer; NextParticipatingSeat
\* sees every participant, so the code's second fallback to it never applies.
ChooseDealer(t) ==
  IF t.dealer_seat = NoSeat
  THEN [t EXCEPT !.dealer_seat = CHOOSE s \in ParticipatingSeats(t) :
                                   \A q \in ParticipatingSeats(t) : s <= q]
  ELSE [t EXCEPT !.dealer_seat = NextParticipatingSeat(t, t.dealer_seat)]

SmallBlindSeat(t) ==
  IF SeatCount(ParticipatingSeats(t)) > 2
  THEN NextParticipatingSeat(t, t.dealer_seat)
  ELSE t.dealer_seat

\* Fault: the bet to call is the nominal big blind, posted in full or not.
PostBlinds_Nominal(t) ==
  LET sb == SmallBlindSeat(t)
      u == PostBlind(PostBlind(t, sb, SmallBlind), NextParticipatingSeat(t, sb), BigBlind)
  IN  [u EXCEPT !.current_bet = BigBlind,
                !.pending_action = PlayersAt(u, Actionable(u)),
                !.raise_allowed = PlayersAt(u, Actionable(u))]

PostBlinds(t) ==
  LET sb == SmallBlindSeat(t)
      bb == NextParticipatingSeat(t, sb)
      u == PostBlind(PostBlind(t, sb, SmallBlind), bb, BigBlind)
  IN  [u EXCEPT !.current_bet = Greater(u.street_commitment[sb], u.street_commitment[bb]),
                !.pending_action = PlayersAt(u, Actionable(u)),
                !.raise_allowed = PlayersAt(u, Actionable(u))]

\* Heads up the dealer posts the small blind and acts first.
SetInitialActor(t, bb, participants) ==
  [t EXCEPT !.acting_seat =
     IF participants # 2 THEN NextCanActSeat(t, bb)
     ELSE IF CanAct(t, t.dealer_seat) /\ t.occupant[t.dealer_seat] \in t.pending_action
          THEN t.dealer_seat
     ELSE NextCanActSeat(t, t.dealer_seat)]

DealHand(t) ==
  LET dealt == ChooseDealer(FreshHand(t))
      bb == NextParticipatingSeat(dealt, SmallBlindSeat(dealt))
      u == SetInitialActor(PostBlinds(dealt), bb, SeatCount(ParticipatingSeats(dealt)))
  IN  IF SeatCount(Actionable(u)) <= 1
      THEN AdvanceUntilActionOrSettlement(
             [u EXCEPT !.pending_action = {}, !.acting_seat = NoSeat])
      ELSE u

StartHand ==
  /\ ~ HandIsRunning(table)
  /\ SeatCount(ReadySeats(table)) >= MinPlayers
  /\ table' \in Settlements(DealHand(table))
  /\ sameRoster' = TRUE

\* What abortHand takes back from seat s: its winnings, if the hand was settled.
Reclaimed(t, s) ==
  IF t.street = "settled" /\ t.occupant[s] # NoPlayer THEN t.last_awards[t.occupant[s]] ELSE 0

AbortedTable(t) ==
  [t EXCEPT !.stack = [s \in Seats |-> t.stack[s] - Reclaimed(t, s) + t.hand_commitment[s]],
            !.street_commitment = [s \in Seats |-> 0],
            !.hand_commitment = [s \in Seats |-> 0],
            !.status = [s \in Seats |-> "waiting"],
            !.ready = [s \in Seats |-> FALSE],
            !.street = "waiting",
            !.acting_seat = NoSeat,
            !.current_bet = 0,
            !.minimum_raise = BigBlind,
            !.pending_action = {},
            !.raise_allowed = {},
            !.last_awards = [p \in Players |-> 0],
            !.server_sequence = @ + 1]

AbortHand ==
  /\ table.street # "waiting"
  /\ table' = AbortedTable(table)
  /\ UNCHANGED sameRoster

\* A caller rolls a hand back only while the operation that started it still
\* holds the table, so nobody has come or gone: that is where ProtocolService's
\* READY asks for it.  (RoomManager drops the request, because READY passes it
\* no callback; the operation itself is what is modelled here.)
RollBackHand == sameRoster /\ AbortHand

-----------------------------------------------------------------------------

Init == table = EmptyTable /\ sameRoster = FALSE

Act ==
  \E s \in Seats :
     \/ Fold(s)
     \/ Check(s)
     \/ Call(s)
     \/ \E amount \in 1 .. MaxTableChips : Bet(s, amount)
     \/ \E amount \in 1 .. MaxTableChips : Raise(s, amount)
     \/ AllIn(s)

Sit == \E p \in Players, s \in Seats, buy_in \in MinBuyIn .. MaxBuyIn : SeatPlayer(p, s, buy_in)

Roster ==
  \E s \in Seats :
     \/ RemovePlayer(s)
     \/ \E ready \in BOOLEAN : SetReady(s, ready)
     \/ \E connected \in BOOLEAN : SetConnected(s, connected)

Next == Sit \/ Roster \/ StartHand \/ Act \/ RollBackHand

Spec == Init /\ [][Next]_vars

-----------------------------------------------------------------------------
(* Properties.                                                             *)

\* Every member of the Table object keeps its type; in particular no operation
\* drives a stack or a commitment below zero.
TypeOK == table \in TableState /\ sameRoster \in BOOLEAN

\* Whoever acting_seat_ names can really act: there is a player on the seat, in
\* a running hand, with chips, and still owing a decision.  Otherwise act()
\* would refuse the only command it accepts and the hand would hang.
ActorCanAct == table.acting_seat # NoSeat => MayAct(table, table.acting_seat)

\* current_bet_ is the largest commitment of the street, and a player who can
\* still act and is not waiting for a turn has matched it.
BetsMatched ==
  HandIsRunning(table) =>
    /\ \A s \in Seats : table.street_commitment[s] <= table.current_bet
    /\ \E s \in Seats : table.street_commitment[s] = table.current_bet
    /\ \A s \in Actionable(table) :
         \/ table.occupant[s] \in table.pending_action
         \/ table.street_commitment[s] = table.current_bet
         \/ table.acting_seat = NoSeat

\* The one player left who can act owes chips to a blind, and startHand has
\* cleared pending_action_.
Stranded(t) ==
  /\ t.street = "preflop"
  /\ t.pending_action = {}
  /\ \E s \in Seats : Actionable(t) = {s} /\ t.street_commitment[s] < t.current_bet

\* A running hand waits for somebody, unless the blinds of startHand left it
\* without an actor: no command of act() ever loses the turn.  (docs/state-machine.md:23
\* and tests/test_main.cpp:345 know no such exception: startHand has it.)
OnlyBlindsStrand ==
  HandIsRunning(table) /\ table.acting_seat = NoSeat => Stranded(table)

\* What the showdown of t leaves in no pot: the layers above the largest
\* commitment of a player still in the hand, which buildAndAwardPots skips.
Orphaned(t) ==
  LET exceeds(s) == \A q \in Contenders(t) : t.hand_commitment[q] < t.hand_commitment[s]
      top == CHOOSE q \in Contenders(t) :
               \A r \in Contenders(t) : t.hand_commitment[r] <= t.hand_commitment[q]
  IN  IF SeatCount(Contenders(t)) <= 1 THEN 0
      ELSE SeatSum([s \in Seats |-> IF exceeds(s)
                                    THEN t.hand_commitment[s] - t.hand_commitment[top]
                                    ELSE 0])

\* Unless somebody sits down or leaves, no operation changes the number of chips at
\* the table (docs/state-machine.md:33), but for what buildAndAwardPots skips: chips
\* only ever disappear at a showdown whose highest commitments are all of folded
\* players, exactly those chips do, and rolling such a hand back restores them.
ChipsConservedButOrphans ==
  [][table'.occupant = table.occupant /\ TotalChips(table') # TotalChips(table) =>
       \/ /\ HandIsRunning(table) \/ table'.hand_id # table.hand_id
          /\ table'.street = "settled"
          /\ TotalChips(table') = TotalChips(table) - Orphaned(table')
       \/ /\ table.street = "settled" /\ table'.street = "waiting"
          /\ TotalChips(table') = TotalChips(table) + Orphaned(table)]_vars

\* What seat s can win at most: from every seat as much as it put in itself.
Matched(t, s) ==
  SeatSum([q \in Seats |-> Lesser(t.hand_commitment[q], t.hand_commitment[s])])

\* What seat s put in beyond everybody else.
Uncalled(t, s) ==
  Greater(0, t.hand_commitment[s]
               - (CHOOSE c \in {0} \cup {t.hand_commitment[q] : q \in Seats \ {s}} :
                    \A q \in Seats \ {s} : t.hand_commitment[q] <= c))

\* At a showdown nobody wins more from a player than they put in themselves,
\* a player still in the hand gets their uncalled chips back, and a player who
\* is not in the hand any more wins nothing.
SidePotsFair ==
  (table.street = "settled" /\ sameRoster /\ SeatCount(Contenders(table)) > 1) =>
    \A s \in Occupied(table) :
      LET won == table.last_awards[table.occupant[s]]
      IN  IF s \in Contenders(table)
          THEN Uncalled(table, s) <= won /\ won <= Matched(table, s)
          ELSE won = 0

\* A short all-in does not reopen the betting: a player regains the right to
\* raise only when a street or a hand begins, or when somebody else raises by
\* at least the minimum.
RaiseReopens ==
  [][\A p \in table'.raise_allowed \ table.raise_allowed :
       \/ table'.street # table.street \/ table'.hand_id # table.hand_id
       \/ /\ table'.current_bet - table.current_bet >= table.minimum_raise
          /\ p # table.occupant[table.acting_seat]]_vars

\* A betting round ends with several players in the hand only when everybody
\* who can act, the player just acting aside, has had a turn at the current bet.
RoundClosesFairly ==
  [][(/\ HandIsRunning(table) /\ table'.street \notin {table.street, "waiting"}
      /\ SeatCount(Contenders(table')) > 1) =>
       \A s \in Actionable(table) \ {table.acting_seat} :
          /\ table.occupant[s] \notin table.pending_action
          /\ table.street_commitment[s] = table.current_bet]_vars

\* A hand that waits for a player is eventually settled, however the players
\* raise: every raise takes chips that are not there again for the next one.
HandEnds ==
  (HandIsRunning(table) /\ table.acting_seat # NoSeat) ~> table.street = "settled"
=============================================================================
