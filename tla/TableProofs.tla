---------------------------- MODULE TableProofs ----------------------------
(***************************************************************************)
(* Proofs about Table, for every number of players, configuration and      *)
(* amount of chips.  IInv carries the types and the actor; RoundInv, at    *)
(* the end, adds the order of the bets in a round, and with it follow the  *)
(* properties of reopening and closing rounds.                             *)
(***************************************************************************)
EXTENDS Table, TLAPS

-----------------------------------------------------------------------------
(* Sums, counts and clockwise order.                                       *)

\* A sum over the seats of natural numbers is a natural number.
LEMMA SeatSumType ==
  ASSUME NEW f, \A s \in Seats : f[s] \in Nat
  PROVE  SeatSum(f) \in Nat
BY DEF SeatSum, Seats

\* A count of seats is a natural number, and is positive if a seat is counted.
LEMMA SeatCountType ==
  ASSUME NEW S
  PROVE  /\ SeatCount(S) \in Nat
         /\ \A s \in Seats : s \in S => SeatCount(S) > 0
<1> DEFINE one == [s \in Seats |-> IF s \in S THEN 1 ELSE 0]
<1>1. \A s \in Seats : one[s] \in {0, 1} /\ (s \in S => one[s] = 1)
  OBVIOUS
<1>2. SeatCount(S) = one[0] + one[1] + one[2] + one[3] + one[4] + one[5]
  BY DEF SeatCount, SeatSum
<1>3. 0 \in Seats /\ 1 \in Seats /\ 2 \in Seats /\ 3 \in Seats /\ 4 \in Seats /\ 5 \in Seats
  BY DEF Seats
<1>4. SeatCount(S) \in Nat
  BY <1>1, <1>2, <1>3
<1>5. ASSUME NEW s \in Seats, s \in S PROVE SeatCount(S) > 0
  <2>1. s = 0 \/ s = 1 \/ s = 2 \/ s = 3 \/ s = 4 \/ s = 5
    BY DEF Seats
  <2> QED BY <2>1, <1>1, <1>2, <1>3, <1>5
<1> QED BY <1>4, <1>5

\* A non-empty set of seats has one with the least value.
LEMMA LeastSeat ==
  ASSUME NEW f, \A s \in Seats : f[s] \in Int, NEW S \in SUBSET Seats, S # {}
  PROVE  \E s \in S : \A q \in S : f[s] <= f[q]
<1> DEFINE Has(n) ==
             (\E q \in S : q <= n) =>
               \E s \in S : s <= n /\ \A q \in S : q <= n => f[s] <= f[q]
<1>1. Has(0)
  BY DEF Seats
<1>2. ASSUME NEW n \in 0 .. 4, Has(n)
      PROVE  Has(n + 1)
  <2>1. \A q \in S : q \in Int /\ f[q] \in Int /\ (q <= n + 1 => q <= n \/ q = n + 1)
    BY DEF Seats
  <2>2. CASE \E q \in S : q <= n
    <3>1. PICK s \in S : s <= n /\ \A q \in S : q <= n => f[s] <= f[q]
      BY <1>2, <2>2
    <3>2. CASE n + 1 \in S /\ f[n + 1] < f[s]
      <4>1. \A q \in S : q <= n + 1 => f[n + 1] <= f[q]
        BY <2>1, <3>1, <3>2
      <4> QED BY <3>2, <4>1
    <3>3. CASE ~(n + 1 \in S /\ f[n + 1] < f[s])
      <4>1. \A q \in S : q <= n + 1 => f[s] <= f[q]
        BY <2>1, <3>1, <3>3
      <4>2. s <= n + 1
        BY <2>1, <3>1
      <4> QED BY <4>1, <4>2
    <3> QED BY <3>2, <3>3
  <2>3. CASE ~ \E q \in S : q <= n
    BY <2>1, <2>3
  <2> QED BY <2>2, <2>3
<1>3. Has(5)
  <2> HIDE DEF Has
  <2>1. Has(0 + 1)
    BY <1>1, <1>2
  <2>2. Has(1 + 1)
    BY <2>1, <1>2
  <2>3. Has(2 + 1)
    BY <2>2, <1>2
  <2>4. Has(3 + 1)
    BY <2>3, <1>2
  <2>5. Has(4 + 1)
    BY <2>4, <1>2
  <2> QED BY <2>5
<1>4. \A q \in S : q <= 5
  BY DEF Seats
<1>5. \E s \in S : s <= 5 /\ \A q \in S : q <= 5 => f[s] <= f[q]
  BY <1>3, <1>4
<1> QED BY <1>4, <1>5

\* The seat found clockwise is one of those looked for, and one is found
\* unless there is none.
LEMMA FirstClockwiseType ==
  ASSUME NEW from \in Seats, NEW S \in SUBSET Seats
  PROVE  /\ S = {} => FirstClockwise(from, S) = NoSeat
         /\ S # {} => FirstClockwise(from, S) \in S
<1>1. CASE S = {}
  BY <1>1 DEF FirstClockwise
<1>2. CASE S # {}
  <2> DEFINE d == [s \in Seats |-> Distance(from, s)]
  <2>1. \A s \in Seats : d[s] \in Int
    BY ConfigAssumption DEF Distance, Seats
  <2>2. \E s \in S : \A q \in S : d[s] <= d[q]
    <3> HIDE DEF d
    <3> QED BY <2>1, <1>2, LeastSeat
  <2>3. \E s \in S : \A q \in S : Distance(from, s) <= Distance(from, q)
    BY <2>2, Zenon
  <2> QED BY <2>3, <1>2 DEF FirstClockwise
<1> QED BY <1>1, <1>2

-----------------------------------------------------------------------------
(* Settlement keeps the types.                                             *)

\* A layer of the pot has a natural number of chips.
LEMMA LayerSizeType ==
  ASSUME NEW t \in TableState, NEW level \in Nat \ {0}
  PROVE  LayerSize(t, level) \in Nat
<1> DEFINE D == LowerLevels(t, level)
           previous == CHOOSE l \in D : \A k \in D : k <= l
<1>1. D \in SUBSET Nat /\ \A d \in D : d <= level
  BY DEF LowerLevels, TableState, Occupied
<1>2. previous \in D
  <2> DEFINE lower == {s \in Occupied(t) : t.hand_commitment[s] < level}
             debt == [s \in Seats |-> 0 - t.hand_commitment[s]]
  <2>1. /\ \A s \in Seats : t.hand_commitment[s] \in Nat
        /\ lower \in SUBSET Seats
    BY DEF TableState, Occupied
  <2>2. D = {0} \cup {t.hand_commitment[s] : s \in lower}
    BY DEF LowerLevels
  <2>3. CASE lower = {}
    BY <2>2, <2>3
  <2>4. CASE lower # {}
    <3>1. \A s \in Seats : debt[s] \in Int
      BY <2>1
    <3>2. \E s \in lower : \A q \in lower : debt[s] <= debt[q]
      <4> HIDE DEF lower, debt
      <4> QED BY <2>1, <2>4, <3>1, LeastSeat
    <3>3. PICK s \in lower : \A q \in lower : debt[s] <= debt[q]
      BY <3>2
    <3>4. \A q \in Seats : debt[q] = 0 - t.hand_commitment[q]
      OBVIOUS
    <3> HIDE DEF lower, debt
    <3>5. \A q \in lower : t.hand_commitment[q] <= t.hand_commitment[s]
      BY <2>1, <3>3, <3>4
    <3>6. \A k \in D : k <= t.hand_commitment[s]
      BY <2>1, <2>2, <3>5
    <3>7. t.hand_commitment[s] \in D
      BY <2>2
    <3> QED BY <3>6, <3>7
  <2> QED BY <2>3, <2>4
<1>3. level - previous \in Nat
  BY <1>1, <1>2
<1>4. SeatCount(Contributors(t, level)) \in Nat
  BY SeatCountType
<1>5. LayerSize(t, level) = (level - previous) * SeatCount(Contributors(t, level))
  BY DEF LayerSize
<1> HIDE DEF previous
<1> QED BY <1>3, <1>4, <1>5

\* Nobody's share of a layer is negative.
LEMMA LayerSharesType ==
  ASSUME NEW t \in TableState, NEW q \in Seats, NEW strength
  PROVE  LayerShares(t, q, strength) \in [Seats -> Nat]
<1> DEFINE level == t.hand_commitment[q]
           eligible == Eligible(t, level)
           winners == {s \in eligible : \A r \in eligible : strength[r] <= strength[s]}
           pot == LayerSize(t, level)
           n == SeatCount(winners)
<1> SUFFICES ASSUME NEW s \in Seats PROVE LayerShares(t, q, strength)[s] \in Nat
  BY DEF LayerShares
<1>1. CASE IsLevel(t, q) /\ s \in winners
  <2>1. pot \in Nat
    <3>1. level \in Nat \ {0}
      BY <1>1 DEF IsLevel, TableState
    <3> QED BY <3>1, LayerSizeType
  <2>2. n \in Nat /\ n > 0
    BY <1>1, SeatCountType
  <2>3. pot \div n \in Nat
    <3> HIDE DEF pot, n
    <3> QED BY <2>1, <2>2
  <2>4. LayerShares(t, q, strength)[s]
          = (pot \div n) + (IF WinnerIndex(t, winners, s) < pot % n THEN 1 ELSE 0)
    BY <1>1 DEF LayerShares
  <2> HIDE DEF pot, n, winners
  <2> QED BY <2>3, <2>4
<1>2. CASE ~ (IsLevel(t, q) /\ s \in winners)
  BY <1>2 DEF LayerShares
<1> QED BY <1>1, <1>2

\* Paying the awards keeps the types, and every player of the table is credited
\* exactly what their seat receives.
LEMMA AwardType ==
  ASSUME NEW t \in TableState, NEW won \in [Seats -> Nat]
  PROVE  Award(t, won) \in TableState
<1> DEFINE credit(p) == [s \in Seats |-> IF t.occupant[s] = p THEN won[s] ELSE 0]
<1>1. \A p \in Players : SeatSum(credit(p)) \in Nat
  <2> TAKE p \in Players
  <2>1. \A s \in Seats : credit(p)[s] \in Nat
    OBVIOUS
  <2> QED BY <2>1, SeatSumType
<1>2. [p \in Players |-> SeatSum(credit(p))] \in [Players -> Nat]
  BY <1>1
<1>3. [s \in Seats |-> t.stack[s] + won[s]] \in [Seats -> Nat]
  BY DEF TableState
<1>4. Award(t, won) = [t EXCEPT !.stack = [s \in Seats |-> t.stack[s] + won[s]],
                                !.last_awards = [p \in Players |-> SeatSum(credit(p))]]
  BY DEF Award
<1> HIDE DEF credit
<1> QED BY <1>2, <1>3, <1>4, Zenon DEF TableState

-----------------------------------------------------------------------------
(* The inductive invariant.                                                *)

\* Nobody holds two seats.
Distinct(t) ==
  \A s, q \in Seats : t.occupant[s] # NoPlayer /\ t.occupant[s] = t.occupant[q] => s = q

\* What holds while an operation works on a hand: the dealer takes part in it
\* and no commitment of the street exceeds the bet to call.
InHand(t) ==
  /\ t \in TableState
  /\ Distinct(t)
  /\ t.street \in {"preflop", "flop", "turn", "river", "showdown"}
  /\ t.dealer_seat \in Seats
  /\ t.occupant[t.dealer_seat] # NoPlayer /\ t.status[t.dealer_seat] # "waiting"
  /\ \A s \in Seats : t.street_commitment[s] <= t.current_bet

\* Somebody of the hand has committed as much as there is to call.
BetIsHeld(t) ==
  \E s \in Seats : t.street_commitment[s] = t.current_bet /\ t.status[s] # "waiting"

\* Everybody who can act is asked.
AllAsked(t) == \A s \in Actionable(t) : t.occupant[s] \in t.pending_action

\* What holds between two operations.
AtRest(t) ==
  /\ t \in TableState
  /\ Distinct(t)
  /\ t.street # "showdown"
  /\ HandIsRunning(t) => InHand(t)
  /\ t.acting_seat # NoSeat => MayAct(t, t.acting_seat)

\* Until somebody comes or goes, a winner still holds what the hand paid them,
\* so that abortHand can take it back.
AwardsHeld(t) ==
  t.street = "settled" =>
    \A s \in Seats : t.occupant[s] # NoPlayer => t.last_awards[t.occupant[s]] <= t.stack[s]

IInv ==
  /\ AtRest(table)
  /\ sameRoster \in BOOLEAN
  /\ sameRoster => AwardsHeld(table)

-----------------------------------------------------------------------------
(* Settlement.                                                             *)

\* Membership in TableState, field by field.
FieldNames ==
  {"occupant", "stack", "street_commitment", "hand_commitment", "status", "ready",
   "connected", "street", "dealer_seat", "acting_seat", "current_bet", "minimum_raise",
   "pending_action", "raise_allowed", "last_awards", "hand_id", "server_sequence"}

IsRecord(x) == x = [f \in FieldNames |-> x[f]]

\* A record with the seventeen typed fields is a TableState.
LEMMA TableStateFields ==
  ASSUME NEW x, IsRecord(x),
         x.occupant \in [Seats -> Players \cup {NoPlayer}],
         x.stack \in [Seats -> Nat],
         x.street_commitment \in [Seats -> Nat],
         x.hand_commitment \in [Seats -> Nat],
         x.status \in [Seats -> PlayerStatus],
         x.ready \in [Seats -> BOOLEAN],
         x.connected \in [Seats -> BOOLEAN],
         x.street \in Streets,
         x.dealer_seat \in SeatValue,
         x.acting_seat \in SeatValue,
         x.current_bet \in Nat,
         x.minimum_raise \in Nat,
         x.pending_action \in SUBSET Players,
         x.raise_allowed \in SUBSET Players,
         x.last_awards \in [Players -> Nat],
         x.hand_id \in Nat,
         x.server_sequence \in Nat
  PROVE  x \in TableState
BY DEF TableState, FieldNames, IsRecord

\* A TableState has exactly those fields.
LEMMA TableStateIsRecord ==
  ASSUME NEW t \in TableState
  PROVE  DOMAIN t = FieldNames /\ IsRecord(t)
BY DEF TableState, FieldNames, IsRecord

\* markSettled ends the hand and leaves seats, stacks and awards alone.
LEMMA MarkSettledFields ==
  ASSUME NEW t \in TableState
  PROVE  /\ MarkSettled(t) \in TableState
         /\ MarkSettled(t).occupant = t.occupant
         /\ MarkSettled(t).stack = t.stack
         /\ MarkSettled(t).last_awards = t.last_awards
         /\ MarkSettled(t).status = t.status
         /\ MarkSettled(t).hand_id = t.hand_id
         /\ MarkSettled(t).street = "settled"
         /\ MarkSettled(t).acting_seat = NoSeat
<1> DEFINE m == MarkSettled(t)
<1>1. IsRecord(m)
  <2>1. DOMAIN m = DOMAIN t /\ m = [f \in DOMAIN m |-> m[f]]
    BY ZenonT(30) DEF MarkSettled, TableState
  <2> QED BY <2>1, TableStateIsRecord DEF IsRecord
<1>2. /\ m.occupant = t.occupant /\ m.stack = t.stack
      /\ m.street_commitment = t.street_commitment /\ m.hand_commitment = t.hand_commitment
      /\ m.status = t.status /\ m.ready = [s \in Seats |-> FALSE]
      /\ m.connected = t.connected /\ m.street = "settled"
      /\ m.dealer_seat = t.dealer_seat /\ m.acting_seat = NoSeat
      /\ m.current_bet = 0 /\ m.minimum_raise = t.minimum_raise
      /\ m.pending_action = {} /\ m.raise_allowed = {}
      /\ m.last_awards = t.last_awards /\ m.hand_id = t.hand_id
      /\ m.server_sequence = t.server_sequence + 1
  BY DEF MarkSettled, TableState
<1>3. [s \in Seats |-> FALSE] \in [Seats -> BOOLEAN]
  OBVIOUS
<1> HIDE DEF m
<1>4. m \in TableState
  <2>1. m.ready \in [Seats -> BOOLEAN]
    BY <1>2, <1>3
  <2>2. /\ m.street \in Streets /\ m.acting_seat \in SeatValue
        /\ m.current_bet \in Nat /\ m.server_sequence \in Nat
        /\ m.pending_action \in SUBSET Players /\ m.raise_allowed \in SUBSET Players
    BY <1>2 DEF TableState, Streets, SeatValue
  <2>3. /\ m.occupant \in [Seats -> Players \cup {NoPlayer}] /\ m.stack \in [Seats -> Nat]
        /\ m.street_commitment \in [Seats -> Nat] /\ m.hand_commitment \in [Seats -> Nat]
        /\ m.status \in [Seats -> PlayerStatus] /\ m.connected \in [Seats -> BOOLEAN]
        /\ m.dealer_seat \in SeatValue /\ m.minimum_raise \in Nat
        /\ m.last_awards \in [Players -> Nat] /\ m.hand_id \in Nat
    BY <1>2 DEF TableState
  <2> QED BY <1>1, <2>1, <2>2, <2>3, TableStateFields
<1> QED BY <1>2, <1>4 DEF m

\* The record m is t after a settlement: the same hand of the same players.
SettledAs(t, m) ==
  /\ m.street = "settled" /\ m.occupant = t.occupant /\ m.status = t.status
  /\ m.hand_id = t.hand_id

\* A hand that is paid out and marked as settled is at rest, and the winners
\* hold what they were paid.
LEMMA PaidOut ==
  ASSUME NEW t \in TableState, Distinct(t), NEW won \in [Seats -> Nat]
  PROVE  /\ AtRest(MarkSettled(Award(t, won)))
         /\ AwardsHeld(MarkSettled(Award(t, won)))
         /\ SettledAs(t, MarkSettled(Award(t, won)))
<1> DEFINE a == Award(t, won)
           m == MarkSettled(a)
<1>1. a \in TableState
  BY AwardType
<1>2. m \in TableState
  BY <1>1, MarkSettledFields
<1>3. /\ a.occupant = t.occupant /\ a.status = t.status /\ a.hand_id = t.hand_id
      /\ a.stack = [s \in Seats |-> t.stack[s] + won[s]]
      /\ a.last_awards = [p \in Players |->
            SeatSum([s \in Seats |-> IF t.occupant[s] = p THEN won[s] ELSE 0])]
  BY DEF Award, TableState
<1>4. /\ m.occupant = a.occupant /\ m.stack = a.stack /\ m.last_awards = a.last_awards
      /\ m.street = "settled" /\ m.acting_seat = NoSeat
      /\ m.status = a.status /\ m.hand_id = a.hand_id
  <2> HIDE DEF a
  <2> QED BY <1>1, MarkSettledFields
<1>5. ASSUME NEW s \in Seats, t.occupant[s] # NoPlayer
      PROVE  m.last_awards[m.occupant[s]] <= m.stack[s]
  <2> DEFINE p == t.occupant[s]
             credit == [q \in Seats |-> IF t.occupant[q] = p THEN won[q] ELSE 0]
  <2>1. p \in Players
    BY <1>5 DEF TableState
  <2>2. \A q \in Seats : credit[q] = IF q = s THEN won[s] ELSE 0
    BY <1>5 DEF Distinct
  <2>3. SeatSum(credit) = won[s]
    <3> HIDE DEF credit
    <3>1. s = 0 \/ s = 1 \/ s = 2 \/ s = 3 \/ s = 4 \/ s = 5
      BY DEF Seats
    <3> QED BY <3>1, <2>2 DEF SeatSum, Seats
  <2>4. m.last_awards[p] = SeatSum(credit)
    <3> HIDE DEF a, m
    <3> QED BY <1>3, <1>4, <2>1
  <2>5. m.stack[s] = t.stack[s] + won[s]
    <3> HIDE DEF a, m
    <3> QED BY <1>3, <1>4
  <2>6. m.occupant[s] = p
    <3> HIDE DEF a, m
    <3> QED BY <1>3, <1>4
  <2>7. t.stack[s] \in Nat /\ won[s] \in Nat
    BY DEF TableState
  <2> HIDE DEF a, m, p, credit
  <2> QED BY <2>3, <2>4, <2>5, <2>6, <2>7
<1> HIDE DEF a, m
<1>6. AwardsHeld(m)
  BY <1>3, <1>4, <1>5 DEF AwardsHeld
<1>7. AtRest(m)
  BY <1>2, <1>3, <1>4 DEF AtRest, Distinct, HandIsRunning
<1>8. SettledAs(t, m)
  BY <1>3, <1>4 DEF SettledAs
<1> QED BY <1>6, <1>7, <1>8 DEF m, a

\* settleFoldWin ends the hand.
LEMMA SettleFoldWinRests ==
  ASSUME NEW t, InHand(t)
  PROVE  /\ AtRest(SettleFoldWin(t)) /\ AwardsHeld(SettleFoldWin(t))
         /\ SettledAs(t, SettleFoldWin(t)) /\ SettleFoldWin(t).street = "settled"
<1> DEFINE winner == CHOOSE s \in Contenders(t) : \A q \in Contenders(t) : s <= q
           won == [s \in Seats |-> IF s = winner THEN PotSize(t) ELSE 0]
<1>1. t \in TableState /\ Distinct(t)
  BY DEF InHand
<1>2. PotSize(t) \in Nat
  BY <1>1, SeatSumType DEF PotSize, TableState
<1>3. won \in [Seats -> Nat]
  BY <1>2
<1>4. SettleFoldWin(t) = MarkSettled(Award(t, won))
  BY DEF SettleFoldWin
<1> HIDE DEF won
<1> QED BY <1>1, <1>3, <1>4, PaidOut DEF SettledAs

\* settleShowdown ends the hand, whatever the cards.
LEMMA ShowdownRests ==
  ASSUME NEW t, InHand(t), NEW strength
  PROVE  /\ AtRest(MarkSettled(BuildAndAwardPots(t, strength)))
         /\ AwardsHeld(MarkSettled(BuildAndAwardPots(t, strength)))
         /\ SettledAs(t, MarkSettled(BuildAndAwardPots(t, strength)))
<1> DEFINE layer == <<LayerShares(t, 0, strength), LayerShares(t, 1, strength),
                      LayerShares(t, 2, strength), LayerShares(t, 3, strength),
                      LayerShares(t, 4, strength), LayerShares(t, 5, strength)>>
           won == [s \in Seats |-> layer[1][s] + layer[2][s] + layer[3][s]
                                    + layer[4][s] + layer[5][s] + layer[6][s]]
<1>1. t \in TableState /\ Distinct(t)
  BY DEF InHand
<1>2. \A q \in Seats : LayerShares(t, q, strength) \in [Seats -> Nat]
  BY <1>1, LayerSharesType
<1>3. \A i \in 1 .. 6 : layer[i] \in [Seats -> Nat]
  BY <1>2 DEF Seats
<1>4. won \in [Seats -> Nat]
  <2> HIDE DEF layer
  <2> QED BY <1>3
<1>5. BuildAndAwardPots(t, strength) = Award(t, won)
  BY DEF BuildAndAwardPots
<1> HIDE DEF won
<1> QED BY <1>1, <1>4, <1>5, PaidOut

-----------------------------------------------------------------------------
(* The betting round.                                                      *)

\* selectNextActor names nobody or somebody who can act and owes a decision.
LEMMA NextCanActSeatFound ==
  ASSUME NEW t \in TableState, NEW from \in Seats
  PROVE  \/ NextCanActSeat(t, from) = NoSeat
         \/ /\ NextCanActSeat(t, from) \in Seats
            /\ CanAct(t, NextCanActSeat(t, from))
            /\ t.occupant[NextCanActSeat(t, from)] \in t.pending_action
<1> DEFINE S == {s \in Actionable(t) : t.occupant[s] \in t.pending_action}
<1>1. S \in SUBSET Seats
  BY DEF Actionable
<1>2. NextCanActSeat(t, from) = FirstClockwise(from, S)
  BY DEF NextCanActSeat
<1>3. S = {} => NextCanActSeat(t, from) = NoSeat
  BY <1>1, <1>2, FirstClockwiseType
<1>4. S # {} => NextCanActSeat(t, from) \in S
  BY <1>1, <1>2, FirstClockwiseType
<1> QED BY <1>3, <1>4 DEF Actionable

\* The players found at a set of occupied seats are players.
LEMMA PlayersAtType ==
  ASSUME NEW t \in TableState, NEW S \in SUBSET Occupied(t)
  PROVE  PlayersAt(t, S) \in SUBSET Players
BY DEF PlayersAt, Occupied, TableState

\* A running hand with a new actor, found by NextCanActSeat or absent, is at rest.
LEMMA NewActorRests ==
  ASSUME NEW t, InHand(t), t.street # "showdown", NEW a \in SeatValue,
         a # NoSeat => CanAct(t, a) /\ t.occupant[a] \in t.pending_action
  PROVE  AtRest([t EXCEPT !.acting_seat = a]) /\ AwardsHeld([t EXCEPT !.acting_seat = a])
<1> DEFINE u == [t EXCEPT !.acting_seat = a]
<1>1. t \in TableState
  BY DEF InHand
<1>2. u \in TableState
  BY <1>1, Zenon DEF TableState
<1>3. /\ u.occupant = t.occupant /\ u.street = t.street /\ u.dealer_seat = t.dealer_seat
      /\ u.status = t.status /\ u.street_commitment = t.street_commitment
      /\ u.current_bet = t.current_bet /\ u.stack = t.stack
      /\ u.pending_action = t.pending_action /\ u.acting_seat = a
  BY <1>1 DEF TableState
<1> HIDE DEF u
<1>4. InHand(u)
  BY <1>2, <1>3 DEF InHand, Distinct
<1>5. a # NoSeat => MayAct(u, a)
  BY <1>3, <1>4 DEF MayAct, CanAct, Occupied, HandIsRunning, InHand
<1>6. AtRest(u)
  BY <1>2, <1>3, <1>4, <1>5 DEF AtRest, InHand
<1>7. AwardsHeld(u)
  BY <1>4 DEF AwardsHeld, InHand
<1> QED BY <1>6, <1>7 DEF u

\* advanceStreet keeps what holds during a hand.
LEMMA AdvanceStreetInHand ==
  ASSUME NEW t, InHand(t), t.street \in {"preflop", "flop", "turn"}
  PROVE  /\ InHand(AdvanceStreet(t))
         /\ AdvanceStreet(t).street \in {"flop", "turn", "river"}
<1> DEFINE u == AdvanceStreet(t)
           who == PlayersAt(t, Actionable(t))
<1>1. t \in TableState
  BY DEF InHand
<1>2. IsRecord(u)
  <2>1. DOMAIN u = DOMAIN t /\ u = [f \in DOMAIN u |-> u[f]]
    BY <1>1, ZenonT(30) DEF AdvanceStreet, TableState
  <2> QED BY <2>1, <1>1, TableStateIsRecord DEF IsRecord
<1>3. /\ u.occupant = t.occupant /\ u.stack = t.stack
      /\ u.street_commitment = [s \in Seats |-> 0] /\ u.hand_commitment = t.hand_commitment
      /\ u.status = t.status /\ u.ready = t.ready
      /\ u.connected = t.connected /\ u.street = NextStreet(t.street)
      /\ u.dealer_seat = t.dealer_seat /\ u.acting_seat = t.acting_seat
      /\ u.current_bet = 0 /\ u.minimum_raise = BigBlind
      /\ u.pending_action = who /\ u.raise_allowed = who
      /\ u.last_awards = t.last_awards /\ u.hand_id = t.hand_id
      /\ u.server_sequence = t.server_sequence
  BY <1>1 DEF AdvanceStreet, TableState
<1>4. NextStreet(t.street) \in {"flop", "turn", "river"}
  BY DEF NextStreet
<1>5. who \in SUBSET Players
  <2>1. Actionable(t) \in SUBSET Occupied(t)
    BY DEF Actionable, CanAct
  <2> QED BY <2>1, <1>1, PlayersAtType
<1>6. [s \in Seats |-> 0] \in [Seats -> Nat]
  OBVIOUS
<1> HIDE DEF u, who
<1>7. u \in TableState
  <2>1. u.street \in Streets /\ u.street_commitment \in [Seats -> Nat]
        /\ u.current_bet \in Nat /\ u.minimum_raise \in Nat
    BY <1>3, <1>4, <1>6, ConfigAssumption DEF Streets
  <2>2. /\ u.occupant \in [Seats -> Players \cup {NoPlayer}] /\ u.stack \in [Seats -> Nat]
        /\ u.hand_commitment \in [Seats -> Nat]
        /\ u.status \in [Seats -> PlayerStatus] /\ u.ready \in [Seats -> BOOLEAN]
        /\ u.connected \in [Seats -> BOOLEAN]
        /\ u.dealer_seat \in SeatValue /\ u.acting_seat \in SeatValue
        /\ u.last_awards \in [Players -> Nat] /\ u.hand_id \in Nat
        /\ u.server_sequence \in Nat
    BY <1>1, <1>3 DEF TableState
  <2> QED BY <1>2, <1>3, <1>5, <2>1, <2>2, TableStateFields
<1>8. InHand(u)
  BY <1>3, <1>4, <1>7 DEF InHand, Distinct
<1> QED BY <1>3, <1>4, <1>8 DEF u

\* What the loop of advanceUntilActionOrSettlement works on and returns: a hand
\* to be shown down, or a table at rest.
Advanced(t) ==
  IF t.street = "showdown" THEN InHand(t)
  ELSE t.street # "waiting" /\ AtRest(t) /\ AwardsHeld(t)

\* One turn of the loop keeps what the loop works on.
LEMMA AdvanceTurnAdvanced ==
  ASSUME NEW t, Advanced(t)
  PROVE  Advanced(AdvanceTurn(t))
<1>1. CASE t.street \in {"showdown", "settled"}
  BY <1>1, Zenon DEF AdvanceTurn
<1>2. CASE t.street \notin {"showdown", "settled"}
  <2>1. InHand(t) /\ t \in TableState /\ t.dealer_seat \in Seats
    BY <1>2 DEF Advanced, AtRest, HandIsRunning, TableState, Streets, InHand
  <2>2. t.street \in {"preflop", "flop", "turn", "river"}
    BY <1>2, <2>1, Zenon DEF InHand
  <2>3. t.acting_seat # NoSeat => MayAct(t, t.acting_seat)
    BY <1>2 DEF Advanced, AtRest
  <2>4. CASE SeatCount(Contenders(t)) <= 1
    <3>1. AdvanceTurn(t) = SettleFoldWin(t)
      BY <1>2, <2>4, Zenon DEF AdvanceTurn
    <3> QED BY <2>1, <3>1, SettleFoldWinRests, SMTT(20) DEF Advanced
  <2>5. CASE ~ (SeatCount(Contenders(t)) <= 1) /\ ~ BettingRoundComplete(t)
    <3> DEFINE a == IF t.acting_seat = NoSeat
                    THEN NextCanActSeat(t, t.dealer_seat) ELSE t.acting_seat
    <3>1. AdvanceTurn(t) = [t EXCEPT !.acting_seat = a]
      BY <1>2, <2>1, <2>5, Zenon DEF AdvanceTurn, TableState
    <3>2. a \in SeatValue /\ (a # NoSeat => CanAct(t, a) /\ t.occupant[a] \in t.pending_action)
      BY <2>1, <2>3, NextCanActSeatFound DEF MayAct, SeatValue, TableState
    <3>3. AdvanceTurn(t).street = t.street
      BY <3>1, <2>1 DEF TableState
    <3> HIDE DEF a
    <3> QED BY <2>1, <2>2, <3>1, <3>2, <3>3, NewActorRests, SMTT(20) DEF Advanced
  <2>6. CASE ~ (SeatCount(Contenders(t)) <= 1) /\ BettingRoundComplete(t) /\ t.street = "river"
    <3>1. AdvanceTurn(t) = [t EXCEPT !.street = "showdown"]
      BY <1>2, <2>6, Zenon DEF AdvanceTurn
    <3> DEFINE u == [t EXCEPT !.street = "showdown"]
    <3>2. u \in TableState
      BY <2>1, SMTT(20) DEF TableState, Streets
    <3>3. /\ u.occupant = t.occupant /\ u.dealer_seat = t.dealer_seat /\ u.status = t.status
          /\ u.street_commitment = t.street_commitment /\ u.current_bet = t.current_bet
          /\ u.street = "showdown"
      BY <2>1 DEF TableState
    <3> HIDE DEF u
    <3>4. InHand(u)
      BY <2>1, <3>2, <3>3 DEF InHand, Distinct
    <3> QED BY <3>1, <3>3, <3>4, SMTT(20) DEF Advanced, u
  <2>7. CASE ~ (SeatCount(Contenders(t)) <= 1) /\ BettingRoundComplete(t) /\ t.street # "river"
    <3> DEFINE u == AdvanceStreet(t)
    <3>1. InHand(u) /\ u.street \in {"flop", "turn", "river"} /\ u \in TableState
          /\ u.dealer_seat \in Seats
      BY <2>1, <2>2, <2>7, AdvanceStreetInHand, Zenon DEF InHand
    <3>2. CASE SeatCount(Actionable(u)) <= 1
      <4> DEFINE v == [u EXCEPT !.pending_action = {}]
      <4>1. AdvanceTurn(t) = [v EXCEPT !.acting_seat = NoSeat]
        BY <1>2, <2>7, <3>2, Zenon DEF AdvanceTurn
      <4> HIDE DEF u
      <4>2. v \in TableState
        BY <3>1, Zenon DEF TableState
      <4>3. /\ v.occupant = u.occupant /\ v.dealer_seat = u.dealer_seat /\ v.status = u.status
            /\ v.street_commitment = u.street_commitment /\ v.current_bet = u.current_bet
            /\ v.street = u.street
        BY <3>1 DEF TableState
      <4> HIDE DEF v
      <4>4. InHand(v) /\ v.street # "showdown"
        BY <3>1, <4>2, <4>3 DEF InHand, Distinct
      <4>5. [v EXCEPT !.acting_seat = NoSeat].street = v.street
        BY <4>2 DEF TableState
      <4> QED BY <3>1, <4>1, <4>3, <4>4, <4>5, NewActorRests, SMTT(20) DEF Advanced, SeatValue
    <3>3. CASE ~ (SeatCount(Actionable(u)) <= 1)
      <4>1. AdvanceTurn(t) = [u EXCEPT !.acting_seat = NextCanActSeat(u, u.dealer_seat)]
        BY <1>2, <2>7, <3>3, Zenon DEF AdvanceTurn
      <4> HIDE DEF u
      <4> DEFINE a == NextCanActSeat(u, u.dealer_seat)
      <4>2. a \in SeatValue /\ (a # NoSeat => CanAct(u, a) /\ u.occupant[a] \in u.pending_action)
        BY <3>1, NextCanActSeatFound DEF SeatValue
      <4>3. [u EXCEPT !.acting_seat = a].street = u.street
        BY <3>1 DEF TableState
      <4> HIDE DEF a
      <4> QED BY <3>1, <4>1, <4>2, <4>3, NewActorRests, SMTT(20) DEF Advanced, a
    <3> QED BY <3>2, <3>3
  <2> QED BY <2>4, <2>5, <2>6, <2>7
<1> QED BY <1>1, <1>2

\* The whole loop does.
LEMMA LoopAdvanced ==
  ASSUME NEW t, Advanced(t)
  PROVE  Advanced(AdvanceUntilActionOrSettlement(t))
BY AdvanceTurnAdvanced DEF AdvanceUntilActionOrSettlement

\* A hand that has been advanced ends up at rest, shown down or not.
LEMMA SettlementsRest ==
  ASSUME NEW t, Advanced(t), NEW u \in Settlements(t)
  PROVE  AtRest(u) /\ AwardsHeld(u)
<1>1. CASE t.street = "showdown"
  <2>1. InHand(t)
    BY <1>1 DEF Advanced
  <2>2. PICK strength \in [Contenders(t) -> Strengths] :
          u = MarkSettled(BuildAndAwardPots(t, strength))
    BY <1>1 DEF Settlements
  <2> QED BY <2>1, <2>2, ShowdownRests
<1>2. CASE t.street # "showdown"
  BY <1>2 DEF Settlements, Advanced
<1> QED BY <1>1, <1>2

\* The end of act() turns the hand the command leaves into an advanced one.
LEMMA ConcludeActionAdvanced ==
  ASSUME NEW u, InHand(u), u.street # "showdown", NEW s \in Seats
  PROVE  Advanced(ConcludeAction(u, s))
<1> DEFINE t == [u EXCEPT !.server_sequence = @ + 1]
<1>1. u \in TableState
  BY DEF InHand
<1>2. t \in TableState
  BY <1>1 DEF TableState
<1>3. /\ t.occupant = u.occupant /\ t.dealer_seat = u.dealer_seat /\ t.status = u.status
      /\ t.street_commitment = u.street_commitment /\ t.current_bet = u.current_bet
      /\ t.street = u.street
  BY <1>1 DEF TableState
<1>4. ConcludeAction(u, s) =
        IF SeatCount(Contenders(t)) <= 1 THEN SettleFoldWin(t)
        ELSE IF BettingRoundComplete(t)
             THEN AdvanceUntilActionOrSettlement([t EXCEPT !.acting_seat = NoSeat])
        ELSE [t EXCEPT !.acting_seat = NextCanActSeat(t, s)]
  BY DEF ConcludeAction
<1> HIDE DEF t
<1>5. InHand(t) /\ t.street # "showdown" /\ t.street # "waiting"
  BY <1>2, <1>3 DEF InHand, Distinct
<1>6. ASSUME NEW a \in SeatValue,
             a # NoSeat => CanAct(t, a) /\ t.occupant[a] \in t.pending_action
      PROVE  Advanced([t EXCEPT !.acting_seat = a])
  <2>1. [t EXCEPT !.acting_seat = a].street = t.street
    BY <1>2 DEF TableState
  <2> QED BY <1>5, <1>6, <2>1, NewActorRests DEF Advanced
<1>7. Advanced([t EXCEPT !.acting_seat = NoSeat])
  BY <1>6 DEF SeatValue
<1>8. Advanced([t EXCEPT !.acting_seat = NextCanActSeat(t, s)])
  BY <1>2, <1>6, NextCanActSeatFound DEF SeatValue
<1>9. Advanced(SettleFoldWin(t))
  BY <1>5, SettleFoldWinRests DEF Advanced
<1> QED BY <1>4, <1>7, <1>8, <1>9, LoopAdvanced

WithActionSets(t, P, R) == [t EXCEPT !.pending_action = P, !.raise_allowed = R]

\* Changing who is asked, and who may raise, keeps what holds during a hand.
LEMMA ActionSetsInHand ==
  ASSUME NEW t, InHand(t), NEW P \in SUBSET Players, NEW R \in SUBSET Players
  PROVE  /\ InHand(WithActionSets(t, P, R))
         /\ WithActionSets(t, P, R).street = t.street
<1> DEFINE u == WithActionSets(t, P, R)
<1>1. t \in TableState
  BY DEF InHand
<1>2. u \in TableState
  BY <1>1, Zenon DEF TableState, WithActionSets
<1>3. /\ u.occupant = t.occupant /\ u.dealer_seat = t.dealer_seat /\ u.status = t.status
      /\ u.street_commitment = t.street_commitment /\ u.current_bet = t.current_bet
      /\ u.street = t.street
  BY <1>1 DEF TableState, WithActionSets
<1> HIDE DEF u
<1>4. InHand(u)
  BY <1>2, <1>3 DEF InHand, Distinct
<1> QED BY <1>3, <1>4 DEF u

\* removeFromActionSets does.
LEMMA RemoveFromActionSetsInHand ==
  ASSUME NEW t, InHand(t), NEW p
  PROVE  /\ InHand(RemoveFromActionSets(t, p))
         /\ RemoveFromActionSets(t, p).street = t.street
<1>1. t.pending_action \ {p} \in SUBSET Players /\ t.raise_allowed \ {p} \in SUBSET Players
  BY DEF InHand, TableState
<1>2. RemoveFromActionSets(t, p)
        = WithActionSets(t, t.pending_action \ {p}, t.raise_allowed \ {p})
  BY DEF RemoveFromActionSets, WithActionSets, InHand, TableState
<1> QED BY <1>1, <1>2, ActionSetsInHand

\* resetAfterFullRaise does.
LEMMA ResetAfterFullRaiseInHand ==
  ASSUME NEW t, InHand(t), NEW p
  PROVE  /\ InHand(ResetAfterFullRaise(t, p))
         /\ ResetAfterFullRaise(t, p).street = t.street
<1> DEFINE others == PlayersAt(t, Actionable(t)) \ {p}
<1>1. others \in SUBSET Players
  <2>1. Actionable(t) \in SUBSET Occupied(t)
    BY DEF Actionable, CanAct
  <2> QED BY <2>1, PlayersAtType DEF InHand
<1>2. ResetAfterFullRaise(t, p) = WithActionSets(t, others, others)
  BY DEF ResetAfterFullRaise, WithActionSets
<1> HIDE DEF others
<1> QED BY <1>1, <1>2, ActionSetsInHand

\* addUnderCalledPlayers does.
LEMMA AddUnderCalledPlayersInHand ==
  ASSUME NEW t, InHand(t), NEW p
  PROVE  /\ InHand(AddUnderCalledPlayers(t, p))
         /\ AddUnderCalledPlayers(t, p).street = t.street
<1> DEFINE under == {s \in Actionable(t) : t.street_commitment[s] < t.current_bet}
           P == t.pending_action \cup (PlayersAt(t, under) \ {p})
<1>1. t \in TableState
  BY DEF InHand
<1>2. P \in SUBSET Players
  <2>1. under \in SUBSET Occupied(t)
    BY DEF Actionable, CanAct
  <2>2. PlayersAt(t, under) \in SUBSET Players
    BY <1>1, <2>1, PlayersAtType
  <2> QED BY <1>1, <2>2 DEF TableState
<1>3. AddUnderCalledPlayers(t, p) = [t EXCEPT !.pending_action = P]
  BY <1>1 DEF AddUnderCalledPlayers, TableState
<1> HIDE DEF P
<1>4. [t EXCEPT !.pending_action = P] = WithActionSets(t, P, t.raise_allowed)
  BY <1>1, Zenon DEF TableState, WithActionSets
<1>5. t.raise_allowed \in SUBSET Players
  BY <1>1 DEF TableState
<1> QED BY <1>2, <1>3, <1>4, <1>5, ActionSetsInHand

\* The record u is t after seat s has paid.
Pays(t, u, s, payment) ==
  /\ u.occupant = t.occupant /\ u.street = t.street /\ u.dealer_seat = t.dealer_seat
  /\ u.current_bet = t.current_bet /\ u.minimum_raise = t.minimum_raise
  /\ u.pending_action = t.pending_action /\ u.raise_allowed = t.raise_allowed
  /\ u.hand_id = t.hand_id
  /\ u.street_commitment = [t.street_commitment EXCEPT ![s] = @ + payment]
  /\ \A q \in Seats :
       /\ u.stack[q] = IF q = s THEN t.stack[s] - payment ELSE t.stack[q]
       /\ u.status[q] = IF q = s /\ t.stack[s] = payment THEN "all_in" ELSE t.status[q]

\* A payment of at most the stack keeps the types, and changes the seat that pays.
LEMMA PaidFields ==
  ASSUME NEW t \in TableState, NEW s \in Seats, NEW payment \in Nat, payment <= t.stack[s]
  PROVE  Pay(t, s, payment) \in TableState /\ Pays(t, Pay(t, s, payment), s, payment)
<1> DEFINE u == Pay(t, s, payment)
           stack == [t.stack EXCEPT ![s] = @ - payment]
           street_commitment == [t.street_commitment EXCEPT ![s] = @ + payment]
           hand_commitment == [t.hand_commitment EXCEPT ![s] = @ + payment]
           status == [t.status EXCEPT ![s] = IF t.stack[s] = payment THEN "all_in" ELSE @]
<1>1. u = [t EXCEPT !.stack = stack, !.street_commitment = street_commitment,
                    !.hand_commitment = hand_commitment, !.status = status]
  BY DEF Pay, TableState
<1>2. stack \in [Seats -> Nat]
  BY DEF TableState
<1>3. street_commitment \in [Seats -> Nat] /\ hand_commitment \in [Seats -> Nat]
  BY DEF TableState
<1>4. status \in [Seats -> PlayerStatus]
  BY DEF TableState, PlayerStatus
<1>5. /\ u.occupant = t.occupant /\ u.street = t.street /\ u.dealer_seat = t.dealer_seat
      /\ u.current_bet = t.current_bet /\ u.minimum_raise = t.minimum_raise
      /\ u.pending_action = t.pending_action /\ u.raise_allowed = t.raise_allowed
      /\ u.hand_id = t.hand_id /\ u.stack = stack
      /\ u.street_commitment = street_commitment /\ u.status = status
  <2> HIDE DEF stack, street_commitment, hand_commitment, status, u
  <2> QED BY <1>1 DEF TableState
<1>6. u \in TableState
  <2> HIDE DEF stack, street_commitment, hand_commitment, status, u
  <2> QED BY <1>1, <1>2, <1>3, <1>4, Zenon DEF TableState
<1>7. \A q \in Seats :
        /\ stack[q] = IF q = s THEN t.stack[s] - payment ELSE t.stack[q]
        /\ status[q] = IF q = s /\ t.stack[s] = payment THEN "all_in" ELSE t.status[q]
  BY DEF TableState
<1> HIDE DEF u, stack, status
<1>8. Pays(t, u, s, payment)
  BY <1>5, <1>7 DEF Pays, street_commitment
<1> QED BY <1>6, <1>8 DEF u

\* In particular it takes nobody out of the hand.
LEMMA PayFields ==
  ASSUME NEW t \in TableState, NEW s \in Seats, NEW payment \in Nat, payment <= t.stack[s]
  PROVE  /\ Pay(t, s, payment) \in TableState
         /\ Pay(t, s, payment).occupant = t.occupant
         /\ Pay(t, s, payment).street = t.street
         /\ Pay(t, s, payment).dealer_seat = t.dealer_seat
         /\ Pay(t, s, payment).current_bet = t.current_bet
         /\ Pay(t, s, payment).minimum_raise = t.minimum_raise
         /\ Pay(t, s, payment).hand_id = t.hand_id
         /\ Pay(t, s, payment).street_commitment
              = [t.street_commitment EXCEPT ![s] = @ + payment]
         /\ \A q \in Seats : t.status[q] # "waiting" => Pay(t, s, payment).status[q] # "waiting"
<1> PICK u : u = Pay(t, s, payment)
  OBVIOUS
<1>1. u \in TableState /\ Pays(t, u, s, payment)
  BY PaidFields
<1>2. \A q \in Seats : t.status[q] # "waiting" => u.status[q] # "waiting"
  BY <1>1 DEF Pays
<1> QED BY <1>1, <1>2 DEF Pays

\* A payment up to at most the bet to call keeps what holds during a hand.
LEMMA PayToInHand ==
  ASSUME NEW t, InHand(t), NEW s \in Seats, NEW target \in Nat,
         t.street_commitment[s] <= target, target <= Available(t, s)
  PROVE  /\ target <= t.current_bet => InHand(PayTo(t, s, target))
         /\ target > t.current_bet => InHand([PayTo(t, s, target) EXCEPT !.current_bet = target])
         /\ PayTo(t, s, target).street = t.street
         /\ PayTo(t, s, target) \in TableState
<1> DEFINE payment == target - t.street_commitment[s]
           u == PayTo(t, s, target)
           v == [u EXCEPT !.current_bet = target]
<1>1. t \in TableState
  BY DEF InHand
<1>2. t.street_commitment[s] \in Nat /\ t.stack[s] \in Nat
  BY <1>1 DEF TableState
<1>3. payment \in Nat /\ payment <= t.stack[s] /\ t.street_commitment[s] + payment = target
  BY <1>2 DEF Available
<1>4. u = Pay(t, s, payment)
  BY DEF PayTo
<1> HIDE DEF payment, u
<1>5. /\ u \in TableState /\ u.occupant = t.occupant /\ u.street = t.street
      /\ u.dealer_seat = t.dealer_seat /\ u.current_bet = t.current_bet
      /\ u.street_commitment = [t.street_commitment EXCEPT ![s] = @ + payment]
      /\ \A q \in Seats : t.status[q] # "waiting" => u.status[q] # "waiting"
  BY <1>1, <1>3, <1>4, PayFields
<1>6. \A q \in Seats : u.street_commitment[q] = IF q = s THEN target ELSE t.street_commitment[q]
  BY <1>1, <1>3, <1>5 DEF TableState
<1>7. \A q \in Seats : t.street_commitment[q] \in Nat /\ t.street_commitment[q] <= t.current_bet
  BY <1>1 DEF InHand, TableState
<1>8. t.current_bet \in Nat
  BY <1>1 DEF TableState
<1>9. ASSUME target <= t.current_bet PROVE InHand(u)
  <2>1. \A q \in Seats : u.street_commitment[q] <= u.current_bet
    BY <1>5, <1>6, <1>7, <1>9
  <2> QED BY <1>5, <2>1 DEF InHand, Distinct
<1>10. ASSUME target > t.current_bet PROVE InHand(v)
  <2>1. v \in TableState
    BY <1>5, Zenon DEF TableState
  <2>2. /\ v.occupant = u.occupant /\ v.street = u.street /\ v.dealer_seat = u.dealer_seat
        /\ v.status = u.status /\ v.street_commitment = u.street_commitment
        /\ v.current_bet = target
    BY <1>5 DEF TableState
  <2> HIDE DEF v
  <2>3. \A q \in Seats : v.street_commitment[q] <= v.current_bet
    BY <2>2, <1>6, <1>7, <1>8, <1>10
  <2> QED BY <1>5, <2>1, <2>2, <2>3 DEF InHand, Distinct
<1> QED BY <1>5, <1>9, <1>10 DEF u

\* So does a raise.
LEMMA RaiseToInHand ==
  ASSUME NEW t, InHand(t), NEW s \in Seats, NEW target \in Nat,
         t.street_commitment[s] <= target, target <= Available(t, s), target > t.current_bet
  PROVE  InHand(RaiseTo(t, s, target)) /\ RaiseTo(t, s, target).street = t.street
<1> DEFINE p == t.occupant[s]
           size == target - t.current_bet
           u == [PayTo(t, s, target) EXCEPT !.current_bet = target]
           v == [u EXCEPT !.minimum_raise = size]
<1>1. InHand(u)
  BY PayToInHand
<1>2. u.street = t.street
  <2>1. PayTo(t, s, target).street = t.street /\ PayTo(t, s, target) \in TableState
    BY PayToInHand, Zenon
  <2> QED BY <2>1 DEF TableState
<1>3. RaiseTo(t, s, target) = IF size >= t.minimum_raise
                              THEN ResetAfterFullRaise(v, p)
                              ELSE RemoveFromActionSets(AddUnderCalledPlayers(u, p), p)
  BY DEF RaiseTo
<1>4. size \in Nat
  BY DEF InHand, TableState
<1> HIDE DEF u, size
<1>5. InHand(v) /\ v.street = u.street
  <2>1. v \in TableState
    BY <1>1, <1>4, Zenon DEF InHand, TableState
  <2>2. /\ v.occupant = u.occupant /\ v.street = u.street /\ v.dealer_seat = u.dealer_seat
        /\ v.status = u.status /\ v.street_commitment = u.street_commitment
        /\ v.current_bet = u.current_bet
    BY <1>1 DEF InHand, TableState
  <2> HIDE DEF v
  <2> QED BY <1>1, <2>1, <2>2 DEF InHand, Distinct
<1> HIDE DEF v
<1> QED BY <1>1, <1>2, <1>3, <1>5, ResetAfterFullRaiseInHand, AddUnderCalledPlayersInHand,
           RemoveFromActionSetsInHand

-----------------------------------------------------------------------------
(* Every command of act() preserves the invariant.                         *)

\* What the checks at the start of act() give.
LEMMA MayActInHand ==
  ASSUME IInv, NEW s \in Seats, MayAct(table, s)
  PROVE  InHand(table) /\ table.street # "showdown"
BY Zenon DEF IInv, AtRest, MayAct

\* The end of act() restores the invariant.
LEMMA ConcludeInductive ==
  ASSUME IInv, NEW t, InHand(t), t.street # "showdown", NEW s \in Seats, Conclude(t, s)
  PROVE  IInv'
<1>1. AtRest(table') /\ AwardsHeld(table')
  BY ConcludeActionAdvanced, SettlementsRest DEF Conclude
<1>2. sameRoster' \in BOOLEAN
  BY DEF Conclude, IInv
<1> QED BY <1>1, <1>2, Zenon DEF IInv, AtRest, AwardsHeld, InHand, Distinct,
           HandIsRunning, MayAct, CanAct, Occupied

\* Folding preserves the invariant.
LEMMA FoldInductive ==
  ASSUME IInv, NEW s \in Seats, Fold(s)
  PROVE  IInv'
<1> DEFINE u == [table EXCEPT !.status[s] = "folded"]
<1>1. InHand(table) /\ table.street # "showdown" /\ table \in TableState
  BY MayActInHand DEF Fold, InHand
<1>2. u \in TableState
  BY <1>1, Zenon DEF TableState, PlayerStatus
<1>3. /\ u.occupant = table.occupant /\ u.street = table.street
      /\ u.dealer_seat = table.dealer_seat /\ u.current_bet = table.current_bet
      /\ u.street_commitment = table.street_commitment
      /\ u.status = [table.status EXCEPT ![s] = "folded"]
  BY <1>1 DEF TableState
<1>4. Conclude(RemoveFromActionSets(u, table.occupant[s]), s)
  BY DEF Fold
<1> HIDE DEF u
<1>5. \A q \in Seats : table.status[q] # "waiting" => u.status[q] # "waiting"
  BY <1>1, <1>3, Zenon DEF TableState
<1>6. InHand(u)
  BY <1>1, <1>2, <1>3, <1>5 DEF InHand, Distinct
<1>7. /\ InHand(RemoveFromActionSets(u, table.occupant[s]))
      /\ RemoveFromActionSets(u, table.occupant[s]).street = u.street
  BY <1>6, RemoveFromActionSetsInHand
<1> QED BY <1>1, <1>3, <1>4, <1>7, ConcludeInductive, Zenon

\* Checking does.
LEMMA CheckInductive ==
  ASSUME IInv, NEW s \in Seats, Check(s)
  PROVE  IInv'
<1>1. InHand(table) /\ table.street # "showdown"
  BY MayActInHand DEF Check
<1> QED BY <1>1, RemoveFromActionSetsInHand, ConcludeInductive DEF Check

\* Calling, or going all-in for no more than the bet.
LEMMA CallToInductive ==
  ASSUME IInv, NEW s \in Seats, MayAct(table, s), NEW target \in Nat,
         table.street_commitment[s] <= target, target <= Available(table, s),
         target <= table.current_bet,
         Conclude(RemoveFromActionSets(PayTo(table, s, target), table.occupant[s]), s)
  PROVE  IInv'
<1> DEFINE u == PayTo(table, s, target)
<1>1. InHand(table) /\ table.street # "showdown"
  BY MayActInHand
<1>2. InHand(u) /\ u.street = table.street
  BY <1>1, PayToInHand, Zenon
<1> HIDE DEF u
<1>3. /\ InHand(RemoveFromActionSets(u, table.occupant[s]))
      /\ RemoveFromActionSets(u, table.occupant[s]).street = u.street
  BY <1>2, RemoveFromActionSetsInHand
<1> QED BY <1>1, <1>2, <1>3, ConcludeInductive DEF u

\* Calling does.
LEMMA CallInductive ==
  ASSUME IInv, NEW s \in Seats, Call(s)
  PROVE  IInv'
<1> DEFINE target == Lesser(table.current_bet, Available(table, s))
<1>1. table \in TableState
  BY DEF IInv, AtRest
<1>2. /\ table.street_commitment[s] \in Nat /\ table.stack[s] \in Nat
      /\ table.current_bet \in Nat /\ table.street_commitment[s] < table.current_bet
  BY <1>1 DEF TableState, Call
<1>3. /\ target \in Nat /\ table.street_commitment[s] <= target
      /\ target <= Available(table, s) /\ target <= table.current_bet
  BY <1>2 DEF Lesser, Available
<1> HIDE DEF target
<1>4. /\ MayAct(table, s)
      /\ Conclude(RemoveFromActionSets(PayTo(table, s, target), table.occupant[s]), s)
  BY DEF Call, target
<1> QED BY <1>3, <1>4, CallToInductive

\* Betting, raising, or going all-in for more than the bet.
LEMMA RaiseToInductive ==
  ASSUME IInv, NEW s \in Seats, MayAct(table, s), NEW target \in Nat,
         target > table.current_bet, target <= Available(table, s),
         Conclude(RaiseTo(table, s, target), s)
  PROVE  IInv'
<1>1. InHand(table) /\ table.street # "showdown"
  BY MayActInHand
<1>2. table.street_commitment[s] <= target
  <2>1. /\ table.street_commitment[s] \in Nat /\ table.current_bet \in Nat
        /\ table.street_commitment[s] <= table.current_bet
    BY <1>1 DEF InHand, TableState
  <2> QED BY <2>1
<1> QED BY <1>1, <1>2, RaiseToInHand, ConcludeInductive

\* Every command of act() does.
LEMMA ActInductive ==
  ASSUME IInv, Act
  PROVE  IInv'
<1>1. PICK s \in Seats :
         \/ Fold(s)
         \/ Check(s)
         \/ Call(s)
         \/ \E amount \in 1 .. MaxTableChips : Bet(s, amount)
         \/ \E amount \in 1 .. MaxTableChips : Raise(s, amount)
         \/ AllIn(s)
  BY DEF Act
<1>2. table \in TableState
  BY DEF IInv, AtRest
<1>3. CASE \E amount \in 1 .. MaxTableChips : Bet(s, amount)
  <2>1. PICK amount \in 1 .. MaxTableChips : Bet(s, amount)
    BY <1>3
  <2>2. amount \in Nat /\ amount > table.current_bet
    BY <2>1, ValueAssumption DEF Bet
  <2> QED BY <2>1, <2>2, RaiseToInductive DEF Bet
<1>4. CASE \E amount \in 1 .. MaxTableChips : Raise(s, amount)
  <2>1. PICK amount \in 1 .. MaxTableChips : Raise(s, amount)
    BY <1>4
  <2>2. amount \in Nat
    BY ValueAssumption
  <2> QED BY <2>1, <2>2, RaiseToInductive DEF Raise
<1>5. CASE AllIn(s)
  <2> DEFINE target == Available(table, s)
  <2>1. /\ target \in Nat /\ table.street_commitment[s] <= target
        /\ target <= Available(table, s)
    <3>1. table.street_commitment[s] \in Nat /\ table.stack[s] \in Nat
      BY <1>2 DEF TableState
    <3> QED BY <3>1 DEF Available
  <2>2. /\ MayAct(table, s)
        /\ \/ /\ target <= table.current_bet
              /\ Conclude(RemoveFromActionSets(PayTo(table, s, target), table.occupant[s]), s)
           \/ /\ target > table.current_bet
              /\ Conclude(RaiseTo(table, s, target), s)
    BY <1>5 DEF AllIn
  <2> HIDE DEF target
  <2> QED BY <2>1, <2>2, CallToInductive, RaiseToInductive
<1> QED BY <1>1, <1>3, <1>4, <1>5, FoldInductive, CheckInductive, CallInductive

-----------------------------------------------------------------------------
(* startHand preserves the invariant.                                      *)

\* A positive count has something to count.
LEMMA SeatCountPositive ==
  ASSUME NEW S, SeatCount(S) > 0
  PROVE  \E s \in Seats : s \in S
<1> SUFFICES ASSUME \A s \in Seats : s \notin S PROVE FALSE
  OBVIOUS
<1> DEFINE one == [s \in Seats |-> IF s \in S THEN 1 ELSE 0]
<1>1. \A s \in Seats : one[s] = 0
  OBVIOUS
<1>2. SeatCount(S) = one[0] + one[1] + one[2] + one[3] + one[4] + one[5]
  BY DEF SeatCount, SeatSum
<1> HIDE DEF one
<1> QED BY <1>1, <1>2 DEF Seats

\* A hand that starts: everybody taking part is active and nothing is committed.
LEMMA FreshHandFields ==
  ASSUME NEW t \in TableState
  PROVE  LET u == FreshHand(t)
         IN  /\ u \in TableState /\ u.occupant = t.occupant /\ u.stack = t.stack
             /\ u.street = "preflop" /\ u.dealer_seat = t.dealer_seat /\ u.acting_seat = NoSeat
             /\ u.street_commitment = [s \in Seats |-> 0] /\ u.current_bet = 0
             /\ u.status = [s \in Seats |-> IF s \in ReadySeats(t) THEN "active" ELSE "waiting"]
             /\ u.hand_id = t.hand_id + 1
<1> DEFINE u == FreshHand(t)
           zero == [s \in Seats |-> 0]
           status == [s \in Seats |-> IF s \in ReadySeats(t) THEN "active" ELSE "waiting"]
           nothing == [p \in Players |-> 0]
<1>1. IsRecord(u)
  <2> HIDE DEF zero, status, nothing
  <2>1. DOMAIN u = DOMAIN t /\ u = [f \in DOMAIN u |-> u[f]]
    <3>1. u = [t EXCEPT !.street_commitment = zero, !.hand_commitment = zero,
                        !.status = status, !.last_awards = nothing, !.current_bet = 0,
                        !.minimum_raise = BigBlind, !.pending_action = {},
                        !.raise_allowed = {}, !.acting_seat = NoSeat, !.street = "preflop",
                        !.hand_id = t.hand_id + 1, !.server_sequence = t.server_sequence + 1]
      BY DEF FreshHand, zero, status, nothing, TableState
    <3> HIDE DEF u
    <3> QED BY <3>1, Zenon
  <2> QED BY <2>1, TableStateIsRecord DEF IsRecord
<1>2. /\ u.occupant = t.occupant /\ u.stack = t.stack
      /\ u.street_commitment = zero /\ u.hand_commitment = zero
      /\ u.status = status /\ u.ready = t.ready
      /\ u.connected = t.connected /\ u.street = "preflop"
      /\ u.dealer_seat = t.dealer_seat /\ u.acting_seat = NoSeat
      /\ u.current_bet = 0 /\ u.minimum_raise = BigBlind
      /\ u.pending_action = {} /\ u.raise_allowed = {}
      /\ u.last_awards = nothing /\ u.hand_id = t.hand_id + 1
      /\ u.server_sequence = t.server_sequence + 1
  BY DEF FreshHand, TableState
<1>3. zero \in [Seats -> Nat] /\ status \in [Seats -> PlayerStatus]
      /\ nothing \in [Players -> Nat]
  BY DEF PlayerStatus
<1> HIDE DEF u, zero, status, nothing
<1>4. /\ u.street \in Streets /\ u.acting_seat \in SeatValue
      /\ u.current_bet \in Nat /\ u.minimum_raise \in Nat
      /\ u.hand_id \in Nat /\ u.server_sequence \in Nat
      /\ u.pending_action \in SUBSET Players /\ u.raise_allowed \in SUBSET Players
  BY <1>2, ConfigAssumption DEF TableState, Streets, SeatValue
<1>5. /\ u.occupant \in [Seats -> Players \cup {NoPlayer}] /\ u.stack \in [Seats -> Nat]
      /\ u.ready \in [Seats -> BOOLEAN] /\ u.connected \in [Seats -> BOOLEAN]
      /\ u.dealer_seat \in SeatValue
  BY <1>2, Zenon DEF TableState
<1>6. /\ u.street_commitment \in [Seats -> Nat] /\ u.hand_commitment \in [Seats -> Nat]
      /\ u.status \in [Seats -> PlayerStatus] /\ u.last_awards \in [Players -> Nat]
  BY <1>2, <1>3
<1>7. u \in TableState
  BY <1>1, <1>4, <1>5, <1>6, TableStateFields
<1> QED BY <1>2, <1>7 DEF u, zero, status

\* The dealer of a new hand takes part in it.
LEMMA DealerInHand ==
  ASSUME NEW t \in TableState, Distinct(t), SeatCount(ReadySeats(t)) > 0
  PROVE  LET u == ChooseDealer(FreshHand(t))
         IN  /\ InHand(u) /\ u.street = "preflop" /\ u.hand_id = t.hand_id + 1
             /\ \A s \in Seats : u.street_commitment[s] = 0
<1> DEFINE f == FreshHand(t)
           u == ChooseDealer(f)
           P == ParticipatingSeats(f)
           Q == {s \in Occupied(f) : f.status[s] \in {"active", "all_in", "folded"}}
<1>1. /\ f \in TableState /\ f.occupant = t.occupant
      /\ f.street = "preflop" /\ f.dealer_seat = t.dealer_seat
      /\ f.street_commitment = [s \in Seats |-> 0] /\ f.current_bet = 0
      /\ f.status = [s \in Seats |-> IF s \in ReadySeats(t) THEN "active" ELSE "waiting"]
      /\ f.hand_id = t.hand_id + 1
  BY FreshHandFields
<1> DEFINE lowest == CHOOSE s \in P : \A q \in P : s <= q
           d == IF f.dealer_seat = NoSeat THEN lowest
                ELSE NextParticipatingSeat(f, f.dealer_seat)
<1> HIDE DEF f
<1>2. u = [f EXCEPT !.dealer_seat = d]
  <2>1. CASE f.dealer_seat = NoSeat
    BY <2>1 DEF ChooseDealer
  <2>2. CASE f.dealer_seat # NoSeat
    BY <2>2 DEF ChooseDealer
  <2> QED BY <2>1, <2>2
<1> HIDE DEF u
<1>3. PICK r \in Seats : r \in ReadySeats(t)
  BY SeatCountPositive
<1>4. r \in P /\ r \in Q
  BY <1>1, <1>3 DEF ParticipatingSeats, ReadySeats, Occupied
<1>5. P \in SUBSET Seats /\ Q \in SUBSET Seats
  BY DEF ParticipatingSeats, Occupied
<1>6. \A s \in P \cup Q : f.occupant[s] # NoPlayer /\ f.status[s] # "waiting"
  BY DEF ParticipatingSeats, Occupied
<1>7. u.dealer_seat \in P \cup Q
  <2>1. CASE f.dealer_seat = NoSeat
    <3>1. \E s \in P : \A q \in P : s <= q
      <4> DEFINE number == [s \in Seats |-> s]
      <4>1. \A s \in Seats : number[s] \in Int
        BY DEF Seats
      <4> HIDE DEF P
      <4>2. \E s \in P : \A q \in P : number[s] <= number[q]
        <5> HIDE DEF number
        <5> QED BY <4>1, <1>4, <1>5, LeastSeat
      <4> QED BY <4>2, <1>5, Zenon
    <3>2. u.dealer_seat = lowest
      BY <1>1, <1>2, <2>1 DEF TableState
    <3> HIDE DEF P
    <3> QED BY <3>1, <3>2
  <2>2. CASE f.dealer_seat # NoSeat
    <3>1. f.dealer_seat \in Seats
      BY <1>1, <2>2 DEF TableState, SeatValue
    <3>2. FirstClockwise(f.dealer_seat, Q) \in Q
      BY <1>4, <1>5, <3>1, FirstClockwiseType
    <3>3. u.dealer_seat = NextParticipatingSeat(f, f.dealer_seat)
      BY <1>1, <1>2, <2>2 DEF TableState
    <3> QED BY <3>2, <3>3 DEF NextParticipatingSeat
  <2> QED BY <2>1, <2>2
<1>8. u.dealer_seat \in Seats
  BY <1>5, <1>7
<1>9. /\ u.occupant = f.occupant /\ u.street = f.street /\ u.status = f.status
      /\ u.street_commitment = f.street_commitment /\ u.current_bet = f.current_bet
      /\ u.hand_id = f.hand_id
  <2> HIDE DEF d
  <2> QED BY <1>1, <1>2 DEF TableState
<1>10. u \in TableState
  <2> HIDE DEF d
  <2>1. d \in SeatValue
    BY <1>1, <1>2, <1>8 DEF SeatValue, TableState
  <2> QED BY <1>1, <1>2, <2>1, Zenon DEF TableState
<1>11. \A s \in Seats : u.street_commitment[s] <= u.current_bet
  BY <1>1, <1>9
<1>12. u.occupant[u.dealer_seat] # NoPlayer /\ u.status[u.dealer_seat] # "waiting"
  BY <1>6, <1>7, <1>9
<1>13. InHand(u)
  BY <1>1, <1>8, <1>9, <1>10, <1>11, <1>12 DEF InHand, Distinct
<1> QED BY <1>1, <1>9, <1>13 DEF u, f

\* Some seat takes part, so the blinds fall on seats.
LEMMA NextParticipatingFound ==
  ASSUME NEW t, InHand(t), NEW from \in Seats
  PROVE  /\ NextParticipatingSeat(t, from) \in Seats
         /\ t.status[NextParticipatingSeat(t, from)] # "waiting"
<1> DEFINE Q == {s \in Occupied(t) : t.status[s] \in {"active", "all_in", "folded"}}
<1>1. Q \in SUBSET Seats
  BY DEF Occupied
<1>2. t.dealer_seat \in Q
  BY DEF InHand, Occupied, TableState, PlayerStatus
<1>3. NextParticipatingSeat(t, from) \in Q
  BY <1>1, <1>2, FirstClockwiseType DEF NextParticipatingSeat
<1> QED BY <1>1, <1>3

\* The blinds are the first commitments, and the larger is the bet to call.
LEMMA PostBlindsInHand ==
  ASSUME NEW t, InHand(t), t.street = "preflop", \A s \in Seats : t.street_commitment[s] = 0
  PROVE  /\ InHand(PostBlinds(t)) /\ PostBlinds(t).street = "preflop"
         /\ BetIsHeld(PostBlinds(t)) /\ AllAsked(PostBlinds(t))
         /\ PostBlinds(t).hand_id = t.hand_id
<1> DEFINE sb == SmallBlindSeat(t)
           bb == NextParticipatingSeat(t, sb)
           small == Lesser(SmallBlind, t.stack[sb])
           v == Pay(t, sb, small)
           big == Lesser(BigBlind, v.stack[bb])
           u == Pay(v, bb, big)
           who == PlayersAt(u, Actionable(u))
           w == [u EXCEPT !.current_bet = Greater(u.street_commitment[sb], u.street_commitment[bb])]
<1>1. t \in TableState /\ t.dealer_seat \in Seats
  BY DEF InHand
<1>2. sb \in Seats /\ t.status[sb] # "waiting"
  BY <1>1, NextParticipatingFound DEF SmallBlindSeat, InHand
<1>3. bb \in Seats /\ t.status[bb] # "waiting"
  <2> HIDE DEF sb
  <2> QED BY <1>2, NextParticipatingFound
<1>4. PostBlinds(t) = [u EXCEPT !.current_bet = Greater(u.street_commitment[sb],
                                                        u.street_commitment[bb]),
                                !.pending_action = who, !.raise_allowed = who]
  BY DEF PostBlinds, PostBlind
<1> HIDE DEF sb, bb
<1>5. small \in Nat /\ small <= t.stack[sb]
  BY <1>1, <1>2, ConfigAssumption DEF Lesser, TableState
<1> HIDE DEF small, v
<1>6. /\ v \in TableState /\ v.occupant = t.occupant /\ v.street = t.street
      /\ v.dealer_seat = t.dealer_seat /\ v.hand_id = t.hand_id
      /\ v.street_commitment = [t.street_commitment EXCEPT ![sb] = @ + small]
      /\ \A q \in Seats : t.status[q] # "waiting" => v.status[q] # "waiting"
  BY <1>1, <1>2, <1>5, PayFields DEF v
<1>7. big \in Nat /\ big <= v.stack[bb]
  BY <1>3, <1>6, ConfigAssumption DEF Lesser, TableState
<1> HIDE DEF big, u
<1>8. /\ u \in TableState /\ u.occupant = v.occupant /\ u.street = v.street
      /\ u.dealer_seat = v.dealer_seat /\ u.hand_id = v.hand_id
      /\ u.street_commitment = [v.street_commitment EXCEPT ![bb] = @ + big]
      /\ \A q \in Seats : v.status[q] # "waiting" => u.status[q] # "waiting"
  BY <1>3, <1>6, <1>7, PayFields DEF u
<1>9. \A q \in Seats : u.street_commitment[q] \in Nat
                       /\ (q # sb /\ q # bb => u.street_commitment[q] = 0)
  BY <1>1, <1>2, <1>3, <1>6, <1>8 DEF TableState
<1> DEFINE bet == Greater(u.street_commitment[sb], u.street_commitment[bb])
<1>10. /\ bet \in Nat /\ \A q \in Seats : u.street_commitment[q] <= bet
       /\ bet = u.street_commitment[sb] \/ bet = u.street_commitment[bb]
  BY <1>2, <1>3, <1>9 DEF Greater
<1> HIDE DEF bet
<1>11. w = [u EXCEPT !.current_bet = bet]
  BY DEF bet
<1> HIDE DEF w
<1>12. w \in TableState
  BY <1>8, <1>10, <1>11, SMTT(20) DEF TableState
<1>13. /\ w.occupant = u.occupant /\ w.street = u.street /\ w.dealer_seat = u.dealer_seat
       /\ w.status = u.status /\ w.street_commitment = u.street_commitment
       /\ w.current_bet = bet /\ w.stack = u.stack /\ w.hand_id = u.hand_id
  BY <1>8, <1>11 DEF TableState
<1>14. InHand(w) /\ w.street = "preflop"
  BY <1>6, <1>8, <1>10, <1>12, <1>13 DEF InHand, Distinct
<1>15. who \in SUBSET Players
  <2>1. Actionable(u) \in SUBSET Occupied(u)
    BY Zenon DEF Actionable, CanAct
  <2> QED BY <1>8, <2>1, PlayersAtType, Zenon
<1> HIDE DEF who
<1>16. PostBlinds(t) = WithActionSets(w, who, who)
  BY <1>4, <1>8, <1>11 DEF WithActionSets, TableState, bet
<1> PICK x : x = WithActionSets(w, who, who)
  OBVIOUS
<1>17. InHand(x) /\ x.street = "preflop"
  BY <1>14, <1>15, ActionSetsInHand
<1>18. /\ x.occupant = w.occupant /\ x.status = w.status /\ x.stack = w.stack
       /\ x.street_commitment = w.street_commitment /\ x.current_bet = w.current_bet
       /\ x.hand_id = w.hand_id /\ x.pending_action = who
  BY <1>12 DEF WithActionSets, TableState
<1>19. BetIsHeld(x)
  <2>1. x.status[sb] # "waiting" /\ x.status[bb] # "waiting"
    BY <1>2, <1>3, <1>6, <1>8, <1>13, <1>18
  <2> QED BY <1>2, <1>3, <1>10, <1>13, <1>18, <2>1 DEF BetIsHeld
<1>20. AllAsked(x)
  <2>1. Actionable(x) = Actionable(u) /\ x.occupant = u.occupant
    BY <1>13, <1>18 DEF Actionable, CanAct, Occupied
  <2> QED BY <1>18, <2>1, Zenon DEF AllAsked, PlayersAt, who
<1>21. x.hand_id = t.hand_id
  BY <1>6, <1>8, <1>13, <1>18, Zenon
<1> QED BY <1>16, <1>17, <1>19, <1>20, <1>21

\* Whether it waits for an actor or runs out the board, a new hand is advanced.
LEMMA DealHandAdvanced ==
  ASSUME NEW t \in TableState, Distinct(t), SeatCount(ReadySeats(t)) > 0
  PROVE  Advanced(DealHand(t))
<1> DEFINE dealt == ChooseDealer(FreshHand(t))
           bb == NextParticipatingSeat(dealt, SmallBlindSeat(dealt))
           n == SeatCount(ParticipatingSeats(dealt))
           b == PostBlinds(dealt)
           a == IF n # 2 THEN NextCanActSeat(b, bb)
                ELSE IF CanAct(b, b.dealer_seat) /\ b.occupant[b.dealer_seat] \in b.pending_action
                     THEN b.dealer_seat
                ELSE NextCanActSeat(b, b.dealer_seat)
           u == [b EXCEPT !.acting_seat = a]
<1>1. /\ InHand(dealt) /\ dealt.street = "preflop"
      /\ \A s \in Seats : dealt.street_commitment[s] = 0
  BY DealerInHand
<1>2. DealHand(t) = IF SeatCount(Actionable(u)) <= 1
                    THEN AdvanceUntilActionOrSettlement(
                           [u EXCEPT !.pending_action = {}, !.acting_seat = NoSeat])
                    ELSE u
  BY DEF DealHand, SetInitialActor
<1> HIDE DEF dealt
<1>3. InHand(b) /\ b.street = "preflop"
  BY <1>1, PostBlindsInHand
<1>4. bb \in Seats
  <2>1. SmallBlindSeat(dealt) \in Seats
    BY <1>1, NextParticipatingFound DEF SmallBlindSeat, InHand
  <2> QED BY <1>1, <2>1, NextParticipatingFound
<1> HIDE DEF b, bb, n
<1>5. b \in TableState /\ b.dealer_seat \in Seats
  BY <1>3 DEF InHand
<1>6. a \in SeatValue /\ (a # NoSeat => CanAct(b, a) /\ b.occupant[a] \in b.pending_action)
  BY <1>4, <1>5, NextCanActSeatFound, Zenon DEF SeatValue
<1> HIDE DEF a
<1>7. u \in TableState /\ u.street = "preflop"
  BY <1>3, <1>5, <1>6, Zenon DEF TableState
<1>8. AtRest(u) /\ AwardsHeld(u)
  BY <1>3, <1>6, NewActorRests
<1> HIDE DEF u
<1>9. Advanced(u) /\ InHand(u)
  BY <1>7, <1>8 DEF Advanced, AtRest, HandIsRunning
<1>10. Advanced([u EXCEPT !.pending_action = {}, !.acting_seat = NoSeat])
  <2> DEFINE v == WithActionSets(u, {}, u.raise_allowed)
  <2>1. InHand(v) /\ v.street = "preflop"
    <3>1. u.raise_allowed \in SUBSET Players
      BY <1>7 DEF TableState
    <3> QED BY <1>7, <1>9, <3>1, ActionSetsInHand
  <2>2. [u EXCEPT !.pending_action = {}, !.acting_seat = NoSeat] = [v EXCEPT !.acting_seat = NoSeat]
    BY <1>7, Zenon DEF WithActionSets, TableState
  <2> HIDE DEF v
  <2>3. [v EXCEPT !.acting_seat = NoSeat].street = "preflop"
    BY <2>1 DEF InHand, TableState
  <2>4. /\ AtRest([v EXCEPT !.acting_seat = NoSeat])
        /\ AwardsHeld([v EXCEPT !.acting_seat = NoSeat])
    BY <2>1, NewActorRests DEF SeatValue
  <2> QED BY <2>2, <2>3, <2>4, Zenon DEF Advanced
<1> QED BY <1>2, <1>9, <1>10, LoopAdvanced

\* startHand does.
LEMMA StartHandInductive ==
  ASSUME IInv, StartHand
  PROVE  IInv'
<1>1. table \in TableState /\ Distinct(table)
  BY DEF IInv, AtRest
<1>2. SeatCount(ReadySeats(table)) > 0
  BY SeatCountType, ConfigAssumption DEF StartHand
<1>3. AtRest(table') /\ AwardsHeld(table')
  BY <1>1, <1>2, DealHandAdvanced, SettlementsRest DEF StartHand
<1>4. sameRoster' \in BOOLEAN
  BY DEF StartHand
<1> QED BY <1>3, <1>4, Zenon DEF IInv, AtRest, AwardsHeld, InHand, Distinct,
           HandIsRunning, MayAct, CanAct, Occupied

-----------------------------------------------------------------------------
(* So do seating, readiness and rolling a hand back.                       *)

\* What sitting down, getting ready and (dis)connecting change.
WithRoster(t, occupant, stack, ready, connected) ==
  [t EXCEPT !.occupant = occupant, !.stack = stack, !.ready = ready, !.connected = connected,
            !.server_sequence = t.server_sequence + 1]

\* Those changes keep the types and leave the hand alone.
LEMMA WithRosterFields ==
  ASSUME NEW t \in TableState, NEW occupant \in [Seats -> Players \cup {NoPlayer}],
         NEW stack \in [Seats -> Nat], NEW ready \in [Seats -> BOOLEAN],
         NEW connected \in [Seats -> BOOLEAN]
  PROVE  LET u == WithRoster(t, occupant, stack, ready, connected)
         IN  /\ u \in TableState
             /\ u.occupant = occupant /\ u.stack = stack
             /\ u.street_commitment = t.street_commitment /\ u.status = t.status
             /\ u.street = t.street /\ u.dealer_seat = t.dealer_seat
             /\ u.acting_seat = t.acting_seat /\ u.current_bet = t.current_bet
             /\ u.pending_action = t.pending_action /\ u.last_awards = t.last_awards
<1> DEFINE u == WithRoster(t, occupant, stack, ready, connected)
<1>1. IsRecord(u)
  <2>1. DOMAIN u = DOMAIN t /\ u = [f \in DOMAIN u |-> u[f]]
    BY ZenonT(30) DEF WithRoster, TableState
  <2> QED BY <2>1, TableStateIsRecord DEF IsRecord
<1>2. /\ u.occupant = occupant /\ u.stack = stack
      /\ u.street_commitment = t.street_commitment /\ u.hand_commitment = t.hand_commitment
      /\ u.status = t.status /\ u.ready = ready
      /\ u.connected = connected /\ u.street = t.street
      /\ u.dealer_seat = t.dealer_seat /\ u.acting_seat = t.acting_seat
      /\ u.current_bet = t.current_bet /\ u.minimum_raise = t.minimum_raise
      /\ u.pending_action = t.pending_action /\ u.raise_allowed = t.raise_allowed
      /\ u.last_awards = t.last_awards /\ u.hand_id = t.hand_id
      /\ u.server_sequence = t.server_sequence + 1
  BY DEF WithRoster, TableState
<1> HIDE DEF u
<1>3. /\ u.street_commitment \in [Seats -> Nat] /\ u.hand_commitment \in [Seats -> Nat]
      /\ u.status \in [Seats -> PlayerStatus] /\ u.street \in Streets
      /\ u.dealer_seat \in SeatValue /\ u.acting_seat \in SeatValue
      /\ u.current_bet \in Nat /\ u.minimum_raise \in Nat
      /\ u.pending_action \in SUBSET Players /\ u.raise_allowed \in SUBSET Players
      /\ u.last_awards \in [Players -> Nat] /\ u.hand_id \in Nat /\ u.server_sequence \in Nat
  BY <1>2 DEF TableState
<1>4. u \in TableState
  BY <1>1, <1>2, <1>3, TableStateFields, Zenon
<1> QED BY <1>2, <1>4, Zenon DEF u

\* seatPlayer preserves the invariant.
LEMMA SeatPlayerInductive ==
  ASSUME IInv, NEW p \in Players, NEW s \in Seats, NEW buy_in \in MinBuyIn .. MaxBuyIn,
         SeatPlayer(p, s, buy_in)
  PROVE  IInv'
<1>1. table \in TableState /\ Distinct(table) /\ ~ HandIsRunning(table)
      /\ table.acting_seat = NoSeat
  BY DEF IInv, AtRest, SeatPlayer, MayAct
<1>2. buy_in \in Nat
  BY ConfigAssumption
<1> DEFINE occupant == [table.occupant EXCEPT ![s] = p]
           stack == [table.stack EXCEPT ![s] = buy_in]
           connected == [table.connected EXCEPT ![s] = TRUE]
<1>3. table' = WithRoster(table, occupant, stack, table.ready, connected)
  BY <1>1, Zenon DEF SeatPlayer, WithRoster, TableState
<1>4. /\ table' \in TableState /\ table'.street = table.street /\ table'.acting_seat = NoSeat
      /\ table'.occupant = occupant
  <2>1. /\ occupant \in [Seats -> Players \cup {NoPlayer}] /\ stack \in [Seats -> Nat]
        /\ table.ready \in [Seats -> BOOLEAN]
    BY <1>1, <1>2 DEF TableState
  <2>2. connected \in [Seats -> BOOLEAN]
    BY <1>1 DEF TableState
  <2> HIDE DEF occupant, stack, connected
  <2> PICK v : v = WithRoster(table, occupant, stack, table.ready, connected)
    OBVIOUS
  <2>3. table \in TableState
    BY <1>1
  <2>4. /\ v \in TableState /\ v.street = table.street /\ v.acting_seat = table.acting_seat
        /\ v.occupant = occupant
    BY <2>1, <2>2, <2>3, WithRosterFields
  <2> QED BY <1>1, <1>3, <2>4
<1>5. Distinct(table')
  <2>1. \A q \in Seats : table.occupant[q] # p
    BY DEF SeatPlayer, PlayersAt
  <2>2. \A q \in Seats : table'.occupant[q] = IF q = s THEN p ELSE table.occupant[q]
    BY <1>1, <1>4 DEF TableState
  <2> QED BY <1>1, <2>1, <2>2, Zenon DEF Distinct
<1>6. ~ HandIsRunning(table') /\ table'.street # "showdown"
  BY <1>1, <1>4, Zenon DEF HandIsRunning
<1>7. AtRest(table')
  BY <1>4, <1>5, <1>6, Zenon DEF AtRest
<1>8. sameRoster' = FALSE
  BY DEF SeatPlayer
<1> QED BY <1>7, <1>8, Zenon DEF IInv, AtRest, InHand, Distinct, HandIsRunning, MayAct, CanAct, Occupied

\* An empty seat has its initial values; the others keep theirs.
LEMMA RemovePlayerFields ==
  ASSUME table \in TableState, NEW s \in Seats, RemovePlayer(s)
  PROVE  /\ table' \in TableState
         /\ table'.occupant = [table.occupant EXCEPT ![s] = NoPlayer]
         /\ table'.stack = [table.stack EXCEPT ![s] = 0]
         /\ table'.street_commitment = [table.street_commitment EXCEPT ![s] = 0]
         /\ table'.status = [table.status EXCEPT ![s] = "waiting"]
         /\ table'.street = table.street
         /\ table'.dealer_seat = IF table.dealer_seat = s THEN NoSeat ELSE table.dealer_seat
         /\ table'.acting_seat = table.acting_seat
         /\ table'.current_bet = table.current_bet
         /\ table'.pending_action = table.pending_action
<1> DEFINE t == table
           u == table'
           occupant == [t.occupant EXCEPT ![s] = NoPlayer]
           stack == [t.stack EXCEPT ![s] = 0]
           street_commitment == [t.street_commitment EXCEPT ![s] = 0]
           hand_commitment == [t.hand_commitment EXCEPT ![s] = 0]
           status == [t.status EXCEPT ![s] = "waiting"]
           ready == [t.ready EXCEPT ![s] = FALSE]
           connected == [t.connected EXCEPT ![s] = FALSE]
           dealer == IF t.dealer_seat = s THEN NoSeat ELSE t.dealer_seat
<1>1. u = [t EXCEPT !.occupant = occupant, !.stack = stack,
                    !.street_commitment = street_commitment,
                    !.hand_commitment = hand_commitment, !.status = status,
                    !.ready = ready, !.connected = connected, !.dealer_seat = dealer,
                    !.server_sequence = t.server_sequence + 1]
  BY DEF RemovePlayer, TableState
<1>2. /\ occupant \in [Seats -> Players \cup {NoPlayer}] /\ stack \in [Seats -> Nat]
      /\ street_commitment \in [Seats -> Nat] /\ hand_commitment \in [Seats -> Nat]
  BY DEF TableState
<1>3. status \in [Seats -> PlayerStatus]
  BY DEF TableState, PlayerStatus
<1>4. ready \in [Seats -> BOOLEAN] /\ connected \in [Seats -> BOOLEAN]
  BY DEF TableState
<1>5. dealer \in SeatValue
  BY DEF TableState, SeatValue
<1> HIDE DEF u, occupant, stack, street_commitment, hand_commitment, status, ready, connected, dealer
<1>6. IsRecord(u)
  <2>1. DOMAIN u = DOMAIN t /\ u = [f \in DOMAIN u |-> u[f]]
    BY <1>1, Zenon DEF TableState
  <2> QED BY <2>1, TableStateIsRecord DEF IsRecord
<1>7. /\ u.occupant = occupant /\ u.stack = stack
      /\ u.street_commitment = street_commitment /\ u.hand_commitment = hand_commitment
      /\ u.status = status /\ u.ready = ready
      /\ u.connected = connected /\ u.street = t.street
      /\ u.dealer_seat = dealer /\ u.acting_seat = t.acting_seat
      /\ u.current_bet = t.current_bet /\ u.minimum_raise = t.minimum_raise
      /\ u.pending_action = t.pending_action /\ u.raise_allowed = t.raise_allowed
      /\ u.last_awards = t.last_awards /\ u.hand_id = t.hand_id
      /\ u.server_sequence = t.server_sequence + 1
  BY <1>1 DEF TableState
<1>8. u.server_sequence \in Nat /\ u.street \in Streets /\ u.acting_seat \in SeatValue
      /\ u.current_bet \in Nat /\ u.minimum_raise \in Nat
      /\ u.pending_action \in SUBSET Players /\ u.raise_allowed \in SUBSET Players
      /\ u.last_awards \in [Players -> Nat] /\ u.hand_id \in Nat
  BY <1>7 DEF TableState
<1>9. u \in TableState
  BY <1>2, <1>3, <1>4, <1>5, <1>6, <1>7, <1>8, TableStateFields, Zenon
<1> QED BY <1>7, <1>9, Zenon DEF u, occupant, stack, street_commitment, status,
           dealer

\* removePlayer preserves it: during a hand it only takes players who are not in it.
LEMMA RemovePlayerInductive ==
  ASSUME IInv, NEW s \in Seats, RemovePlayer(s)
  PROVE  IInv'
<1> DEFINE u == table'
<1>1. table \in TableState /\ AtRest(table)
  BY DEF IInv, AtRest
<1>2. /\ u \in TableState
      /\ u.street = table.street /\ u.acting_seat = table.acting_seat
      /\ u.current_bet = table.current_bet /\ u.pending_action = table.pending_action
      /\ u.dealer_seat = IF table.dealer_seat = s THEN NoSeat ELSE table.dealer_seat
  BY <1>1, RemovePlayerFields, Zenon
<1>3. \A q \in Seats :
        /\ u.occupant[q] = IF q = s THEN NoPlayer ELSE table.occupant[q]
        /\ u.stack[q] = IF q = s THEN 0 ELSE table.stack[q]
        /\ u.street_commitment[q] = IF q = s THEN 0 ELSE table.street_commitment[q]
        /\ u.status[q] = IF q = s THEN "waiting" ELSE table.status[q]
  <2>1. /\ u.occupant = [table.occupant EXCEPT ![s] = NoPlayer]
        /\ u.stack = [table.stack EXCEPT ![s] = 0]
        /\ u.street_commitment = [table.street_commitment EXCEPT ![s] = 0]
        /\ u.status = [table.status EXCEPT ![s] = "waiting"]
    BY <1>1, RemovePlayerFields, Zenon
  <2> HIDE DEF u
  <2> QED BY <1>1, <2>1 DEF TableState
<1>4. HandIsRunning(table) => table.status[s] = "waiting"
  BY DEF RemovePlayer
<1>5. sameRoster' = FALSE
  BY DEF RemovePlayer
<1> HIDE DEF u
<1>6. Distinct(u)
  BY <1>1, <1>3 DEF AtRest, Distinct
<1>7. ASSUME HandIsRunning(u) PROVE InHand(u)
  <2>1. InHand(table) /\ table.status[s] = "waiting"
    BY <1>1, <1>2, <1>4, <1>7, Zenon DEF AtRest, HandIsRunning
  <2>2. u.dealer_seat = table.dealer_seat /\ u.dealer_seat # s /\ u.dealer_seat \in Seats
    BY <1>2, <2>1 DEF InHand
  <2>3. u.occupant[u.dealer_seat] # NoPlayer /\ u.status[u.dealer_seat] # "waiting"
    BY <1>3, <2>1, <2>2 DEF InHand
  <2>4. \A q \in Seats : u.street_commitment[q] <= u.current_bet
    BY <1>2, <1>3, <2>1, SMTT(20) DEF InHand, TableState
  <2> QED BY <1>2, <1>6, <2>1, <2>2, <2>3, <2>4, Zenon DEF InHand
<1>8. ASSUME u.acting_seat # NoSeat PROVE MayAct(u, u.acting_seat)
  <2>1. MayAct(table, table.acting_seat)
    BY <1>1, <1>2, <1>8 DEF AtRest
  <2>2. table.acting_seat \in Seats /\ table.acting_seat # s
    BY <1>1, <1>2, <1>4, <1>8, <2>1, SMTT(20) DEF MayAct, CanAct, TableState, SeatValue
  <2> QED BY <1>2, <1>3, <2>1, <2>2, Zenon DEF MayAct, CanAct, Occupied,
             HandIsRunning
<1>9. AtRest(u)
  BY <1>1, <1>2, <1>6, <1>7, <1>8, Zenon DEF AtRest
<1> QED BY <1>5, <1>9, Zenon DEF u, IInv, AtRest, InHand, Distinct, HandIsRunning, MayAct, CanAct,
             Occupied

\* Changing a flag of a player and the sequence number.
LEMMA FlagsInductive ==
  ASSUME IInv, table' \in TableState, UNCHANGED sameRoster,
         table'.occupant = table.occupant, table'.stack = table.stack,
         table'.street_commitment = table.street_commitment, table'.status = table.status,
         table'.street = table.street, table'.dealer_seat = table.dealer_seat,
         table'.acting_seat = table.acting_seat, table'.current_bet = table.current_bet,
         table'.pending_action = table.pending_action, table'.last_awards = table.last_awards
  PROVE  IInv'
<1> DEFINE u == table'
<1> HIDE DEF u
<1>1. InHand(table) => InHand(u)
  BY DEF InHand, Distinct, u
<1>2. MayAct(table, table.acting_seat) => MayAct(u, u.acting_seat)
  BY DEF MayAct, CanAct, Occupied, HandIsRunning, u
<1>3. AtRest(u)
  BY <1>1, <1>2 DEF IInv, AtRest, HandIsRunning, Distinct, u
<1>4. AwardsHeld(table) => AwardsHeld(u)
  BY DEF AwardsHeld, u
<1>5. sameRoster' \in BOOLEAN /\ (sameRoster' => AwardsHeld(u))
  BY <1>4 DEF IInv
<1> QED BY <1>3, <1>5, Zenon DEF u, IInv, AtRest, AwardsHeld, InHand, Distinct,
           HandIsRunning, MayAct, CanAct, Occupied

\* So do removePlayer, setReady and setConnected together.
LEMMA RosterInductive ==
  ASSUME IInv, Roster
  PROVE  IInv'
<1>1. PICK s \in Seats :
         \/ RemovePlayer(s)
         \/ \E ready \in BOOLEAN : SetReady(s, ready)
         \/ \E connected \in BOOLEAN : SetConnected(s, connected)
  BY DEF Roster
<1>2. table \in TableState
  BY DEF IInv, AtRest
<1>3. CASE \E ready \in BOOLEAN : SetReady(s, ready)
  <2>1. PICK ready \in BOOLEAN : SetReady(s, ready)
    BY <1>3
  <2> DEFINE flags == [table.ready EXCEPT ![s] = ready]
  <2>2. flags \in [Seats -> BOOLEAN]
    BY <1>2 DEF TableState
  <2>3. table' = WithRoster(table, table.occupant, table.stack, flags, table.connected)
    BY <1>2, <2>1, Zenon DEF SetReady, WithRoster, TableState
  <2> HIDE DEF flags
  <2>4. /\ table.occupant \in [Seats -> Players \cup {NoPlayer}] /\ table.stack \in [Seats -> Nat]
        /\ table.ready \in [Seats -> BOOLEAN] /\ table.connected \in [Seats -> BOOLEAN]
    BY <1>2 DEF TableState
  <2>5. table' \in TableState
    BY <1>2, <2>2, <2>3, <2>4, WithRosterFields, Zenon
  <2>6. /\ table'.occupant = table.occupant /\ table'.stack = table.stack
        /\ table'.street_commitment = table.street_commitment /\ table'.status = table.status
        /\ table'.street = table.street /\ table'.dealer_seat = table.dealer_seat
        /\ table'.acting_seat = table.acting_seat /\ table'.current_bet = table.current_bet
        /\ table'.pending_action = table.pending_action /\ table'.last_awards = table.last_awards
    BY <1>2, <2>3 DEF WithRoster, TableState
  <2> QED BY <2>1, <2>5, <2>6, FlagsInductive DEF SetReady
<1>4. CASE \E connected \in BOOLEAN : SetConnected(s, connected)
  <2>1. PICK connected \in BOOLEAN : SetConnected(s, connected)
    BY <1>4
  <2> DEFINE flags == [table.connected EXCEPT ![s] = connected]
  <2>2. flags \in [Seats -> BOOLEAN]
    BY <1>2 DEF TableState
  <2>3. table' = WithRoster(table, table.occupant, table.stack, table.ready, flags)
    BY <1>2, <2>1, Zenon DEF SetConnected, WithRoster, TableState
  <2> HIDE DEF flags
  <2>4. /\ table.occupant \in [Seats -> Players \cup {NoPlayer}] /\ table.stack \in [Seats -> Nat]
        /\ table.ready \in [Seats -> BOOLEAN] /\ table.connected \in [Seats -> BOOLEAN]
    BY <1>2 DEF TableState
  <2>5. table' \in TableState
    BY <1>2, <2>2, <2>3, <2>4, WithRosterFields, Zenon
  <2>6. /\ table'.occupant = table.occupant /\ table'.stack = table.stack
        /\ table'.street_commitment = table.street_commitment /\ table'.status = table.status
        /\ table'.street = table.street /\ table'.dealer_seat = table.dealer_seat
        /\ table'.acting_seat = table.acting_seat /\ table'.current_bet = table.current_bet
        /\ table'.pending_action = table.pending_action /\ table'.last_awards = table.last_awards
    BY <1>2, <2>3 DEF WithRoster, TableState
  <2> QED BY <2>1, <2>5, <2>6, FlagsInductive DEF SetConnected
<1> QED BY <1>1, <1>3, <1>4, RemovePlayerInductive

\* abortHand takes back no more than a winner holds.
LEMMA AbortedStack ==
  ASSUME NEW t \in TableState, AwardsHeld(t), NEW s \in Seats
  PROVE  t.stack[s] - Reclaimed(t, s) + t.hand_commitment[s] \in Nat
<1>1. t.stack[s] \in Nat /\ t.hand_commitment[s] \in Nat
  BY DEF TableState
<1>2. Reclaimed(t, s) \in Nat /\ Reclaimed(t, s) <= t.stack[s]
  BY <1>1 DEF Reclaimed, AwardsHeld, TableState
<1> QED BY <1>1, <1>2

\* abortHand leaves a table at rest.
LEMMA AbortedTableRests ==
  ASSUME NEW t \in TableState, Distinct(t), AwardsHeld(t)
  PROVE  AtRest(AbortedTable(t)) /\ AwardsHeld(AbortedTable(t))
<1> DEFINE u == AbortedTable(t)
           stack == [s \in Seats |-> t.stack[s] - Reclaimed(t, s) + t.hand_commitment[s]]
           zero == [s \in Seats |-> 0]
           status == [s \in Seats |-> "waiting"]
           ready == [s \in Seats |-> FALSE]
           nothing == [p \in Players |-> 0]
<1>1. u = [t EXCEPT !.stack = stack, !.street_commitment = zero, !.hand_commitment = zero,
                    !.status = status, !.ready = ready, !.street = "waiting",
                    !.acting_seat = NoSeat, !.current_bet = 0, !.minimum_raise = BigBlind,
                    !.pending_action = {}, !.raise_allowed = {}, !.last_awards = nothing,
                    !.server_sequence = t.server_sequence + 1]
  BY DEF AbortedTable, TableState
<1>2. stack \in [Seats -> Nat]
  BY AbortedStack
<1>3. /\ zero \in [Seats -> Nat] /\ status \in [Seats -> PlayerStatus]
      /\ nothing \in [Players -> Nat]
  BY DEF PlayerStatus
<1>4. ready \in [Seats -> BOOLEAN]
  OBVIOUS
<1> HIDE DEF u, stack, zero, status, ready, nothing
<1>5. IsRecord(u)
  <2>1. DOMAIN u = DOMAIN t /\ u = [f \in DOMAIN u |-> u[f]]
    BY <1>1, Zenon
  <2> QED BY <2>1, TableStateIsRecord DEF IsRecord
<1>6. /\ u.occupant = t.occupant /\ u.stack = stack
      /\ u.street_commitment = zero /\ u.hand_commitment = zero
      /\ u.status = status /\ u.ready = ready
      /\ u.connected = t.connected /\ u.street = "waiting"
      /\ u.dealer_seat = t.dealer_seat /\ u.acting_seat = NoSeat
      /\ u.current_bet = 0 /\ u.minimum_raise = BigBlind
      /\ u.pending_action = {} /\ u.raise_allowed = {}
      /\ u.last_awards = nothing /\ u.hand_id = t.hand_id
      /\ u.server_sequence = t.server_sequence + 1
  BY <1>1 DEF TableState
<1>7. /\ u.street \in Streets /\ u.acting_seat \in SeatValue
      /\ u.current_bet \in Nat /\ u.minimum_raise \in Nat
      /\ u.hand_id \in Nat /\ u.server_sequence \in Nat
      /\ u.pending_action \in SUBSET Players /\ u.raise_allowed \in SUBSET Players
  BY <1>6, ConfigAssumption DEF TableState, Streets, SeatValue
<1>8. /\ u.occupant \in [Seats -> Players \cup {NoPlayer}]
      /\ u.connected \in [Seats -> BOOLEAN] /\ u.dealer_seat \in SeatValue
  BY <1>6, Zenon DEF TableState
<1>9. u \in TableState
  BY <1>2, <1>3, <1>4, <1>5, <1>6, <1>7, <1>8, TableStateFields, Zenon
<1>10. AtRest(u) /\ AwardsHeld(u)
  BY <1>6, <1>9 DEF AtRest, AwardsHeld, HandIsRunning, Distinct
<1> QED BY <1>10 DEF u

\* Rolling a hand back preserves the invariant.
LEMMA RollBackInductive ==
  ASSUME IInv, RollBackHand
  PROVE  IInv'
<1>1. table \in TableState /\ Distinct(table) /\ AwardsHeld(table)
  BY DEF IInv, AtRest, RollBackHand
<1>2. AtRest(table') /\ AwardsHeld(table')
  BY <1>1, AbortedTableRests DEF RollBackHand, AbortHand
<1>3. sameRoster' \in BOOLEAN
  BY DEF RollBackHand, AbortHand, IInv
<1> QED BY <1>2, <1>3, Zenon DEF IInv, AtRest, AwardsHeld, InHand, Distinct,
           HandIsRunning, MayAct, CanAct, Occupied

-----------------------------------------------------------------------------
(* The theorems.                                                           *)

\* A new Table satisfies the invariant.
LEMMA InitIInv ==
  ASSUME Init
  PROVE  IInv
<1>1. EmptyTable \in TableState
  <2>1. /\ [s \in Seats |-> NoPlayer] \in [Seats -> Players \cup {NoPlayer}]
        /\ [s \in Seats |-> 0] \in [Seats -> Nat]
        /\ [p \in Players |-> 0] \in [Players -> Nat]
        /\ [s \in Seats |-> "waiting"] \in [Seats -> PlayerStatus]
    BY DEF PlayerStatus
  <2>2. [s \in Seats |-> FALSE] \in [Seats -> BOOLEAN]
    OBVIOUS
  <2>3. IsRecord(EmptyTable)
    BY Zenon DEF IsRecord, FieldNames, EmptyTable
  <2>4. BigBlind \in Nat /\ NoSeat \in SeatValue /\ "waiting" \in Streets
    BY ConfigAssumption DEF SeatValue, Streets
  <2> QED BY <2>1, <2>2, <2>3, <2>4, TableStateFields, Zenon DEF EmptyTable
<1>2. /\ EmptyTable.street = "waiting" /\ EmptyTable.acting_seat = NoSeat
      /\ \A s \in Seats : EmptyTable.occupant[s] = NoPlayer
  BY Zenon DEF EmptyTable
<1> QED BY <1>1, <1>2, Zenon DEF Init, IInv, AtRest, AwardsHeld, Distinct, HandIsRunning

\* Every operation preserves it.
LEMMA NextIInv ==
  ASSUME IInv, [Next]_vars
  PROVE  IInv'
<1>1. CASE Sit
  BY <1>1, SeatPlayerInductive DEF Sit
<1>2. CASE UNCHANGED vars
  BY <1>2, Zenon DEF vars, IInv, AtRest, AwardsHeld, InHand, Distinct,
     HandIsRunning, MayAct, CanAct, Occupied
<1> QED BY <1>1, <1>2, RosterInductive, StartHandInductive, ActInductive, RollBackInductive DEF Next

\* IInv is an invariant of the table.
THEOREM Inductive == Spec => []IInv
BY InitIInv, NextIInv, PTL DEF Spec

\* For every configuration the code accepts, any number of players and any
\* buy-ins, no operation of the table drives a stack or a commitment below zero
\* or takes a member out of its type.
THEOREM TypeCorrect == Spec => []TypeOK
<1>1. IInv => TypeOK
  BY DEF IInv, AtRest, TypeOK
<1> QED BY <1>1, Inductive, PTL

\* For every such table, the player whose turn it is can act: act() never waits
\* for a seat that is empty, folded, all-in or has nothing to decide.
THEOREM ActorAlwaysCanAct == Spec => []ActorCanAct
<1>1. IInv => ActorCanAct
  BY DEF IInv, AtRest, ActorCanAct
<1> QED BY <1>1, Inductive, PTL

-----------------------------------------------------------------------------
(* The turn: what the loop of advanceUntilActionOrSettlement leaves.       *)

\* Whoever can act and is not asked has matched the bet.
OthersMatched(t) ==
  \A s \in Actionable(t) :
     t.occupant[s] \in t.pending_action \/ t.street_commitment[s] = t.current_bet

\* What a command of act() leaves to conclude.
Betting(t) == InHand(t) /\ t.street # "showdown" /\ BetIsHeld(t) /\ OthersMatched(t)

\* A hand that waits for its actor.
Waits(t) == Betting(t) /\ t.acting_seat # NoSeat /\ MayAct(t, t.acting_seat)

\* A hand that the blinds have left without one.
Stuck(t) == InHand(t) /\ BetIsHeld(t) /\ t.acting_seat = NoSeat /\ Stranded(t)

\* A hand in which nobody has anything to decide on this street.
RunsOut(t) ==
  /\ Betting(t) /\ t.acting_seat = NoSeat
  /\ \A s \in Actionable(t) : /\ t.occupant[s] \notin t.pending_action
                              /\ t.street_commitment[s] = t.current_bet

Outcome(t) == t.street \in {"showdown", "settled"} \/ Waits(t) \/ Stuck(t)

\* The same seats, bets and street.
SameBets(t, u) ==
  /\ u.occupant = t.occupant /\ u.stack = t.stack /\ u.status = t.status
  /\ u.street_commitment = t.street_commitment /\ u.current_bet = t.current_bet
  /\ u.street = t.street /\ u.dealer_seat = t.dealer_seat

\* Then the same players can act and contend.
LEMMA SameBetsSame ==
  ASSUME NEW t, NEW u, u \in TableState, SameBets(t, u)
  PROVE  /\ Actionable(u) = Actionable(t) /\ Contenders(u) = Contenders(t)
         /\ InHand(t) => InHand(u)
         /\ BetIsHeld(t) => BetIsHeld(u)
<1>1. Actionable(u) = Actionable(t)
  BY DEF SameBets, Actionable, CanAct, Occupied
<1>2. Contenders(u) = Contenders(t)
  BY DEF SameBets, Contenders, Occupied
<1>3. InHand(t) => InHand(u)
  BY DEF SameBets, InHand, Distinct
<1>4. BetIsHeld(t) => BetIsHeld(u)
  BY DEF SameBets, BetIsHeld
<1> QED BY <1>1, <1>2, <1>3, <1>4

\* A new actor changes nothing else.
LEMMA ActorFields ==
  ASSUME NEW t \in TableState, NEW a \in SeatValue
  PROVE  LET u == [t EXCEPT !.acting_seat = a]
         IN  /\ u \in TableState /\ SameBets(t, u) /\ u.acting_seat = a
             /\ u.pending_action = t.pending_action /\ u.raise_allowed = t.raise_allowed
             /\ u.hand_id = t.hand_id
<1> DEFINE u == [t EXCEPT !.acting_seat = a]
<1>1. u \in TableState
  BY Zenon DEF TableState
<1>2. /\ u.occupant = t.occupant /\ u.street = t.street /\ u.dealer_seat = t.dealer_seat
      /\ u.status = t.status /\ u.street_commitment = t.street_commitment
      /\ u.current_bet = t.current_bet /\ u.stack = t.stack
      /\ u.pending_action = t.pending_action /\ u.raise_allowed = t.raise_allowed
      /\ u.hand_id = t.hand_id /\ u.acting_seat = a
  BY DEF TableState
<1> HIDE DEF u
<1>3. SameBets(t, u)
  BY <1>2 DEF SameBets
<1> QED BY <1>1, <1>2, <1>3 DEF u

\* A hand with an actor that NextCanActSeat would find waits for them.
LEMMA ActorWaits ==
  ASSUME NEW t, Betting(t), NEW a \in Seats, CanAct(t, a), t.occupant[a] \in t.pending_action
  PROVE  Waits([t EXCEPT !.acting_seat = a])
<1>0. NoSeat \notin Seats /\ t \in TableState
  BY ValueAssumption DEF Betting, InHand
<1> PICK u : u = [t EXCEPT !.acting_seat = a]
  BY Zenon
<1>1. /\ u \in TableState /\ SameBets(t, u) /\ u.acting_seat = a
      /\ u.pending_action = t.pending_action
  BY <1>0, ActorFields DEF SeatValue
<1>2. /\ InHand(u) /\ BetIsHeld(u) /\ Actionable(u) = Actionable(t)
  BY <1>1, SameBetsSame DEF Betting
<1>3. Betting(u)
  BY <1>1, <1>2 DEF Betting, OthersMatched, SameBets
<1>4. MayAct(u, a)
  BY <1>1, <1>3 DEF MayAct, CanAct, Occupied, HandIsRunning, Betting, InHand, SameBets
<1> QED BY <1>0, <1>1, <1>3, <1>4 DEF Waits

\* A hand that somebody of those who can act still owes a decision finds its actor.
LEMMA ActorFound ==
  ASSUME NEW t \in TableState, NEW from \in Seats, NEW s \in Actionable(t),
         t.occupant[s] \in t.pending_action
  PROVE  /\ NextCanActSeat(t, from) \in Seats /\ CanAct(t, NextCanActSeat(t, from))
         /\ t.occupant[NextCanActSeat(t, from)] \in t.pending_action
<1> DEFINE S == {q \in Actionable(t) : t.occupant[q] \in t.pending_action}
<1>1. S \in SUBSET Seats /\ S # {}
  BY DEF Actionable
<1>2. NextCanActSeat(t, from) \in S
  BY <1>1, FirstClockwiseType DEF NextCanActSeat
<1> QED BY <1>2 DEF Actionable

\* Two seats count for more than one.
LEMMA SeatCountTwo ==
  ASSUME NEW S, NEW s \in Seats, NEW q \in Seats, s \in S, q \in S, s # q
  PROVE  SeatCount(S) > 1
<1> DEFINE one == [r \in Seats |-> IF r \in S THEN 1 ELSE 0]
<1>1. \A r \in Seats : one[r] \in {0, 1} /\ (r \in S => one[r] = 1)
  OBVIOUS
<1>2. SeatCount(S) = one[0] + one[1] + one[2] + one[3] + one[4] + one[5]
  BY DEF SeatCount, SeatSum
<1>3. \A r \in Seats : r = 0 \/ r = 1 \/ r = 2 \/ r = 3 \/ r = 4 \/ r = 5
  BY DEF Seats
<1>4. 0 \in Seats /\ 1 \in Seats /\ 2 \in Seats /\ 3 \in Seats /\ 4 \in Seats /\ 5 \in Seats
  BY DEF Seats
<1>5. one[s] = 1 /\ one[q] = 1
  BY <1>1
<1>6. \A r \in Seats : one[r] = 0 \/ one[r] = 1
  BY <1>1
<1> HIDE DEF one
<1> QED BY <1>2, <1>3, <1>4, <1>5, <1>6

\* One turn of the loop leaves a hand that has an outcome with one.
LEMMA TurnKeepsOutcome ==
  ASSUME NEW t, Outcome(t)
  PROVE  Outcome(AdvanceTurn(t))
<1>1. CASE t.street \in {"showdown", "settled"}
  BY <1>1, Zenon DEF AdvanceTurn
<1>2. CASE t.street \notin {"showdown", "settled"} /\ SeatCount(Contenders(t)) <= 1
  <2>1. InHand(t)
    BY <1>2 DEF Outcome, Waits, Stuck, Betting
  <2> QED BY <1>2, <2>1, SettleFoldWinRests, Zenon DEF AdvanceTurn, Outcome
<1>3. CASE t.street \notin {"showdown", "settled"} /\ ~(SeatCount(Contenders(t)) <= 1)
  <2>1. CASE Waits(t)
    <3>1. t \in TableState /\ t.acting_seat \in Seats /\ t.acting_seat # NoSeat
      BY <2>1 DEF Waits, Betting, InHand, TableState, SeatValue
    <3>2. CanAct(t, t.acting_seat) /\ t.occupant[t.acting_seat] \in t.pending_action
      BY <2>1, Zenon DEF Waits, MayAct
    <3>3. ~BettingRoundComplete(t)
      BY <1>3, <3>1, <3>2 DEF BettingRoundComplete, Actionable
    <3>4. AdvanceTurn(t) = [t EXCEPT !.acting_seat = t.acting_seat]
      BY <1>3, <3>1, <3>3, Zenon DEF AdvanceTurn, TableState
    <3> QED BY <2>1, <3>1, <3>2, <3>4, ActorWaits DEF Waits, Outcome
  <2>2. CASE Stuck(t)
    <3>1. t \in TableState /\ t.dealer_seat \in Seats /\ t.acting_seat = NoSeat
      BY <2>2 DEF Stuck, InHand
    <3>2. PICK s \in Seats : Actionable(t) = {s} /\ t.street_commitment[s] < t.current_bet
      BY <2>2 DEF Stuck, Stranded
    <3>3. t.street_commitment[s] # t.current_bet
      BY <3>1, <3>2 DEF TableState
    <3>4. ~BettingRoundComplete(t)
      BY <1>3, <3>2, <3>3 DEF BettingRoundComplete
    <3>5. NextCanActSeat(t, t.dealer_seat) = NoSeat
      <4>1. {q \in Actionable(t) : t.occupant[q] \in t.pending_action} = {}
        BY <2>2 DEF Stuck, Stranded
      <4> QED BY <4>1 DEF NextCanActSeat, FirstClockwise
    <3>6. AdvanceTurn(t) = [t EXCEPT !.acting_seat = NoSeat]
      BY <1>3, <3>1, <3>4, <3>5, Zenon DEF AdvanceTurn, TableState
    <3> PICK u : u = [t EXCEPT !.acting_seat = NoSeat]
      BY ZenonT(30)
    <3>7. /\ u \in TableState /\ SameBets(t, u) /\ u.acting_seat = NoSeat
          /\ u.pending_action = t.pending_action
      BY <3>1, ActorFields DEF SeatValue
    <3>8. InHand(u) /\ BetIsHeld(u) /\ Actionable(u) = Actionable(t)
      BY <2>2, <3>7, SameBetsSame DEF Stuck
    <3>9. Stuck(u)
      BY <2>2, <3>7, <3>8 DEF Stuck, Stranded, SameBets
    <3> QED BY <3>6, <3>9 DEF Outcome
  <2> QED BY <1>3, <2>1, <2>2 DEF Outcome
<1> QED BY <1>1, <1>2, <1>3

\* What advanceStreet leaves: nobody has committed anything, and everybody who
\* can act is asked.
LEMMA StreetFields ==
  ASSUME NEW t \in TableState
  PROVE  LET u == AdvanceStreet(t)
         IN  /\ u.occupant = t.occupant /\ u.stack = t.stack /\ u.status = t.status
             /\ u.street_commitment = [s \in Seats |-> 0] /\ u.current_bet = 0
             /\ u.street = NextStreet(t.street) /\ u.dealer_seat = t.dealer_seat
             /\ u.acting_seat = t.acting_seat /\ u.hand_id = t.hand_id
             /\ u.pending_action = PlayersAt(t, Actionable(t))
<1> DEFINE who == PlayersAt(t, Actionable(t))
           u == AdvanceStreet(t)
<1>1. u = [t EXCEPT !.street_commitment = [s \in Seats |-> 0], !.current_bet = 0,
                    !.minimum_raise = BigBlind, !.pending_action = who, !.raise_allowed = who,
                    !.street = NextStreet(t.street)]
  BY DEF AdvanceStreet, TableState
<1> HIDE DEF who, u
<1>2. /\ u.occupant = t.occupant /\ u.stack = t.stack /\ u.status = t.status
      /\ u.street_commitment = [s \in Seats |-> 0] /\ u.current_bet = 0
      /\ u.street = NextStreet(t.street) /\ u.dealer_seat = t.dealer_seat
      /\ u.acting_seat = t.acting_seat /\ u.hand_id = t.hand_id /\ u.pending_action = who
  BY <1>1 DEF TableState
<1> QED BY <1>2, Zenon DEF u, who

\* A new street begins with nothing to call, and asks everybody who can act.
LEMMA StreetBegins ==
  ASSUME NEW t, InHand(t), t.street \in {"preflop", "flop", "turn"}
  PROVE  LET u == AdvanceStreet(t)
         IN  /\ Betting(u) /\ u \in TableState /\ u.street = NextStreet(t.street)
             /\ u.street \in {"flop", "turn", "river"} /\ u.hand_id = t.hand_id
             /\ Contenders(u) = Contenders(t)
             /\ \A s \in Actionable(u) : /\ u.occupant[s] \in u.pending_action
                                         /\ u.street_commitment[s] = u.current_bet
<1>1. t \in TableState
  BY DEF InHand
<1> PICK u : u = AdvanceStreet(t)
  OBVIOUS
<1>2. /\ u.occupant = t.occupant /\ u.stack = t.stack /\ u.status = t.status
      /\ u.street_commitment = [s \in Seats |-> 0] /\ u.current_bet = 0
      /\ u.street = NextStreet(t.street) /\ u.dealer_seat = t.dealer_seat
      /\ u.hand_id = t.hand_id /\ u.pending_action = PlayersAt(t, Actionable(t))
  BY <1>1, StreetFields, Zenon
<1>3. InHand(u) /\ u.street \in {"flop", "turn", "river"} /\ u \in TableState
  BY AdvanceStreetInHand, Zenon DEF InHand
<1>4. Actionable(u) = Actionable(t) /\ Contenders(u) = Contenders(t)
  BY <1>2, Zenon DEF Actionable, CanAct, Occupied, Contenders
<1>5. \A s \in Actionable(u) : /\ u.occupant[s] \in u.pending_action
                               /\ u.street_commitment[s] = u.current_bet
  BY <1>2, <1>4 DEF PlayersAt, Actionable
<1>6. BetIsHeld(u)
  <2>1. u.dealer_seat \in Seats /\ u.status[u.dealer_seat] # "waiting"
    BY <1>3 DEF InHand
  <2>2. u.street_commitment[u.dealer_seat] = u.current_bet
    BY <1>2, <2>1
  <2> QED BY <2>1, <2>2 DEF BetIsHeld
<1>7. Betting(u)
  BY <1>3, <1>5, <1>6 DEF Betting, OthersMatched
<1> QED BY <1>2, <1>3, <1>4, <1>5, <1>7, Zenon

\* Where nobody has anything to decide, one turn of the loop shows the hand down,
\* settles it, finds an actor or comes to the next street.
LEMMA TurnRunsOut ==
  ASSUME NEW t, RunsOut(t)
  PROVE  \/ Outcome(AdvanceTurn(t))
         \/ /\ RunsOut(AdvanceTurn(t)) /\ t.street # "river"
            /\ AdvanceTurn(t).street = NextStreet(t.street)
<1>1. InHand(t) /\ t \in TableState /\ t.street \in {"preflop", "flop", "turn", "river"}
  BY DEF RunsOut, Betting, InHand
<1>2. BettingRoundComplete(t)
  BY DEF RunsOut, BettingRoundComplete
<1>3. CASE SeatCount(Contenders(t)) <= 1
  BY <1>1, <1>3, SettleFoldWinRests DEF AdvanceTurn, Outcome
<1>4. CASE ~(SeatCount(Contenders(t)) <= 1) /\ t.street = "river"
  <2>1. AdvanceTurn(t) = [t EXCEPT !.street = "showdown"]
    BY <1>1, <1>2, <1>4, Zenon DEF AdvanceTurn
  <2>2. AdvanceTurn(t).street = "showdown"
    BY <1>1, <2>1 DEF TableState
  <2> QED BY <2>2 DEF Outcome
<1>5. CASE ~(SeatCount(Contenders(t)) <= 1) /\ t.street # "river"
  <2> PICK u : u = AdvanceStreet(t)
    OBVIOUS
  <2>1. /\ Betting(u) /\ u \in TableState /\ u.street = NextStreet(t.street)
        /\ u.street \in {"flop", "turn", "river"}
        /\ \A s \in Actionable(u) : /\ u.occupant[s] \in u.pending_action
                                    /\ u.street_commitment[s] = u.current_bet
    BY <1>1, <1>5, StreetBegins, Zenon
  <2>2. u.dealer_seat \in Seats
    BY <2>1, Zenon DEF Betting, InHand
  <2>3. CASE SeatCount(Actionable(u)) <= 1
    <3>1. AdvanceTurn(t) = [u EXCEPT !.pending_action = {}, !.acting_seat = NoSeat]
      BY <1>1, <1>2, <1>5, <2>3, Zenon DEF AdvanceTurn
    <3> PICK v : v = [u EXCEPT !.pending_action = {}, !.acting_seat = NoSeat]
      OBVIOUS
    <3>2. v \in TableState
      BY <2>1, ZenonT(30) DEF TableState, SeatValue
    <3>3. /\ v.occupant = u.occupant /\ v.stack = u.stack /\ v.status = u.status
          /\ v.street_commitment = u.street_commitment /\ v.current_bet = u.current_bet
          /\ v.street = u.street /\ v.dealer_seat = u.dealer_seat
          /\ v.pending_action = {} /\ v.acting_seat = NoSeat
      BY <2>1 DEF TableState
    <3>4. SameBets(u, v)
      BY <3>3 DEF SameBets
    <3>5. InHand(v) /\ BetIsHeld(v) /\ Actionable(v) = Actionable(u)
      BY <2>1, <3>2, <3>4, SameBetsSame DEF Betting
    <3>6. \A s \in Actionable(v) : /\ v.occupant[s] \notin v.pending_action
                                   /\ v.street_commitment[s] = v.current_bet
      BY <2>1, <3>3, <3>5
    <3>7. RunsOut(v)
      BY <2>1, <3>3, <3>5, <3>6 DEF RunsOut, Betting, OthersMatched
    <3> QED BY <1>5, <2>1, <3>1, <3>3, <3>7, SMTT(20)
  <2>4. CASE ~(SeatCount(Actionable(u)) <= 1)
    <3>1. AdvanceTurn(t) = [u EXCEPT !.acting_seat = NextCanActSeat(u, u.dealer_seat)]
      BY <1>1, <1>2, <1>5, <2>4, Zenon DEF AdvanceTurn
    <3>2. PICK s \in Seats : s \in Actionable(u)
      BY <2>4, SeatCountPositive, SeatCountType
    <3>3. /\ NextCanActSeat(u, u.dealer_seat) \in Seats
          /\ CanAct(u, NextCanActSeat(u, u.dealer_seat))
          /\ u.occupant[NextCanActSeat(u, u.dealer_seat)] \in u.pending_action
      BY <2>1, <2>2, <3>2, ActorFound, Zenon
    <3> QED BY <2>1, <3>1, <3>3, ActorWaits DEF Outcome
  <2> QED BY <2>3, <2>4
<1> QED BY <1>1, <1>3, <1>4, <1>5

\* Four turns are enough: the loop ends with an outcome.
LEMMA LoopOutcome ==
  ASSUME NEW t, RunsOut(t) \/ Outcome(t)
  PROVE  Outcome(AdvanceUntilActionOrSettlement(t))
<1> PICK a : a = AdvanceTurn(t)
  OBVIOUS
<1> PICK b : b = AdvanceTurn(a)
  OBVIOUS
<1> PICK c : c = AdvanceTurn(b)
  OBVIOUS
<1>1. AdvanceUntilActionOrSettlement(t) = AdvanceTurn(c)
  BY DEF AdvanceUntilActionOrSettlement
<1>2. Outcome(a) \/ (RunsOut(a) /\ a.street \in {"flop", "turn", "river"})
  <2>1. RunsOut(t) => t.street \in {"preflop", "flop", "turn", "river"}
    BY Zenon DEF RunsOut, Betting, InHand
  <2> QED BY <2>1, TurnRunsOut, TurnKeepsOutcome DEF NextStreet
<1>3. Outcome(b) \/ (RunsOut(b) /\ b.street \in {"turn", "river"})
  BY <1>2, TurnRunsOut, TurnKeepsOutcome DEF NextStreet
<1>4. Outcome(c) \/ (RunsOut(c) /\ c.street = "river")
  BY <1>3, TurnRunsOut, TurnKeepsOutcome DEF NextStreet
<1> QED BY <1>1, <1>4, TurnRunsOut, TurnKeepsOutcome

\* The end of act() leaves a hand with an outcome.
LEMMA ConcludeOutcome ==
  ASSUME NEW u, Betting(u), NEW s \in Seats
  PROVE  Outcome(ConcludeAction(u, s))
<1>1. u \in TableState
  BY DEF Betting, InHand
<1> PICK t : t = [u EXCEPT !.server_sequence = @ + 1]
  BY Zenon
<1>2. /\ t.occupant = u.occupant /\ t.stack = u.stack /\ t.status = u.status
      /\ t.street_commitment = u.street_commitment /\ t.current_bet = u.current_bet
      /\ t.street = u.street /\ t.dealer_seat = u.dealer_seat
      /\ t.pending_action = u.pending_action
  BY <1>1 DEF TableState
<1>3. t \in TableState
  BY <1>1 DEF TableState
<1>4. Betting(t)
  <2>1. SameBets(u, t)
    BY <1>2 DEF SameBets
  <2>2. InHand(t) /\ BetIsHeld(t) /\ Actionable(t) = Actionable(u)
    BY <1>3, <2>1, SameBetsSame DEF Betting
  <2> QED BY <1>2, <2>2 DEF Betting, OthersMatched
<1>5. ConcludeAction(u, s) =
        IF SeatCount(Contenders(t)) <= 1 THEN SettleFoldWin(t)
        ELSE IF BettingRoundComplete(t)
             THEN AdvanceUntilActionOrSettlement([t EXCEPT !.acting_seat = NoSeat])
        ELSE [t EXCEPT !.acting_seat = NextCanActSeat(t, s)]
  BY DEF ConcludeAction
<1>6. CASE SeatCount(Contenders(t)) <= 1
  BY <1>4, <1>5, <1>6, SettleFoldWinRests DEF Betting, Outcome
<1>7. CASE ~(SeatCount(Contenders(t)) <= 1) /\ BettingRoundComplete(t)
  <2> PICK v : v = [t EXCEPT !.acting_seat = NoSeat]
    OBVIOUS
  <2>1. /\ v \in TableState /\ SameBets(t, v) /\ v.acting_seat = NoSeat
        /\ v.pending_action = t.pending_action
    BY <1>3, ActorFields, Zenon DEF SeatValue
  <2>2. InHand(v) /\ BetIsHeld(v) /\ Actionable(v) = Actionable(t)
    BY <1>4, <2>1, SameBetsSame DEF Betting
  <2>3. \A q \in Actionable(v) : /\ v.occupant[q] \notin v.pending_action
                                 /\ v.street_commitment[q] = v.current_bet
    BY <1>7, <2>1, <2>2 DEF BettingRoundComplete, SameBets
  <2>4. RunsOut(v)
    BY <1>4, <2>1, <2>2, <2>3 DEF RunsOut, Betting, OthersMatched, SameBets
  <2>5. Outcome(AdvanceUntilActionOrSettlement(v))
    BY <2>4, LoopOutcome
  <2>6. ConcludeAction(u, s) = AdvanceUntilActionOrSettlement(v)
    BY <1>5, <1>7
  <2> QED BY <2>5, <2>6
<1>8. CASE ~(SeatCount(Contenders(t)) <= 1) /\ ~BettingRoundComplete(t)
  <2>1. PICK q \in Actionable(t) : t.occupant[q] \in t.pending_action
    BY <1>4, <1>8 DEF BettingRoundComplete, Betting, OthersMatched
  <2>2. /\ NextCanActSeat(t, s) \in Seats /\ CanAct(t, NextCanActSeat(t, s))
        /\ t.occupant[NextCanActSeat(t, s)] \in t.pending_action
    BY <1>3, <2>1, ActorFound, Zenon
  <2> PICK next : next = NextCanActSeat(t, s)
    OBVIOUS
  <2>3. Waits([t EXCEPT !.acting_seat = next])
    BY <1>4, <2>2, ActorWaits, ZenonT(30)
  <2>4. ConcludeAction(u, s) = [t EXCEPT !.acting_seat = next]
    BY <1>5, <1>8
  <2> QED BY <2>3, <2>4 DEF Outcome
<1> QED BY <1>6, <1>7, <1>8

-----------------------------------------------------------------------------
(* What the commands of act() do to the round.                             *)

\* A command of seat s turns t into u: the round goes on, whoever is done with u
\* was done with t, and only a full raise gives others the right to raise.
Effect(t, u, s) ==
  /\ Betting(u) /\ u.street = t.street /\ u.hand_id = t.hand_id
  /\ \A q \in Actionable(t) \ {s} :
       /\ q \in Actionable(u)
       /\ u.occupant[q] \notin u.pending_action /\ u.street_commitment[q] = u.current_bet
            => t.occupant[q] \notin t.pending_action /\ t.street_commitment[q] = t.current_bet
  /\ \/ u.raise_allowed \subseteq t.raise_allowed
     \/ /\ u.current_bet - t.current_bet >= t.minimum_raise
        /\ t.occupant[s] \notin u.raise_allowed

\* removeFromActionSets changes the two sets.
LEMMA RemovedFields ==
  ASSUME NEW t \in TableState, NEW p
  PROVE  LET u == RemoveFromActionSets(t, p)
         IN  /\ u \in TableState /\ SameBets(t, u) /\ u.hand_id = t.hand_id
             /\ u.pending_action = t.pending_action \ {p}
             /\ u.raise_allowed = t.raise_allowed \ {p}
<1> DEFINE u == RemoveFromActionSets(t, p)
<1>1. /\ u.occupant = t.occupant /\ u.stack = t.stack /\ u.status = t.status
      /\ u.street_commitment = t.street_commitment /\ u.current_bet = t.current_bet
      /\ u.street = t.street /\ u.dealer_seat = t.dealer_seat /\ u.hand_id = t.hand_id
      /\ u.pending_action = t.pending_action \ {p} /\ u.raise_allowed = t.raise_allowed \ {p}
  BY DEF RemoveFromActionSets, TableState
<1>2. u \in TableState
  BY ZenonT(30) DEF RemoveFromActionSets, TableState
<1> HIDE DEF u
<1>3. SameBets(t, u)
  BY <1>1 DEF SameBets
<1> QED BY <1>1, <1>2, <1>3, Zenon DEF u

\* Nobody else on the table is the player who acts.
LEMMA OtherPlayer ==
  ASSUME NEW t, Distinct(t), NEW s \in Seats, NEW q \in Actionable(t), q # s
  PROVE  t.occupant[q] # t.occupant[s] /\ q \in Seats
BY DEF Distinct, Actionable, CanAct, Occupied

\* A fold is such a command.
LEMMA FoldEffect ==
  ASSUME NEW t, Waits(t), NEW s \in Seats, MayAct(t, s)
  PROVE  Effect(t, RemoveFromActionSets([t EXCEPT !.status[s] = "folded"], t.occupant[s]), s)
<1>1. t \in TableState /\ Distinct(t) /\ InHand(t) /\ t.street # "showdown"
  BY Zenon DEF Waits, Betting, InHand
<1> PICK v : v = [t EXCEPT !.status[s] = "folded"]
  BY Zenon
<1>2. v \in TableState
  BY <1>1, Zenon DEF TableState, PlayerStatus
<1>3. /\ v.occupant = t.occupant /\ v.stack = t.stack /\ v.hand_id = t.hand_id
      /\ v.street_commitment = t.street_commitment /\ v.current_bet = t.current_bet
      /\ v.street = t.street /\ v.dealer_seat = t.dealer_seat
      /\ v.pending_action = t.pending_action /\ v.raise_allowed = t.raise_allowed
      /\ \A q \in Seats : v.status[q] = IF q = s THEN "folded" ELSE t.status[q]
  BY <1>1 DEF TableState
<1>4. InHand(v) /\ BetIsHeld(v)
  BY <1>1, <1>2, <1>3 DEF InHand, Distinct, BetIsHeld, Waits, Betting
<1>5. Actionable(v) = Actionable(t) \ {s}
  BY <1>3 DEF Actionable, CanAct, Occupied
<1> PICK u : u = RemoveFromActionSets(v, t.occupant[s])
  OBVIOUS
<1>6. /\ u \in TableState /\ SameBets(v, u) /\ u.hand_id = v.hand_id
      /\ u.pending_action = v.pending_action \ {t.occupant[s]}
      /\ u.raise_allowed = v.raise_allowed \ {t.occupant[s]}
  BY <1>2, RemovedFields, Zenon
<1>7. InHand(u) /\ BetIsHeld(u) /\ Actionable(u) = Actionable(v)
  BY <1>4, <1>6, SameBetsSame
<1>8. /\ u.occupant = t.occupant /\ u.street_commitment = t.street_commitment
      /\ u.current_bet = t.current_bet /\ u.street = t.street /\ u.hand_id = t.hand_id
      /\ Actionable(u) = Actionable(t) \ {s}
      /\ u.pending_action = t.pending_action \ {t.occupant[s]}
      /\ u.raise_allowed \subseteq t.raise_allowed
  BY <1>3, <1>5, <1>6, <1>7, Zenon DEF SameBets
<1>9. \A q \in Actionable(t) \ {s} : t.occupant[q] # t.occupant[s]
  BY <1>1, OtherPlayer
<1>10. OthersMatched(u)
  BY <1>8, <1>9, SMTT(20) DEF OthersMatched, Waits, Betting
<1> QED BY <1>1, <1>7, <1>8, <1>9, <1>10, Zenon DEF Effect, Betting

\* So is a check.
LEMMA CheckEffect ==
  ASSUME NEW t, Waits(t), NEW s \in Seats, MayAct(t, s), t.street_commitment[s] = t.current_bet
  PROVE  Effect(t, RemoveFromActionSets(t, t.occupant[s]), s)
<1>1. t \in TableState /\ Distinct(t) /\ InHand(t) /\ t.street # "showdown"
  BY SMTT(20) DEF Waits, Betting, InHand
<1> PICK u : u = RemoveFromActionSets(t, t.occupant[s])
  OBVIOUS
<1>2. /\ u \in TableState /\ SameBets(t, u) /\ u.hand_id = t.hand_id
      /\ u.pending_action = t.pending_action \ {t.occupant[s]}
      /\ u.raise_allowed = t.raise_allowed \ {t.occupant[s]}
  BY <1>1, RemovedFields, SMTT(20)
<1>3. InHand(u) /\ BetIsHeld(u) /\ Actionable(u) = Actionable(t)
  BY <1>2, SameBetsSame, Zenon DEF Waits, Betting
<1>4. /\ u.occupant = t.occupant /\ u.street_commitment = t.street_commitment
      /\ u.current_bet = t.current_bet /\ u.street = t.street
      /\ u.raise_allowed \subseteq t.raise_allowed
  BY <1>2, Zenon DEF SameBets
<1>5. \A q \in Actionable(t) \ {s} : t.occupant[q] # t.occupant[s]
  BY <1>1, OtherPlayer, SMTT(20)
<1>6. OthersMatched(u)
  BY <1>2, <1>3, <1>4, <1>5 DEF OthersMatched, Waits, Betting
<1> QED BY <1>1, <1>2, <1>3, <1>4, <1>5, <1>6, ZenonT(30) DEF Effect, Betting

\* A payment of seat s up to `target' turns t into v.
PaysTo(t, v, s, target) ==
  /\ v.occupant = t.occupant /\ v.street = t.street
  /\ v.dealer_seat = t.dealer_seat /\ v.current_bet = t.current_bet
  /\ v.minimum_raise = t.minimum_raise /\ v.pending_action = t.pending_action
  /\ v.raise_allowed = t.raise_allowed /\ v.hand_id = t.hand_id
  /\ \A q \in Seats :
       /\ v.street_commitment[q] = IF q = s THEN target ELSE t.street_commitment[q]
       /\ v.stack[q] = IF q = s THEN Available(t, s) - target ELSE t.stack[q]
       /\ v.status[q] = IF q = s /\ target = Available(t, s) THEN "all_in" ELSE t.status[q]

\* payTo is such a payment.
LEMMA PaidTo ==
  ASSUME NEW t \in TableState, NEW s \in Seats, NEW target \in Nat,
         t.street_commitment[s] <= target, target <= Available(t, s)
  PROVE  PayTo(t, s, target) \in TableState /\ PaysTo(t, PayTo(t, s, target), s, target)
<1> DEFINE payment == target - t.street_commitment[s]
           v == PayTo(t, s, target)
<1>1. t.street_commitment[s] \in Nat /\ t.stack[s] \in Nat
  BY DEF TableState
<1>2. /\ payment \in Nat /\ payment <= t.stack[s] /\ t.street_commitment[s] + payment = target
      /\ t.stack[s] - payment = Available(t, s) - target
      /\ (t.stack[s] = payment <=> target = Available(t, s))
  BY <1>1 DEF Available
<1>3. v = Pay(t, s, payment)
  BY DEF PayTo
<1> HIDE DEF payment, v
<1>4. v \in TableState /\ Pays(t, v, s, payment)
  BY <1>2, <1>3, PaidFields
<1>5. \A q \in Seats : v.street_commitment[q] = IF q = s THEN target ELSE t.street_commitment[q]
  BY <1>2, <1>4, Zenon DEF TableState, Pays
<1>6. \A q \in Seats :
        /\ v.stack[q] = IF q = s THEN Available(t, s) - target ELSE t.stack[q]
        /\ v.status[q] = IF q = s /\ target = Available(t, s) THEN "all_in" ELSE t.status[q]
  BY <1>2, <1>4, Zenon DEF Pays
<1>7. /\ v.occupant = t.occupant /\ v.street = t.street
      /\ v.dealer_seat = t.dealer_seat /\ v.current_bet = t.current_bet
      /\ v.minimum_raise = t.minimum_raise /\ v.pending_action = t.pending_action
      /\ v.raise_allowed = t.raise_allowed /\ v.hand_id = t.hand_id
  BY <1>4 DEF Pays
<1>8. PaysTo(t, v, s, target)
  BY <1>5, <1>6, <1>7, SMTT(20) DEF PaysTo
<1> QED BY <1>4, <1>8, Zenon DEF v

\* A payment that does not raise: it calls, or puts the whole stack in.
LEMMA CallEffect ==
  ASSUME NEW t, Waits(t), NEW s \in Seats, MayAct(t, s), NEW target \in Nat,
         t.street_commitment[s] <= target, target <= Available(t, s), target <= t.current_bet,
         target = t.current_bet \/ target = Available(t, s)
  PROVE  Effect(t, RemoveFromActionSets(PayTo(t, s, target), t.occupant[s]), s)
<1>1. t \in TableState /\ Distinct(t) /\ InHand(t) /\ t.street # "showdown"
  BY Zenon DEF Waits, Betting, InHand
<1>2. t.status[s] = "active" /\ s \in Occupied(t)
  BY DEF MayAct, CanAct
<1> PICK v : v = PayTo(t, s, target)
  OBVIOUS
<1>3. /\ v \in TableState /\ v.occupant = t.occupant /\ v.street = t.street
      /\ v.current_bet = t.current_bet /\ v.pending_action = t.pending_action
      /\ v.raise_allowed = t.raise_allowed /\ v.hand_id = t.hand_id
      /\ \A q \in Seats :
           /\ v.street_commitment[q] = IF q = s THEN target ELSE t.street_commitment[q]
           /\ v.stack[q] = IF q = s THEN Available(t, s) - target ELSE t.stack[q]
           /\ v.status[q] = IF q = s /\ target = Available(t, s) THEN "all_in" ELSE t.status[q]
  <2>1. v \in TableState /\ PaysTo(t, v, s, target)
    BY <1>1, PaidTo, Zenon
  <2> QED BY <2>1, Zenon DEF PaysTo
<1>4. InHand(v)
  BY <1>1, PayToInHand, ZenonT(30)
<1>5. BetIsHeld(v)
  <2>1. PICK w \in Seats : t.street_commitment[w] = t.current_bet /\ t.status[w] # "waiting"
    BY Zenon DEF Waits, Betting, BetIsHeld
  <2>2. v.status[w] # "waiting"
    BY <1>2, <1>3, <2>1, Zenon
  <2>3. v.street_commitment[w] = v.current_bet
    <3>1. t.current_bet \in Nat /\ t.street_commitment[s] \in Nat
      BY <1>1, SMTT(20) DEF TableState
    <3> QED BY <1>3, <2>1, <3>1
  <2> QED BY <2>2, <2>3 DEF BetIsHeld
<1>6. \A q \in Seats : q # s => (q \in Actionable(v) <=> q \in Actionable(t))
  BY <1>3, Zenon DEF Actionable, CanAct, Occupied
<1>7. s \in Actionable(v) => target = t.current_bet
  BY <1>3, Zenon DEF Actionable, CanAct
<1> PICK u : u = RemoveFromActionSets(v, t.occupant[s])
  BY SMTT(20)
<1>8. /\ u \in TableState /\ SameBets(v, u) /\ u.hand_id = v.hand_id
      /\ u.pending_action = v.pending_action \ {t.occupant[s]}
      /\ u.raise_allowed = v.raise_allowed \ {t.occupant[s]}
  BY <1>3, RemovedFields, ZenonT(30)
<1>9. InHand(u) /\ BetIsHeld(u) /\ Actionable(u) = Actionable(v)
  BY <1>4, <1>5, <1>8, SameBetsSame, ZenonT(30)
<1>10. /\ u.occupant = t.occupant /\ u.street_commitment = v.street_commitment
       /\ u.current_bet = t.current_bet /\ u.street = t.street /\ u.hand_id = t.hand_id
       /\ u.pending_action = t.pending_action \ {t.occupant[s]}
       /\ u.raise_allowed \subseteq t.raise_allowed
  BY <1>3, <1>8, Zenon DEF SameBets
<1>11. \A q \in Actionable(t) \ {s} :
         t.occupant[q] # t.occupant[s] /\ q \in Seats /\ u.street_commitment[q] = t.street_commitment[q]
  <2> SUFFICES ASSUME NEW q \in Actionable(t) \ {s}
               PROVE  t.occupant[q] # t.occupant[s] /\ q \in Seats
                      /\ u.street_commitment[q] = t.street_commitment[q]
    BY Zenon
  <2>1. t.occupant[q] # t.occupant[s] /\ q \in Seats /\ q # s
    BY <1>1, OtherPlayer, Zenon
  <2> QED BY <1>3, <1>10, <2>1, ZenonT(30)
<1>12. OthersMatched(u)
  <2> SUFFICES ASSUME NEW q \in Actionable(u)
               PROVE  u.occupant[q] \in u.pending_action \/ u.street_commitment[q] = u.current_bet
    BY Zenon DEF OthersMatched
  <2>1. CASE q = s
    BY <1>3, <1>7, <1>9, <1>10, <2>1, Zenon
  <2>2. CASE q # s
    <3>1. q \in Actionable(t) \ {s}
      BY <1>6, <1>9, <2>2, Zenon DEF Actionable
    <3>2. t.occupant[q] \in t.pending_action \/ t.street_commitment[q] = t.current_bet
      BY <3>1, Zenon DEF Waits, Betting, OthersMatched
    <3> QED BY <1>10, <1>11, <3>1, <3>2, Zenon
  <2> QED BY <2>1, <2>2, Zenon
<1>13. Betting(u)
  BY <1>1, <1>9, <1>10, <1>12, Zenon DEF Betting
<1>14. \A q \in Actionable(t) \ {s} : q \in Actionable(u)
  BY <1>6, <1>9, <1>11, Zenon
<1> QED BY <1>10, <1>11, <1>13, <1>14, ZenonT(30) DEF Effect

\* A bet, a raise or an all-in above the bet to call: everybody else who can act
\* is asked again.
LEMMA RaiseEffect ==
  ASSUME NEW t, Waits(t), NEW s \in Seats, MayAct(t, s), NEW target \in Nat,
         target <= Available(t, s), target > t.current_bet
  PROVE  Effect(t, RaiseTo(t, s, target), s)
<1>1. t \in TableState /\ Distinct(t) /\ InHand(t) /\ t.street # "showdown"
  BY Zenon DEF Waits, Betting, InHand
<1>2. t.status[s] = "active" /\ s \in Occupied(t)
  BY DEF MayAct, CanAct
<1>3. /\ t.current_bet \in Nat /\ t.minimum_raise \in Nat
      /\ \A q \in Seats : t.street_commitment[q] \in Nat /\ t.street_commitment[q] <= t.current_bet
  BY <1>1, Zenon DEF InHand, TableState
<1>4. t.street_commitment[s] <= target
  BY <1>3
<1> PICK p : p = t.occupant[s]
  OBVIOUS
<1> PICK size : size = target - t.current_bet
  OBVIOUS
<1> PICK v : v = PayTo(t, s, target)
  BY SMTT(20)
<1>5. /\ v \in TableState /\ v.occupant = t.occupant /\ v.street = t.street
      /\ v.pending_action = t.pending_action
      /\ v.raise_allowed = t.raise_allowed /\ v.hand_id = t.hand_id
      /\ \A q \in Seats :
           /\ v.street_commitment[q] = IF q = s THEN target ELSE t.street_commitment[q]
           /\ v.stack[q] = IF q = s THEN Available(t, s) - target ELSE t.stack[q]
           /\ v.status[q] = IF q = s /\ target = Available(t, s) THEN "all_in" ELSE t.status[q]
  <2>1. v \in TableState /\ PaysTo(t, v, s, target)
    BY <1>1, <1>4, PaidTo, Zenon
  <2> QED BY <2>1, Zenon DEF PaysTo
<1> PICK w : w = [v EXCEPT !.current_bet = target]
  BY Zenon
<1>6. /\ w.occupant = v.occupant /\ w.street = v.street /\ w.pending_action = v.pending_action
      /\ w.raise_allowed = v.raise_allowed /\ w.hand_id = v.hand_id
      /\ w.street_commitment = v.street_commitment /\ w.stack = v.stack /\ w.status = v.status
      /\ w.current_bet = target
  BY <1>5 DEF TableState
<1>7. w \in TableState
  BY <1>5, SMTT(20) DEF TableState
<1>8. \A q \in Seats : q # s => (q \in Actionable(w) <=> q \in Actionable(t))
  BY <1>5, <1>6 DEF Actionable, CanAct, Occupied
<1> PICK u : u = RaiseTo(t, s, target)
  OBVIOUS
<1>9. InHand(u) /\ u.street = t.street
  BY <1>1, <1>4, RaiseToInHand
<1>10. u = IF size >= t.minimum_raise
           THEN ResetAfterFullRaise([w EXCEPT !.minimum_raise = size], p)
           ELSE RemoveFromActionSets(AddUnderCalledPlayers(w, p), p)
  BY DEF RaiseTo
\* What the two branches have in common.
<1> DEFINE Raised == /\ u.occupant = w.occupant /\ u.stack = w.stack /\ u.status = w.status
                     /\ u.street_commitment = w.street_commitment /\ u.current_bet = target
                     /\ u.hand_id = w.hand_id
                     /\ \A q \in Actionable(w) \ {s} : w.occupant[q] \in u.pending_action
                     /\ \/ u.raise_allowed \subseteq t.raise_allowed
                        \/ size >= t.minimum_raise /\ p \notin u.raise_allowed
<1>11. \A q \in Actionable(w) \ {s} : w.occupant[q] # p /\ q \in Seats
  <2>1. \A q \in Actionable(w) \ {s} : q \in Actionable(t)
    BY <1>8 DEF Actionable
  <2> QED BY <1>1, <1>5, <1>6, <2>1, OtherPlayer
<1>12. ASSUME size >= t.minimum_raise PROVE Raised
  <2> PICK x : x = [w EXCEPT !.minimum_raise = size]
    OBVIOUS
  <2>1. /\ x.occupant = w.occupant /\ x.stack = w.stack /\ x.status = w.status
        /\ x.street_commitment = w.street_commitment /\ x.current_bet = target
        /\ x.hand_id = w.hand_id
    BY <1>6, <1>7 DEF TableState
  <2>2. x \in TableState
    <3>1. size \in Nat
      BY <1>3
    <3> QED BY <1>7, <3>1, ZenonT(30) DEF TableState
  <2>3. Actionable(x) = Actionable(w)
    BY <2>1 DEF Actionable, CanAct, Occupied
  <2> PICK others : others = PlayersAt(x, Actionable(x)) \ {p}
    BY Zenon
  <2>4. u = [x EXCEPT !.pending_action = others, !.raise_allowed = others]
    BY <1>10, <1>12 DEF ResetAfterFullRaise
  <2>5. /\ u.occupant = x.occupant /\ u.stack = x.stack /\ u.status = x.status
        /\ u.street_commitment = x.street_commitment /\ u.current_bet = x.current_bet
        /\ u.hand_id = x.hand_id /\ u.pending_action = others /\ u.raise_allowed = others
    BY <2>2, <2>4 DEF TableState
  <2>6. \A q \in Actionable(w) \ {s} : w.occupant[q] \in others
    BY <1>11, <2>1, <2>3, SMTT(20) DEF PlayersAt
  <2> QED BY <1>12, <2>1, <2>5, <2>6
<1>13. ASSUME ~(size >= t.minimum_raise) PROVE Raised
  <2> PICK seats : seats = {q \in Actionable(w) : w.street_commitment[q] < w.current_bet}
    BY Zenon
  <2> PICK under : under = PlayersAt(w, seats) \ {p}
    BY Zenon
  <2> PICK x : x = AddUnderCalledPlayers(w, p)
    OBVIOUS
  <2> PICK asked : asked = w.pending_action \cup under
    BY Zenon
  <2>1. x = [w EXCEPT !.pending_action = asked]
    BY <1>7 DEF AddUnderCalledPlayers, TableState
  <2>2. /\ x.occupant = w.occupant /\ x.stack = w.stack /\ x.status = w.status
        /\ x.street_commitment = w.street_commitment /\ x.current_bet = w.current_bet
        /\ x.hand_id = w.hand_id /\ x.raise_allowed = w.raise_allowed
        /\ x.pending_action = asked
    BY <1>7, <2>1, Zenon DEF TableState
  <2>3. x \in TableState
    <3>1. under \subseteq Players
      <4>1. seats \in SUBSET Occupied(w)
        BY DEF Actionable, CanAct
      <4>2. PlayersAt(w, seats) \in SUBSET Players
        BY <1>7, <4>1, PlayersAtType
      <4> QED BY <4>2
    <3>2. asked \in SUBSET Players
      BY <1>7, <3>1, Zenon DEF TableState
    <3> QED BY <1>7, <2>1, <3>2, ZenonT(30) DEF TableState
  <2>4. u = RemoveFromActionSets(x, p)
    BY <1>10, <1>13
  <2>5. /\ SameBets(x, u) /\ u.hand_id = x.hand_id
        /\ u.pending_action = x.pending_action \ {p} /\ u.raise_allowed = x.raise_allowed \ {p}
    BY <2>3, <2>4, RemovedFields
  <2>6. ASSUME NEW q \in Actionable(w) \ {s} PROVE w.occupant[q] \in u.pending_action
    <3>1. q \in Seats /\ w.occupant[q] # p /\ w.street_commitment[q] = t.street_commitment[q]
      BY <1>5, <1>6, <1>11
    <3>2. w.street_commitment[q] < w.current_bet
      BY <1>3, <1>6, <3>1
    <3>3. w.occupant[q] \in under
      BY <3>1, <3>2 DEF PlayersAt
    <3> QED BY <2>2, <2>5, <3>1, <3>3, Zenon
  <2>7. /\ u.occupant = x.occupant /\ u.stack = x.stack /\ u.status = x.status
        /\ u.street_commitment = x.street_commitment /\ u.current_bet = x.current_bet
    BY <2>5, Zenon DEF SameBets
  <2>8. u.raise_allowed \subseteq t.raise_allowed
    BY <1>5, <1>6, <2>2, <2>5
  <2> QED BY <1>6, <2>2, <2>5, <2>6, <2>7, <2>8, Zenon
<1>14. Raised
  BY <1>12, <1>13
<1>15. Actionable(u) = Actionable(w)
  BY <1>14 DEF Actionable, CanAct, Occupied
<1>16. BetIsHeld(u)
  BY <1>2, <1>5, <1>6, <1>14 DEF BetIsHeld
<1>17. OthersMatched(u)
  <2> SUFFICES ASSUME NEW q \in Actionable(u)
               PROVE  u.occupant[q] \in u.pending_action \/ u.street_commitment[q] = u.current_bet
    BY DEF OthersMatched
  <2> QED BY <1>5, <1>6, <1>14, <1>15
<1>18. Betting(u)
  BY <1>1, <1>9, <1>16, <1>17 DEF Betting
<1>19. \A q \in Actionable(t) \ {s} : q \in Actionable(u) /\ u.occupant[q] \in u.pending_action
  <2>1. \A q \in Actionable(t) \ {s} : q \in Actionable(w)
    BY <1>8 DEF Actionable
  <2> QED BY <1>14, <1>15, <2>1
<1>20. u.hand_id = t.hand_id
  BY <1>5, <1>6, <1>14
<1> HIDE DEF Raised
<1>21. \/ u.raise_allowed \subseteq t.raise_allowed
       \/ /\ u.current_bet - t.current_bet >= t.minimum_raise
          /\ t.occupant[s] \notin u.raise_allowed
  BY <1>14 DEF Raised
<1> QED BY <1>9, <1>18, <1>19, <1>20, <1>21, SMTT(20) DEF Effect

-----------------------------------------------------------------------------
(* How far an operation takes a hand.                                      *)

\* The streets in the order of a hand.
Rank(street) ==
  CASE street = "preflop" -> 1 [] street = "flop" -> 2 [] street = "turn" -> 3
    [] street = "river" -> 4 [] street = "showdown" -> 5 [] street = "settled" -> 6
    [] OTHER -> 0

\* The record u is t further on in the same hand: on a later street, or with the
\* same bet to call and the same players who may raise.
Follows(t, u) ==
  /\ u.occupant = t.occupant /\ u.status = t.status /\ u.hand_id = t.hand_id
  /\ \/ /\ u.street = t.street /\ u.raise_allowed = t.raise_allowed
        /\ u.current_bet = t.current_bet
     \/ Rank(u.street) > Rank(t.street)

\* Further on twice is further on.
LEMMA FollowsOn ==
  ASSUME NEW t, NEW u, NEW v, Follows(t, u), Follows(u, v)
  PROVE  Follows(t, v)
<1>1. Rank(t.street) \in Nat /\ Rank(u.street) \in Nat /\ Rank(v.street) \in Nat
  BY DEF Rank
<1> QED BY <1>1 DEF Follows

\* A turn of the loop takes a hand further on.
LEMMA TurnFollows ==
  ASSUME NEW t, Advanced(t)
  PROVE  Follows(t, AdvanceTurn(t))
<1>1. CASE t.street \in {"showdown", "settled"}
  BY <1>1, Zenon DEF AdvanceTurn, Follows
<1>2. CASE t.street \notin {"showdown", "settled"}
  <2>1. InHand(t) /\ t \in TableState /\ t.dealer_seat \in Seats
    BY <1>2 DEF Advanced, AtRest, HandIsRunning, TableState, Streets, InHand
  <2>2. t.street \in {"preflop", "flop", "turn", "river"}
    BY <1>2, <2>1 DEF InHand
  <2>3. CASE SeatCount(Contenders(t)) <= 1
    <3>1. SettledAs(t, AdvanceTurn(t))
      BY <1>2, <2>1, <2>3, SettleFoldWinRests, SMTT(20) DEF AdvanceTurn
    <3> QED BY <2>2, <3>1, SMTT(20) DEF SettledAs, Follows, Rank
  <2>4. CASE ~(SeatCount(Contenders(t)) <= 1) /\ ~BettingRoundComplete(t)
    <3> PICK a : a = IF t.acting_seat = NoSeat
                     THEN NextCanActSeat(t, t.dealer_seat) ELSE t.acting_seat
      OBVIOUS
    <3>1. AdvanceTurn(t) = [t EXCEPT !.acting_seat = a]
      BY <1>2, <2>1, <2>4, Zenon DEF AdvanceTurn, TableState
    <3>2. /\ AdvanceTurn(t).occupant = t.occupant /\ AdvanceTurn(t).status = t.status
          /\ AdvanceTurn(t).hand_id = t.hand_id /\ AdvanceTurn(t).street = t.street
          /\ AdvanceTurn(t).raise_allowed = t.raise_allowed
          /\ AdvanceTurn(t).current_bet = t.current_bet
      BY <2>1, <3>1 DEF TableState
    <3> QED BY <3>2, Zenon DEF Follows
  <2>5. CASE ~(SeatCount(Contenders(t)) <= 1) /\ BettingRoundComplete(t) /\ t.street = "river"
    <3>1. AdvanceTurn(t) = [t EXCEPT !.street = "showdown"]
      BY <2>5, Zenon DEF AdvanceTurn
    <3>2. /\ AdvanceTurn(t).occupant = t.occupant /\ AdvanceTurn(t).status = t.status
          /\ AdvanceTurn(t).hand_id = t.hand_id /\ AdvanceTurn(t).street = "showdown"
      BY <2>1, <3>1, SMTT(20) DEF TableState
    <3> QED BY <2>5, <3>2 DEF Follows, Rank
  <2>6. CASE ~(SeatCount(Contenders(t)) <= 1) /\ BettingRoundComplete(t) /\ t.street # "river"
    <3> PICK u : u = AdvanceStreet(t)
      OBVIOUS
    <3>1. /\ u.occupant = t.occupant /\ u.status = t.status
          /\ u.street = NextStreet(t.street) /\ u.hand_id = t.hand_id
      BY <2>1, StreetFields, SMTT(20)
    <3>2. u \in TableState
      BY <2>1, <2>2, <2>6, AdvanceStreetInHand, Zenon DEF InHand
    <3>3. PICK asked, a : AdvanceTurn(t) = [u EXCEPT !.pending_action = asked, !.acting_seat = a]
                          \/ AdvanceTurn(t) = [u EXCEPT !.acting_seat = a]
      BY <1>2, <2>6, Zenon DEF AdvanceTurn
    <3>4. /\ AdvanceTurn(t).occupant = u.occupant /\ AdvanceTurn(t).status = u.status
          /\ AdvanceTurn(t).hand_id = u.hand_id /\ AdvanceTurn(t).street = u.street
      BY <3>2, <3>3, Zenon DEF TableState
    <3>5. Rank(NextStreet(t.street)) > Rank(t.street)
      BY <2>2, <2>6 DEF Rank, NextStreet
    <3> QED BY <3>1, <3>4, <3>5, SMTT(20) DEF Follows
  <2> QED BY <2>3, <2>4, <2>5, <2>6
<1> QED BY <1>1, <1>2, SMTT(20)

\* So does the whole loop.
LEMMA LoopFollows ==
  ASSUME NEW t, Advanced(t)
  PROVE  Follows(t, AdvanceUntilActionOrSettlement(t))
<1> PICK a : a = AdvanceTurn(t)
  OBVIOUS
<1> PICK b : b = AdvanceTurn(a)
  OBVIOUS
<1> PICK c : c = AdvanceTurn(b)
  OBVIOUS
<1>1. Advanced(a) /\ Advanced(b) /\ Advanced(c)
  BY AdvanceTurnAdvanced
<1>2. Follows(t, a) /\ Follows(a, b) /\ Follows(b, c) /\ Follows(c, AdvanceTurn(c))
  BY <1>1, TurnFollows
<1>3. Follows(t, AdvanceTurn(c))
  BY <1>2, FollowsOn
<1> QED BY <1>3 DEF AdvanceUntilActionOrSettlement

\* So does a settlement.
LEMMA SettlementFollows ==
  ASSUME NEW t, Advanced(t), NEW u \in Settlements(t)
  PROVE  /\ Follows(t, u)
         /\ Outcome(t) => u.street = "settled" \/ Waits(u) \/ Stuck(u)
<1>1. CASE t.street = "showdown"
  <2>1. PICK strength \in [Contenders(t) -> Strengths] :
          u = MarkSettled(BuildAndAwardPots(t, strength))
    BY <1>1 DEF Settlements
  <2>2. SettledAs(t, u)
    BY <1>1, <2>1, ShowdownRests, Zenon DEF Advanced
  <2> QED BY <1>1, <2>2 DEF SettledAs, Follows, Rank
<1>2. CASE t.street # "showdown"
  <2>1. u = t
    BY <1>2 DEF Settlements
  <2> QED BY <1>2, <2>1 DEF Follows, Outcome
<1> QED BY <1>1, <1>2

\* The end of act() comes to a later street only if the round is over.
LEMMA ConcludeFollows ==
  ASSUME NEW u, Betting(u), NEW s \in Seats, Conclude(u, s)
  PROVE  /\ Follows(u, table')
         /\ \/ table'.street = u.street /\ table'.raise_allowed = u.raise_allowed
               /\ table'.current_bet = u.current_bet
            \/ SeatCount(Contenders(u)) <= 1
            \/ BettingRoundComplete(u)
         /\ table'.street = "settled" \/ Waits(table') \/ Stuck(table')
<1>1. u \in TableState /\ InHand(u) /\ u.street # "showdown"
  BY Zenon DEF Betting, InHand
<1> PICK after : after = ConcludeAction(u, s)
  OBVIOUS
<1>2. Advanced(after) /\ Outcome(after) /\ table' \in Settlements(after)
  BY <1>1, ConcludeActionAdvanced, ConcludeOutcome DEF Conclude
<1>3. Follows(after, table') /\ (table'.street = "settled" \/ Waits(table') \/ Stuck(table'))
  BY <1>2, SettlementFollows
<1> PICK t : t = [u EXCEPT !.server_sequence = @ + 1]
  BY Zenon
<1>4. /\ t.occupant = u.occupant /\ t.stack = u.stack /\ t.status = u.status
      /\ t.street_commitment = u.street_commitment /\ t.current_bet = u.current_bet
      /\ t.street = u.street /\ t.dealer_seat = u.dealer_seat /\ t.hand_id = u.hand_id
      /\ t.pending_action = u.pending_action /\ t.raise_allowed = u.raise_allowed
  BY <1>1 DEF TableState
<1>5. t \in TableState
  BY <1>1 DEF TableState
<1>6. SameBets(u, t)
  BY <1>4 DEF SameBets
<1>7. InHand(t) /\ Actionable(t) = Actionable(u) /\ Contenders(t) = Contenders(u)
  BY <1>1, <1>5, <1>6, SameBetsSame
<1>8. after =
        IF SeatCount(Contenders(t)) <= 1 THEN SettleFoldWin(t)
        ELSE IF BettingRoundComplete(t)
             THEN AdvanceUntilActionOrSettlement([t EXCEPT !.acting_seat = NoSeat])
        ELSE [t EXCEPT !.acting_seat = NextCanActSeat(t, s)]
  BY DEF ConcludeAction
<1>9. Follows(u, t)
  BY <1>4 DEF Follows
<1>10. CASE SeatCount(Contenders(t)) <= 1
  <2>1. SettledAs(t, after)
    BY <1>7, <1>8, <1>10, SettleFoldWinRests
  <2>2. Follows(t, after)
    BY <1>1, <1>4, <2>1 DEF Follows, SettledAs, Rank, InHand
  <2> QED BY <1>3, <1>7, <1>9, <1>10, <2>2, FollowsOn
<1>11. CASE ~(SeatCount(Contenders(t)) <= 1) /\ BettingRoundComplete(t)
  <2> PICK v : v = [t EXCEPT !.acting_seat = NoSeat]
    OBVIOUS
  <2>1. /\ SameBets(t, v) /\ v.raise_allowed = t.raise_allowed /\ v.hand_id = t.hand_id
        /\ v.street = t.street
    BY <1>5, ActorFields DEF SeatValue, SameBets
  <2>2. Follows(t, v)
    BY <2>1 DEF Follows, SameBets
  <2>3. Advanced(v)
    <3>1. AtRest(v) /\ AwardsHeld(v)
      BY <1>1, <1>4, <1>7, NewActorRests, Zenon DEF SeatValue
    <3> QED BY <1>1, <1>4, <2>1, <3>1 DEF Advanced, InHand
  <2>4. Follows(v, after)
    <3>1. after = AdvanceUntilActionOrSettlement(v)
      BY <1>8, <1>11
    <3> QED BY <2>3, <3>1, LoopFollows
  <2>5. BettingRoundComplete(u)
    BY <1>4, <1>7, <1>11 DEF BettingRoundComplete
  <2>6. Follows(u, table')
    BY <1>3, <1>9, <2>2, <2>4, FollowsOn
  <2> QED BY <1>3, <2>5, <2>6
<1>12. CASE ~(SeatCount(Contenders(t)) <= 1) /\ ~BettingRoundComplete(t)
  <2> PICK next : next = NextCanActSeat(t, s)
    OBVIOUS
  <2>1. next \in SeatValue
    BY <1>5, NextCanActSeatFound DEF SeatValue
  <2>2. after = [t EXCEPT !.acting_seat = next]
    BY <1>8, <1>12
  <2> PICK w : w = [t EXCEPT !.acting_seat = next]
    OBVIOUS
  <2>9. SameBets(t, w) /\ w.raise_allowed = t.raise_allowed /\ w.hand_id = t.hand_id
    BY <1>5, <2>1, ActorFields, ZenonT(30)
  <2>3. /\ SameBets(t, after) /\ after.raise_allowed = t.raise_allowed
        /\ after.hand_id = t.hand_id
    BY <2>2, <2>9
  <2>4. after.street # "showdown"
    BY <1>1, <1>4, <2>3 DEF SameBets
  <2>5. table' = after
    BY <1>2, <2>4 DEF Settlements
  <2>6. /\ table'.street = u.street /\ table'.raise_allowed = u.raise_allowed
        /\ table'.current_bet = u.current_bet /\ table'.occupant = u.occupant
        /\ table'.status = u.status /\ table'.hand_id = u.hand_id
    BY <1>4, <2>3, <2>5 DEF SameBets
  <2> QED BY <1>3, <2>6 DEF Follows
<1> QED BY <1>10, <1>11, <1>12

-----------------------------------------------------------------------------
(* The round of the hand, step by step.                                    *)

\* A step from t to u gives somebody the right to raise as RaiseReopens says.
Reopens(t, u) ==
  \A p \in u.raise_allowed \ t.raise_allowed :
     \/ u.street # t.street \/ u.hand_id # t.hand_id
     \/ /\ u.current_bet - t.current_bet >= t.minimum_raise
        /\ p # t.occupant[t.acting_seat]

\* It ends a round as RoundClosesFairly says.
Closes(t, u) ==
  (/\ HandIsRunning(t) /\ u.street \notin {t.street, "waiting"}
   /\ SeatCount(Contenders(u)) > 1) =>
     \A s \in Actionable(t) \ {t.acting_seat} :
        t.occupant[s] \notin t.pending_action /\ t.street_commitment[s] = t.current_bet

\* A running hand waits for its actor, or the blinds have left it without one.
Goes(t) == HandIsRunning(t) => Waits(t) \/ Stuck(t)

\* A command with such an effect keeps the round in order, and reopens and closes
\* it fairly.
LEMMA CommandRound ==
  ASSUME Waits(table), NEW s \in Seats, MayAct(table, s), NEW u, Effect(table, u, s),
         Conclude(u, s)
  PROVE  Goes(table') /\ Reopens(table, table') /\ Closes(table, table')
<1> PICK t : t = table
  OBVIOUS
<1> PICK w : w = table'
  OBVIOUS
<1>1. Betting(u) /\ u.street = t.street /\ s = t.acting_seat
  BY Zenon DEF Effect, MayAct
<1>2. /\ Follows(u, w)
      /\ \/ w.street = u.street /\ w.raise_allowed = u.raise_allowed
            /\ w.current_bet = u.current_bet
         \/ SeatCount(Contenders(u)) <= 1
         \/ BettingRoundComplete(u)
      /\ w.street = "settled" \/ Waits(w) \/ Stuck(w)
  BY <1>1, ConcludeFollows, Zenon
<1>3. Goes(w)
  BY <1>2, Zenon DEF Goes, HandIsRunning
<1>4. Reopens(t, w)
  <2> SUFFICES ASSUME NEW p \in w.raise_allowed \ t.raise_allowed, w.street = t.street
               PROVE  /\ w.current_bet - t.current_bet >= t.minimum_raise
                      /\ p # t.occupant[t.acting_seat]
    BY Zenon DEF Reopens
  <2>1. ~(Rank(w.street) > Rank(u.street))
    <3>1. Rank(w.street) \in Nat
      BY SMTT(20) DEF Rank
    <3> QED BY <1>1, <3>1
  <2>2. w.raise_allowed = u.raise_allowed /\ w.current_bet = u.current_bet
    BY <1>2, <2>1, Zenon DEF Follows
  <2> QED BY <1>1, <2>2, Zenon DEF Effect
<1>5. Closes(t, w)
  <2> SUFFICES ASSUME w.street # t.street, SeatCount(Contenders(w)) > 1,
                      NEW q \in Actionable(t) \ {t.acting_seat}
               PROVE  t.occupant[q] \notin t.pending_action /\ t.street_commitment[q] = t.current_bet
    BY Zenon DEF Closes
  <2>1. Contenders(w) = Contenders(u)
    BY <1>2, Zenon DEF Follows, Contenders, Occupied
  <2>2. ~(SeatCount(Contenders(u)) <= 1)
    BY <2>1, SeatCountType
  <2>3. BettingRoundComplete(u)
    BY <1>1, <1>2, <2>2, SMTT(20)
  <2>4. \A r \in Actionable(u) : u.occupant[r] \notin u.pending_action
                                 /\ u.street_commitment[r] = u.current_bet
    BY <2>2, <2>3, Zenon DEF BettingRoundComplete
  <2> QED BY <1>1, <2>4, Zenon DEF Effect
<1> QED BY <1>3, <1>4, <1>5

\* So do all commands of act().
LEMMA ActRound ==
  ASSUME Goes(table), Act
  PROVE  Goes(table') /\ Reopens(table, table') /\ Closes(table, table')
<1>1. PICK s \in Seats :
         \/ Fold(s)
         \/ Check(s)
         \/ Call(s)
         \/ \E amount \in 1 .. MaxTableChips : Bet(s, amount)
         \/ \E amount \in 1 .. MaxTableChips : Raise(s, amount)
         \/ AllIn(s)
  BY DEF Act
<1>2. MayAct(table, s)
  BY <1>1 DEF Fold, Check, Call, Bet, Raise, AllIn
<1>3. Waits(table)
  BY <1>2, ValueAssumption, Zenon DEF Goes, MayAct, Stuck
<1>4. table \in TableState /\ \A q \in Seats : table.street_commitment[q] <= table.current_bet
  BY <1>3, Zenon DEF Waits, Betting, InHand
<1>5. /\ table.street_commitment[s] \in Nat /\ table.stack[s] \in Nat /\ table.current_bet \in Nat
      /\ Available(table, s) \in Nat /\ table.street_commitment[s] <= Available(table, s)
  BY <1>4 DEF TableState, Available
<1>6. CASE Fold(s)
  BY <1>2, <1>3, <1>6, FoldEffect, CommandRound, SMTT(20) DEF Fold
<1>7. CASE Check(s)
  BY <1>2, <1>3, <1>7, CheckEffect, CommandRound, Zenon DEF Check
<1>8. CASE Call(s)
  <2> PICK target : target = Lesser(table.current_bet, Available(table, s))
    OBVIOUS
  <2>1. /\ target \in Nat /\ table.street_commitment[s] <= target /\ target <= Available(table, s)
        /\ target <= table.current_bet
        /\ target = table.current_bet \/ target = Available(table, s)
    BY <1>4, <1>5, SMTT(20) DEF Lesser
  <2>2. Effect(table, RemoveFromActionSets(PayTo(table, s, target), table.occupant[s]), s)
    BY <1>2, <1>3, <2>1, CallEffect, Zenon
  <2> QED BY <1>2, <1>3, <1>8, <2>2, CommandRound, Zenon DEF Call
<1>9. ASSUME NEW target \in Nat, target > table.current_bet, target <= Available(table, s),
             Conclude(RaiseTo(table, s, target), s)
      PROVE  Goes(table') /\ Reopens(table, table') /\ Closes(table, table')
  BY <1>2, <1>3, <1>9, RaiseEffect, CommandRound, SMTT(20)
<1>10. CASE \E amount \in 1 .. MaxTableChips : Bet(s, amount)
  <2>1. PICK amount \in 1 .. MaxTableChips : Bet(s, amount)
    BY <1>10
  <2>2. amount \in Nat /\ amount > table.current_bet /\ amount <= Available(table, s)
    BY <2>1, SMTT(20) DEF Bet
  <2> QED BY <1>9, <2>1, <2>2, Zenon DEF Bet
<1>11. CASE \E amount \in 1 .. MaxTableChips : Raise(s, amount)
  <2>1. PICK amount \in 1 .. MaxTableChips : Raise(s, amount)
    BY <1>11
  <2> QED BY <1>9, <2>1 DEF Raise
<1>12. CASE AllIn(s)
  <2> PICK target : target = Available(table, s)
    OBVIOUS
  <2>1. CASE target <= table.current_bet
    <3>1. Effect(table, RemoveFromActionSets(PayTo(table, s, target), table.occupant[s]), s)
      <4>1. /\ target \in Nat /\ table.street_commitment[s] <= target
            /\ target <= Available(table, s) /\ target = Available(table, s)
        BY <1>5
      <4> QED BY <1>2, <1>3, <2>1, <4>1, CallEffect, Zenon
    <3>2. Conclude(RemoveFromActionSets(PayTo(table, s, target), table.occupant[s]), s)
      BY <1>5, <1>12, <2>1, SMTT(20) DEF AllIn
    <3> QED BY <1>2, <1>3, <3>1, <3>2, CommandRound, SMTT(20)
  <2>2. CASE target > table.current_bet
    <3>1. Conclude(RaiseTo(table, s, target), s)
      BY <1>5, <1>12, <2>2 DEF AllIn
    <3> QED BY <1>5, <1>9, <2>2, <3>1, SMTT(20)
  <2> QED BY <1>5, <2>1, <2>2
<1> QED BY <1>1, <1>6, <1>7, <1>8, <1>10, <1>11, <1>12, Zenon

\* A new hand waits for its first actor, runs out the board, or is left by its
\* blinds without an actor.
LEMMA DealHandOutcome ==
  ASSUME NEW t \in TableState, Distinct(t), SeatCount(ReadySeats(t)) > 0
  PROVE  Outcome(DealHand(t)) /\ DealHand(t).hand_id = t.hand_id + 1
<1> PICK dealt : dealt = ChooseDealer(FreshHand(t))
  OBVIOUS
<1> PICK bb : bb = NextParticipatingSeat(dealt, SmallBlindSeat(dealt))
  OBVIOUS
<1> PICK n : n = SeatCount(ParticipatingSeats(dealt))
  OBVIOUS
<1> PICK b : b = PostBlinds(dealt)
  OBVIOUS
<1> PICK a : a = IF n # 2 THEN NextCanActSeat(b, bb)
                 ELSE IF CanAct(b, b.dealer_seat) /\ b.occupant[b.dealer_seat] \in b.pending_action
                      THEN b.dealer_seat
                 ELSE NextCanActSeat(b, b.dealer_seat)
  BY Zenon
<1> PICK u : u = [b EXCEPT !.acting_seat = a]
  BY Zenon
<1> PICK v : v = [u EXCEPT !.pending_action = {}, !.acting_seat = NoSeat]
  OBVIOUS
<1>1. /\ InHand(dealt) /\ dealt.street = "preflop" /\ dealt.hand_id = t.hand_id + 1
      /\ \A s \in Seats : dealt.street_commitment[s] = 0
  BY DealerInHand
<1>2. DealHand(t) = IF SeatCount(Actionable(u)) <= 1
                    THEN AdvanceUntilActionOrSettlement(v) ELSE u
  BY DEF DealHand, SetInitialActor
<1>3. /\ InHand(b) /\ b.street = "preflop" /\ BetIsHeld(b) /\ AllAsked(b)
      /\ b.hand_id = t.hand_id + 1
  BY <1>1, PostBlindsInHand
<1>4. bb \in Seats
  <2>1. SmallBlindSeat(dealt) \in Seats
    BY <1>1, NextParticipatingFound DEF SmallBlindSeat, InHand
  <2> QED BY <1>1, <2>1, NextParticipatingFound
<1>5. b \in TableState /\ b.dealer_seat \in Seats
  BY <1>3 DEF InHand
<1>6. Betting(b)
  BY <1>3 DEF Betting, OthersMatched, AllAsked
<1>7. a \in SeatValue
  BY <1>4, <1>5, NextCanActSeatFound DEF SeatValue
<1>8. /\ u \in TableState /\ SameBets(b, u) /\ u.hand_id = b.hand_id
      /\ u.raise_allowed = b.raise_allowed
  BY <1>5, <1>7, ActorFields
<1>9. InHand(u) /\ BetIsHeld(u) /\ Actionable(u) = Actionable(b) /\ u.street = "preflop"
  BY <1>3, <1>8, SameBetsSame, Zenon DEF SameBets
<1>10. CASE ~(SeatCount(Actionable(u)) <= 1)
  <2>1. SeatCount(Actionable(b)) > 0
    BY <1>9, <1>10, SeatCountType
  <2>2. PICK s \in Seats : s \in Actionable(b)
    BY <2>1, SeatCountPositive
  <2>3. b.occupant[s] \in b.pending_action
    BY <1>3, <2>2 DEF AllAsked
  <2>4. a \in Seats /\ CanAct(b, a) /\ b.occupant[a] \in b.pending_action
    BY <1>4, <1>5, <2>2, <2>3, ActorFound, Zenon
  <2>5. Waits(u)
    BY <1>6, <2>4, ActorWaits, Zenon
  <2> QED BY <1>2, <1>3, <1>8, <1>10, <2>5, Zenon DEF Outcome
<1>11. CASE SeatCount(Actionable(u)) <= 1
  <2>1. v \in TableState
    <3> PICK w : w = WithActionSets(u, {}, u.raise_allowed)
      OBVIOUS
    <3>1. w \in TableState
      <4>1. {} \in SUBSET Players /\ u.raise_allowed \in SUBSET Players
        BY <1>8, Zenon DEF TableState
      <4> QED BY <1>9, <4>1, ActionSetsInHand, ZenonT(30) DEF InHand
    <3>2. v = [w EXCEPT !.acting_seat = NoSeat]
      BY <1>8, ZenonT(30) DEF WithActionSets, TableState
    <3>3. NoSeat \in SeatValue
      BY DEF SeatValue
    <3>4. [w EXCEPT !.acting_seat = NoSeat] \in TableState
      BY <3>1, <3>3, ActorFields, SMTT(20)
    <3> QED BY <3>2, <3>4, Zenon
  <2>2. /\ v.occupant = u.occupant /\ v.stack = u.stack /\ v.status = u.status
        /\ v.street_commitment = u.street_commitment /\ v.current_bet = u.current_bet
        /\ v.street = u.street /\ v.dealer_seat = u.dealer_seat
        /\ v.hand_id = u.hand_id /\ v.pending_action = {} /\ v.acting_seat = NoSeat
    BY <1>8, ZenonT(30) DEF TableState
  <2>3. SameBets(u, v)
    BY <2>2 DEF SameBets
  <2>4. InHand(v) /\ BetIsHeld(v) /\ Actionable(v) = Actionable(u) /\ v.street = "preflop"
    BY <1>9, <2>1, <2>2, <2>3, SameBetsSame
  <2>6. ASSUME NEW s \in Actionable(v), v.street_commitment[s] # v.current_bet
        PROVE  Stuck(v)
    <3>1. s \in Seats /\ v.street_commitment[s] < v.current_bet
      <4>1. s \in Seats
        BY DEF Actionable
      <4>2. v.street_commitment[s] <= v.current_bet
        BY <2>4, <4>1, Zenon DEF InHand
      <4>3. v.street_commitment[s] \in Nat /\ v.current_bet \in Nat
        <5>1. v.street_commitment \in [Seats -> Nat] /\ v.current_bet \in Nat
          BY <2>1, Zenon DEF TableState
        <5> QED BY <4>1, <5>1, SMTT(20)
      <4> QED BY <2>6, <4>1, <4>2, <4>3
    <3>2. \A q \in Actionable(v) : q = s
      <4> SUFFICES ASSUME NEW q \in Actionable(v), q # s PROVE FALSE
        OBVIOUS
      <4>1. q \in Seats
        BY DEF Actionable
      <4>2. SeatCount(Actionable(v)) > 1
        BY <3>1, <4>1, SeatCountTwo
      <4> QED BY <1>11, <2>4, <4>2, SeatCountType
    <3>3. Actionable(v) = {s}
      BY <3>2
    <3> QED BY <2>2, <2>4, <3>1, <3>3, Zenon DEF Stuck, Stranded
  <2>7. RunsOut(v) \/ Outcome(v)
    <3>1. CASE \A s \in Actionable(v) : v.street_commitment[s] = v.current_bet
      BY <2>2, <2>4, <3>1, Zenon DEF RunsOut, Betting, OthersMatched
    <3> QED BY <2>6, <3>1 DEF Outcome
  <2>8. DealHand(t) = AdvanceUntilActionOrSettlement(v)
    BY <1>2, <1>11, SMTT(20)
  <2>9. Advanced(v)
    <3>1. v.acting_seat = NoSeat /\ v.street # "showdown" /\ HandIsRunning(v)
      BY <2>2, <2>4 DEF HandIsRunning
    <3> QED BY <2>4, <3>1, Zenon DEF Advanced, AtRest, InHand, AwardsHeld
  <2>10. Follows(v, DealHand(t)) /\ Outcome(DealHand(t))
    BY <2>7, <2>8, <2>9, LoopFollows, LoopOutcome, SMTT(20)
  <2> QED BY <1>3, <1>8, <2>2, <2>10, Zenon DEF Follows
<1> QED BY <1>10, <1>11

\* startHand leaves the round in order.
LEMMA StartHandRound ==
  ASSUME IInv, StartHand
  PROVE  Goes(table') /\ Reopens(table, table') /\ Closes(table, table')
<1>1. table \in TableState /\ Distinct(table) /\ ~HandIsRunning(table)
  BY DEF IInv, AtRest, StartHand
<1>2. SeatCount(ReadySeats(table)) > 0
  BY SeatCountType, ConfigAssumption DEF StartHand
<1> PICK dealt : dealt = DealHand(table)
  OBVIOUS
<1>3. Advanced(dealt) /\ Outcome(dealt) /\ dealt.hand_id = table.hand_id + 1
  BY <1>1, <1>2, DealHandAdvanced, DealHandOutcome
<1>4. /\ Follows(dealt, table')
      /\ table'.street = "settled" \/ Waits(table') \/ Stuck(table')
  BY <1>3, SettlementFollows DEF StartHand
<1>5. Goes(table')
  BY <1>4 DEF Goes, HandIsRunning
<1>6. table'.hand_id # table.hand_id
  <2>1. table.hand_id \in Nat
    BY <1>1 DEF TableState
  <2> QED BY <1>3, <1>4, <2>1 DEF Follows
<1> QED BY <1>1, <1>5, <1>6, Zenon DEF Reopens, Closes

\* A step that touches neither the street nor the right to raise.
LEMMA QuietRound ==
  ASSUME table'.street = table.street, table'.raise_allowed = table.raise_allowed
  PROVE  Reopens(table, table') /\ Closes(table, table')
BY Zenon DEF Reopens, Closes

\* So does seatPlayer.
LEMMA SitRound ==
  ASSUME IInv, Sit
  PROVE  Goes(table') /\ Reopens(table, table') /\ Closes(table, table')
<1>1. PICK p \in Players, s \in Seats, buy_in \in MinBuyIn .. MaxBuyIn : SeatPlayer(p, s, buy_in)
  BY DEF Sit
<1>2. table'.street = table.street /\ table'.raise_allowed = table.raise_allowed
  BY <1>1 DEF SeatPlayer, IInv, AtRest, TableState
<1>3. ~HandIsRunning(table')
  BY <1>1, <1>2 DEF SeatPlayer, HandIsRunning
<1> QED BY <1>2, <1>3, QuietRound, Zenon DEF Goes

\* removePlayer during a hand takes a seat that is not in it.
LEMMA RemoveRound ==
  ASSUME IInv, Goes(table), NEW s \in Seats, RemovePlayer(s)
  PROVE  Goes(table') /\ Reopens(table, table') /\ Closes(table, table')
<1> PICK t : t = table
  OBVIOUS
<1> PICK u : u = table'
  OBVIOUS
<1>1. t \in TableState
  BY SMTT(20) DEF IInv, AtRest
<1>2. /\ u \in TableState
      /\ u.street = t.street /\ u.acting_seat = t.acting_seat
      /\ u.current_bet = t.current_bet /\ u.pending_action = t.pending_action
  BY <1>1, RemovePlayerFields, Zenon
<1>3. u.raise_allowed = t.raise_allowed
  BY <1>1 DEF RemovePlayer, TableState
<1>4. AtRest(u)
  <2>1. IInv'
    BY RemovePlayerInductive, SMTT(20)
  <2> QED BY <2>1, Zenon DEF IInv, AtRest, InHand, Distinct, HandIsRunning, MayAct, CanAct, Occupied
<1>5. ASSUME HandIsRunning(u) PROVE Waits(u) \/ Stuck(u)
  <2>1. (Waits(t) \/ Stuck(t)) /\ t.status[s] = "waiting"
    BY <1>2, <1>5, SMTT(20) DEF Goes, HandIsRunning, RemovePlayer
  <2>2. /\ u.occupant = [t.occupant EXCEPT ![s] = NoPlayer]
        /\ u.stack = [t.stack EXCEPT ![s] = 0]
        /\ u.street_commitment = [t.street_commitment EXCEPT ![s] = 0]
        /\ u.status = [t.status EXCEPT ![s] = "waiting"]
    BY <1>1, RemovePlayerFields, SMTT(20)
  <2>3. \A q \in Seats :
          /\ q # s => /\ u.occupant[q] = t.occupant[q] /\ u.stack[q] = t.stack[q]
                      /\ u.street_commitment[q] = t.street_commitment[q]
          /\ u.status[q] = t.status[q]
    BY <2>1, <2>2, SMTT(20)
  <2>4. Actionable(u) = Actionable(t) /\ s \notin Actionable(t)
    BY <2>1, <2>3 DEF Actionable, CanAct, Occupied
  <2>5. InHand(u)
    BY <1>4, <1>5 DEF AtRest
  <2>6. BetIsHeld(u)
    <3>1. BetIsHeld(t)
      BY <2>1, Zenon DEF Waits, Stuck, Betting
    <3> QED BY <1>2, <2>1, <2>3, <3>1 DEF BetIsHeld
  <2>7. \A q \in Actionable(t) : /\ q \in Seats /\ u.occupant[q] = t.occupant[q]
                                 /\ u.street_commitment[q] = t.street_commitment[q]
    BY <2>3, <2>4, Zenon DEF Actionable
  <2>8. CASE Waits(t)
    <3>1. Betting(u)
      BY <1>2, <2>4, <2>5, <2>6, <2>7, <2>8, SMTT(20) DEF Betting, OthersMatched, Waits
    <3> QED BY <1>2, <1>4, <2>8, <3>1, SMTT(20) DEF Waits, AtRest
  <2>9. CASE Stuck(t)
    BY <1>2, <2>4, <2>5, <2>6, <2>7, <2>9, Zenon DEF Stuck, Stranded
  <2> QED BY <2>1, <2>8, <2>9, ZenonT(30)
<1>6. Goes(u)
  BY <1>5 DEF Goes
<1> QED BY <1>2, <1>3, <1>6, QuietRound, Zenon

\* So do removePlayer, setReady and setConnected.
LEMMA RosterRound ==
  ASSUME IInv, Goes(table), Roster
  PROVE  Goes(table') /\ Reopens(table, table') /\ Closes(table, table')
<1>1. PICK s \in Seats :
         \/ RemovePlayer(s)
         \/ \E ready \in BOOLEAN : SetReady(s, ready)
         \/ \E connected \in BOOLEAN : SetConnected(s, connected)
  BY DEF Roster
<1>2. table \in TableState
  BY DEF IInv, AtRest
<1>3. CASE \E ready \in BOOLEAN : SetReady(s, ready)
  <2>1. table'.street = table.street /\ table'.raise_allowed = table.raise_allowed
    BY <1>2, <1>3 DEF SetReady, TableState
  <2>2. ~HandIsRunning(table')
    BY <1>3, <2>1 DEF SetReady, HandIsRunning
  <2> QED BY <2>1, <2>2, QuietRound DEF Goes
<1>4. CASE \E connected \in BOOLEAN : SetConnected(s, connected)
  <2> PICK t : t = table
    OBVIOUS
  <2> PICK u : u = table'
    OBVIOUS
  <2>1. /\ u.occupant = t.occupant /\ u.stack = t.stack /\ u.status = t.status
        /\ u.street_commitment = t.street_commitment /\ u.current_bet = t.current_bet
        /\ u.street = t.street /\ u.dealer_seat = t.dealer_seat
        /\ u.pending_action = t.pending_action /\ u.raise_allowed = t.raise_allowed
        /\ u.acting_seat = t.acting_seat
    BY <1>2, <1>4 DEF SetConnected, TableState
  <2>2. u \in TableState
    <3>1. IInv'
      BY RosterInductive
    <3> QED BY <3>1, Zenon DEF IInv, AtRest
  <2>3. SameBets(t, u)
    BY <2>1, Zenon DEF SameBets
  <2>4. /\ Actionable(u) = Actionable(t) /\ (InHand(t) => InHand(u))
        /\ (BetIsHeld(t) => BetIsHeld(u))
    BY <2>2, <2>3, SameBetsSame, SMTT(20)
  <2>5. Betting(t) => Betting(u)
    BY <2>1, <2>4 DEF Betting, OthersMatched
  <2>6. Waits(t) => Waits(u)
    BY <2>1, <2>5, SMTT(20) DEF Waits, MayAct, CanAct, Occupied, HandIsRunning
  <2>7. Stuck(t) => Stuck(u)
    BY <2>1, <2>4, Zenon DEF Stuck, Stranded
  <2>8. Goes(u)
    BY <2>1, <2>6, <2>7, Zenon DEF Goes, HandIsRunning
  <2> QED BY <2>1, <2>8, QuietRound
<1> QED BY <1>1, <1>3, <1>4, RemoveRound, Zenon

\* So does rolling a hand back.
LEMMA RollBackRound ==
  ASSUME IInv, RollBackHand
  PROVE  Goes(table') /\ Reopens(table, table') /\ Closes(table, table')
<1>1. table'.street = "waiting" /\ table'.raise_allowed = {}
  BY DEF RollBackHand, AbortHand, AbortedTable, IInv, AtRest, TableState
<1> QED BY <1>1, Zenon DEF Goes, HandIsRunning, Reopens, Closes

-----------------------------------------------------------------------------

\* The invariant of the betting round: IInv, and a running hand waits for its
\* actor with every bet in order, or the blinds have left it without one.
RoundInv == IInv /\ Goes(table)

\* Every operation preserves it, and reopens and closes rounds as it should.
LEMMA NextRound ==
  ASSUME RoundInv, [Next]_vars
  PROVE  RoundInv' /\ Reopens(table, table') /\ Closes(table, table')
<1>1. IInv /\ Goes(table)
  BY DEF RoundInv
<1>2. ASSUME UNCHANGED vars
      PROVE  Goes(table') /\ Reopens(table, table') /\ Closes(table, table')
  <2>1. table' = table
    BY <1>2 DEF vars
  <2>2. Reopens(table, table') /\ Closes(table, table')
    BY <2>1, QuietRound
  <2> QED BY <1>1, <2>1, <2>2
<1>3. Goes(table') /\ Reopens(table, table') /\ Closes(table, table')
  <2>1. CASE Sit
    BY <1>1, <2>1, SitRound
  <2>2. CASE Roster
    BY <1>1, <2>2, RosterRound
  <2>3. CASE StartHand
    BY <1>1, <2>3, StartHandRound
  <2>4. CASE Act
    BY <1>1, <2>4, ActRound
  <2>5. CASE RollBackHand
    BY <1>1, <2>5, RollBackRound
  <2> QED BY <1>2, <2>1, <2>2, <2>3, <2>4, <2>5, Zenon DEF Next
<1>4. IInv'
  BY <1>1, NextIInv, SMTT(20)
<1>5. Goes(table)'
  BY <1>3, Zenon DEF Goes, HandIsRunning, Waits, Stuck, Stranded, Betting, OthersMatched, BetIsHeld,
              InHand, Distinct, MayAct, CanAct, Occupied, Actionable
<1> QED BY <1>3, <1>4, <1>5 DEF RoundInv

\* RoundInv is an invariant of the table.
LEMMA RoundInductive == Spec => []RoundInv
<1>1. Init => RoundInv
  <2>1. ASSUME Init PROVE Goes(table)
    BY <2>1, Zenon DEF Init, EmptyTable, Goes, HandIsRunning
  <2> QED BY <2>1, InitIInv, SMTT(20) DEF RoundInv
<1>2. RoundInv /\ [Next]_vars => RoundInv'
  BY NextRound, SMTT(20)
<1> QED BY <1>1, <1>2, PTL DEF Spec

\* For every configuration and any number of players: current_bet_ is the largest
\* commitment of the street, somebody has made it, and whoever can act and is not
\* asked any more has matched it.
THEOREM BetsAlwaysMatched == Spec => []BetsMatched
<1>1. RoundInv => BetsMatched
  <2> SUFFICES ASSUME RoundInv, HandIsRunning(table) PROVE BetsMatched
    BY Zenon DEF BetsMatched
  <2>1. Waits(table) \/ Stuck(table)
    BY DEF RoundInv, Goes
  <2>2. InHand(table) /\ BetIsHeld(table)
    BY <2>1 DEF Waits, Stuck, Betting
  <2>3. \A s \in Seats : table.street_commitment[s] <= table.current_bet
    BY <2>2, Zenon DEF InHand
  <2>4. \E s \in Seats : table.street_commitment[s] = table.current_bet
    BY <2>2, Zenon DEF BetIsHeld
  <2>5. \A s \in Actionable(table) :
          \/ table.occupant[s] \in table.pending_action
          \/ table.street_commitment[s] = table.current_bet
          \/ table.acting_seat = NoSeat
    BY <2>1, Zenon DEF Waits, Stuck, Betting, OthersMatched
  <2> QED BY <2>3, <2>4, <2>5, Zenon DEF BetsMatched
<1> QED BY <1>1, RoundInductive, PTL

\* For every such table: a running hand that waits for nobody was left so by the
\* blinds of startHand; no command, leave or reconnection loses the turn.
THEOREM OnlyBlindsEverStrand == Spec => []OnlyBlindsStrand
<1>1. RoundInv => OnlyBlindsStrand
  BY DEF RoundInv, Goes, OnlyBlindsStrand, Waits, Stuck
<1> QED BY <1>1, RoundInductive, PTL

\* For every such table: the right to raise comes back only with a new street or
\* hand, or when somebody else makes a full raise; a short all-in never reopens it.
THEOREM ShortAllInNeverReopens == Spec => RaiseReopens
<1> DEFINE Step == \A p \in table'.raise_allowed \ table.raise_allowed :
                     \/ table'.street # table.street \/ table'.hand_id # table.hand_id
                     \/ /\ table'.current_bet - table.current_bet >= table.minimum_raise
                        /\ p # table.occupant[table.acting_seat]
<1>1. RoundInv /\ [Next]_vars => [Step]_vars
  BY NextRound, Zenon DEF Reopens
<1> QED BY <1>1, RoundInductive, PTL DEF Spec, RaiseReopens

\* For every such table: a betting round ends with several players in the hand only
\* once everybody who can act, the player just acting aside, has answered the bet.
THEOREM RoundsCloseFairly == Spec => RoundClosesFairly
<1> DEFINE Step == (/\ HandIsRunning(table) /\ table'.street \notin {table.street, "waiting"}
                    /\ SeatCount(Contenders(table')) > 1) =>
                     \A s \in Actionable(table) \ {table.acting_seat} :
                        /\ table.occupant[s] \notin table.pending_action
                        /\ table.street_commitment[s] = table.current_bet
<1>1. RoundInv /\ [Next]_vars => [Step]_vars
  BY NextRound, Zenon DEF Closes
<1> QED BY <1>1, RoundInductive, PTL DEF Spec, RoundClosesFairly
=============================================================================
