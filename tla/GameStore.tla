----------------------------- MODULE GameStore -----------------------------
(***************************************************************************)
(* The store of wallets, seats and hands as its simplest implementation,   *)
(* InMemoryGameStore (src/src/poker/storage/in_memory_game_store.cpp),     *)
(* keeps it: every call runs under one mutex, so every call is one step.   *)
(* MySqlGameStore is shown to implement this specification.                *)
(*                                                                         *)
(* A call that is refused, or that replays an idempotency key already in   *)
(* the ledger, changes nothing, so only calls that take effect are steps.  *)
(* Names, cards, streets and node ids are left out of the records.  The    *)
(* hand and settlement records name players by user; their seat numbers    *)
(* are those of the table's seats.                                         *)
(***************************************************************************)
EXTENDS Integers, FiniteSets, FiniteSetsExt

CONSTANTS
  Tables, Users, Keys,    \* table ids, user ids, idempotency keys
  HandNumbers,            \* hand numbers within a table
  ActionRows,             \* the HandActionRecords that callers may append
  MaxPlayers, MinBuyIn, MaxBuyIn, InitialBalance,
  None                    \* no seat, no ledger entry

\* persistentHandId packs the table id and the hand number into one integer.
Hands == Tables \X HandNumbers

VARIABLES
  wallets,      \* user -> balance
  tables,       \* table -> its StoredTable
  ledger,       \* <<user, key>> -> the LedgerResult of the call with that key
  hand_starts,  \* the hands begun
  settlements,  \* the hands settled
  actions       \* the HandActionRecords appended

vars == <<wallets, tables, ledger, hand_starts, settlements, actions>>

NewTable ==
  [state |-> "open", hand_in_progress |-> FALSE, seats |-> [u \in Users |-> None]]

Seated(t) == {u \in Users : tables[t].seats[u] # None}

SumOf(f) == MapThenSumSet(LAMBDA u : f[u], DOMAIN f)

\* A settlement gives every player's stack before and after the hand.  The
\* equations of validHandSettlement (end = start - committed + winnings, and
\* the commitments and the winnings both add up to the pot) have a solution
\* exactly when the stacks add up to the same total before and after.
ValidHandSettlement(start, end) ==
  /\ Cardinality(DOMAIN start) >= 2
  /\ SumOf(start) = SumOf(end)

-----------------------------------------------------------------------------

Init ==
  /\ wallets = [u \in Users |-> InitialBalance]
  /\ tables = [t \in Tables |-> [NewTable EXCEPT !.state = "absent"]]
  /\ ledger = [e \in Users \X Keys |-> None]
  /\ hand_starts = {}
  /\ settlements = {}
  /\ actions = {}

CreateTable(t) ==
  /\ tables[t].state = "absent"
  /\ tables' = [tables EXCEPT ![t] = NewTable]
  /\ UNCHANGED <<wallets, ledger, hand_starts, settlements, actions>>

ReserveBuyIn(t, u, seat, amount, key) ==
  /\ ledger[<<u, key>>] = None
  /\ tables[t].state = "open"
  /\ ~tables[t].hand_in_progress
  /\ seat \in 0 .. MaxPlayers - 1
  /\ amount \in MinBuyIn .. MaxBuyIn
  /\ u \notin Seated(t)
  /\ \A v \in Seated(t) : tables[t].seats[v].seat # seat
  /\ wallets[u] >= amount
  /\ wallets' = [wallets EXCEPT ![u] = @ - amount]
  /\ tables' = [tables EXCEPT ![t].seats[u] = [seat |-> seat, stack |-> amount]]
  /\ ledger' = [ledger EXCEPT ![<<u, key>>] =
                  [kind |-> "buy_in", table |-> t, balance |-> wallets[u] - amount, chips |-> amount]]
  /\ UNCHANGED <<hand_starts, settlements, actions>>

CashOut(t, u, key) ==
  /\ ledger[<<u, key>>] = None
  /\ tables[t].state # "absent"
  /\ ~tables[t].hand_in_progress
  /\ u \in Seated(t)
  /\ LET chips == tables[t].seats[u].stack
     IN /\ wallets' = [wallets EXCEPT ![u] = @ + chips]
        /\ tables' = [tables EXCEPT ![t].seats[u] = None]
        /\ ledger' = [ledger EXCEPT ![<<u, key>>] =
                        [kind |-> "cash_out", table |-> t, balance |-> wallets[u] + chips, chips |-> chips]]
  /\ UNCHANGED <<hand_starts, settlements, actions>>

\* start is the stack of every player dealt in.
BeginHand(h, start) ==
  LET t == h[1] IN
  /\ Cardinality(DOMAIN start) >= 2
  /\ h \notin hand_starts
  /\ tables[t].state = "open"
  /\ ~tables[t].hand_in_progress
  /\ \A u \in DOMAIN start : u \in Seated(t) /\ tables[t].seats[u].stack = start[u]
  /\ hand_starts' = hand_starts \cup {h}
  /\ tables' = [tables EXCEPT ![t].hand_in_progress = TRUE]
  /\ UNCHANGED <<wallets, ledger, settlements, actions>>

\* Two rows of a hand differ in their sequence and in their <<user, request>>.
Clash(row, other) ==
  /\ row.hand = other.hand
  /\ \/ row.sequence = other.sequence
     \/ row.user = other.user /\ row.request = other.request

AppendAction(row) ==
  /\ row.hand \in hand_starts
  /\ row.hand \notin settlements
  /\ \A other \in actions : ~Clash(row, other)
  /\ actions' = actions \cup {row}
  /\ UNCHANGED <<wallets, tables, ledger, hand_starts, settlements>>

SettleHand(h, start, end) ==
  LET t == h[1] IN
  /\ h \in hand_starts \ settlements
  /\ tables[t].state = "open"
  /\ tables[t].hand_in_progress
  /\ \A u \in DOMAIN start : u \in Seated(t) /\ tables[t].seats[u].stack = start[u]
  /\ ValidHandSettlement(start, end)
  /\ LET seats == tables[t].seats
         settled == [u \in Users |-> IF u \in DOMAIN end THEN [seats[u] EXCEPT !.stack = end[u]]
                                     ELSE seats[u]]
     IN tables' = [tables EXCEPT ![t] =
                     [state |-> "open", hand_in_progress |-> FALSE, seats |-> settled]]
  /\ settlements' = settlements \cup {h}
  /\ UNCHANGED <<wallets, ledger, hand_starts, actions>>

AbortTableAndRefund(t) ==
  /\ tables[t].state = "open"
  /\ wallets' = [u \in Users |-> wallets[u] + (IF u \in Seated(t) THEN tables[t].seats[u].stack ELSE 0)]
  /\ tables' = [tables EXCEPT ![t] = [NewTable EXCEPT !.state = "aborted"]]
  /\ UNCHANGED <<ledger, hand_starts, settlements, actions>>

Chips == 0 .. InitialBalance * Cardinality(Users)

\* What a caller has to report of a hand's players: with other stacks it is refused.
Stacks(t, players) == [u \in players |-> tables[t].seats[u].stack]

Next ==
  \/ \E t \in Tables : CreateTable(t) \/ AbortTableAndRefund(t)
  \/ \E t \in Tables, u \in Users, seat \in 0 .. MaxPlayers - 1, amount \in MinBuyIn .. MaxBuyIn, key \in Keys :
       ReserveBuyIn(t, u, seat, amount, key)
  \/ \E t \in Tables, u \in Users, key \in Keys : CashOut(t, u, key)
  \/ \E h \in Hands \ hand_starts : \E players \in SUBSET Seated(h[1]) :
       BeginHand(h, Stacks(h[1], players))
  \/ \E row \in ActionRows : AppendAction(row)
  \/ \E h \in hand_starts \ settlements : \E players \in SUBSET Seated(h[1]) :
       \E end \in [players -> Chips] : SettleHand(h, Stacks(h[1], players), end)

Spec == Init /\ [][Next]_vars
=============================================================================
