--------------------------- MODULE MySqlGameStore ---------------------------
(***************************************************************************)
(* The store kept in MySQL (src/src/poker/infrastructure/                  *)
(* mysql_game_store.cpp).  The variables are the tables of the schema.     *)
(*                                                                         *)
(* A transaction locks the poker_tables row and the wallet rows it reads   *)
(* with FOR UPDATE before it writes, so it is one step.  reserveBuyIn and  *)
(* cashOut look their idempotency key up before the transaction begins,    *)
(* and again after a rollback, in statements of their own: they are        *)
(* sequences of steps of a Caller, a storage thread of some server.        *)
(* Any call may fail, which rolls back; and the reply to a COMMIT may be   *)
(* lost, in which case the caller is told of a failure although the        *)
(* transaction took effect.                                                *)
(***************************************************************************)
EXTENDS Integers, FiniteSets, FiniteSetsExt

CONSTANTS
  Tables, Users, Keys, HandNumbers, ActionRows,
  MaxPlayers, MinBuyIn, MaxBuyIn, InitialBalance, None,
  SeatNos, Amounts,   \* the seats and buy-ins that callers ask for
  Callers,            \* the storage threads of the servers
  Loads               \* the bounds a behaviour may have: callers at once, keys, hands,
                      \* seats asked for, whether actions are logged

Hands == Tables \X HandNumbers

\* The key CONCAT('crash:', table, ':', user) of a refund.
Crash(t) == <<"crash", t>>
LedgerKeys == Keys \cup {Crash(t) : t \in Tables}

TableStatus == {"waiting", "playing", "aborted"}
HandStatus == {"playing", "settled", "aborted"}
SeatRow == [seat_no : Nat, stack : Nat, hand_start_stack : Nat]
LedgerRows ==
  [reason : {"table_buy_in", "table_cash_out", "crash_refund"}, reference : Tables,
   delta : Int, balance_after : Int]

\* The keys that callers make begin with "buy:", "cash:" and "rollback:".
ASSUME StoreAssumption ==
  /\ MaxPlayers \in Nat /\ MinBuyIn \in Nat \ {0} /\ MaxBuyIn \in Nat
  /\ InitialBalance \in Nat
  /\ SeatNos \subseteq Nat /\ Amounts \subseteq Nat \ {0}
  /\ IsFiniteSet(Users) /\ IsFiniteSet(Tables) /\ IsFiniteSet(Keys)
  /\ \A t \in Tables : Crash(t) \notin Keys
  /\ \A row \in ActionRows : row.hand \in Hands

ASSUME NoneAssumption ==
  /\ None \notin Nat /\ None \notin TableStatus \cup HandStatus
  /\ None \notin SeatRow /\ None \notin LedgerRows /\ None \notin [seat : Nat, stack : Nat]

VARIABLES
  wallets,        \* user -> balance
  poker_tables,   \* table -> status, or None when there is no row
  table_seats,    \* table -> user -> row, or None
  hands,          \* hand -> status, or None
  hand_players,   \* hand -> user -> start_stack, or None
  hand_actions,   \* the rows of every hand's action log
  wallet_ledger,  \* <<user, key>> -> row, or None
  calls,          \* caller -> the call it is executing, or None
  receipts,       \* <<user, key>> -> every receipt handed to a caller
  load            \* the one of Loads that bounds this behaviour

db == <<wallets, poker_tables, table_seats, hands, hand_players, hand_actions, wallet_ledger>>
vars == <<wallets, poker_tables, table_seats, hands, hand_players, hand_actions,
          wallet_ledger, calls, receipts>>

Seated(t) == {u \in Users : table_seats[t][u] # None}

SumOf(f) == MapThenSumSet(LAMBDA u : f[u], DOMAIN f)

\* Fault: the settled stacks need not add up to the stacks the hand began with.
ValidHandSettlement_AnyTotal(start, end) == Cardinality(DOMAIN start) >= 2

ValidHandSettlement(start, end) ==
  /\ Cardinality(DOMAIN start) >= 2
  /\ SumOf(start) = SumOf(end)

LedgerRow(reason, t, delta, balance_after) ==
  [reason |-> reason, reference |-> t, delta |-> delta, balance_after |-> balance_after]

-----------------------------------------------------------------------------

Init ==
  /\ load \in Loads
  /\ wallets = [u \in Users |-> InitialBalance]
  /\ poker_tables = [t \in Tables |-> None]
  /\ table_seats = [t \in Tables |-> [u \in Users |-> None]]
  /\ hands = [h \in Hands |-> None]
  /\ hand_players = [h \in Hands |-> [u \in Users |-> None]]
  /\ hand_actions = {}
  /\ wallet_ledger = [e \in Users \X LedgerKeys |-> None]
  /\ calls = [c \in Callers |-> None]
  /\ receipts = [e \in Users \X Keys |-> {}]

CreateTable(t) ==
  /\ poker_tables[t] = None
  /\ poker_tables' = [poker_tables EXCEPT ![t] = "waiting"]
  /\ UNCHANGED <<wallets, table_seats, hands, hand_players, hand_actions, wallet_ledger, calls, receipts>>

(* reserveBuyIn and cashOut                                                *)

\* replayBuyIn and replayCashOut: what the ledger row of the call's key says.
Replays(call, row) ==
  /\ row.reference = call.table
  /\ \/ /\ call.op = "table_buy_in"
        /\ row.reason = "table_buy_in"
        /\ row.delta < 0 /\ -row.delta = call.amount
     \/ /\ call.op = "table_cash_out"
        /\ row.reason = "table_cash_out"
        /\ row.delta >= 0

Receipt(row) == [balance |-> row.balance_after, chips |-> row.delta]

\* The call returns; an error hands out no receipt.
Return(c, issued) ==
  /\ calls' = [calls EXCEPT ![c] = None]
  /\ receipts' = [receipts EXCEPT ![<<calls[c].user, calls[c].key>>] = @ \cup issued]

\* The lookup before the transaction.  A replayed buy-in is refused unless the
\* player still sits where the call asks.  queryLedger does not tell a failed
\* statement from a missing row, so the transaction may begin in any case.
Lookup(c, call) ==
  LET row == wallet_ledger[<<call.user, call.key>>]
      seat == table_seats[call.table][call.user]
      replayed == /\ Replays(call, row)
                  /\ call.op = "table_buy_in" => seat # None /\ seat.seat_no = call.seat
  IN /\ calls[c] = None
     /\ \/ /\ calls' = [calls EXCEPT ![c] = call]
           /\ UNCHANGED receipts
        \/ /\ row # None /\ replayed
           /\ receipts' = [receipts EXCEPT ![<<call.user, call.key>>] = @ \cup {Receipt(row)}]
           /\ UNCHANGED calls
     /\ UNCHANGED db

\* A ledger row whose key is taken is refused by uq_wallet_idempotency.
KeyIsFree(call) == wallet_ledger[<<call.user, call.key>>] = None

SeatIsFree(call) ==
  /\ call.user \notin Seated(call.table)
  /\ \A v \in Seated(call.table) : table_seats[call.table][v].seat_no # call.seat

\* Fault: a seat is sold whatever the status of its table.
BuyInCommits_AnyStatus(c) ==
  LET call == calls[c]
      row == LedgerRow("table_buy_in", call.table, -call.amount, wallets[call.user] - call.amount)
  IN /\ call # None /\ call.op = "table_buy_in" /\ call.stage = "transaction"
     /\ poker_tables[call.table] # None
     /\ call.seat < MaxPlayers
     /\ MinBuyIn <= call.amount /\ call.amount <= MaxBuyIn
     /\ wallets[call.user] >= call.amount
     /\ SeatIsFree(call)
     /\ KeyIsFree(call)
     /\ table_seats' = [table_seats EXCEPT ![call.table][call.user] =
                          [seat_no |-> call.seat, stack |-> call.amount, hand_start_stack |-> call.amount]]
     /\ wallets' = [wallets EXCEPT ![call.user] = @ - call.amount]
     /\ wallet_ledger' = [wallet_ledger EXCEPT ![<<call.user, call.key>>] = row]
     /\ \E issued \in {{Receipt(row)}, {}} : Return(c, issued)
     /\ UNCHANGED <<poker_tables, hands, hand_players, hand_actions>>

\* The transaction of reserveBuyIn, up to a COMMIT whose reply may be lost.
BuyInCommits(c) ==
  LET call == calls[c]
      row == LedgerRow("table_buy_in", call.table, -call.amount, wallets[call.user] - call.amount)
  IN /\ call # None /\ call.op = "table_buy_in" /\ call.stage = "transaction"
     /\ poker_tables[call.table] = "waiting"
     /\ call.seat < MaxPlayers
     /\ MinBuyIn <= call.amount /\ call.amount <= MaxBuyIn
     /\ wallets[call.user] >= call.amount
     /\ SeatIsFree(call)
     /\ KeyIsFree(call)
     /\ table_seats' = [table_seats EXCEPT ![call.table][call.user] =
                          [seat_no |-> call.seat, stack |-> call.amount, hand_start_stack |-> call.amount]]
     /\ wallets' = [wallets EXCEPT ![call.user] = @ - call.amount]
     /\ wallet_ledger' = [wallet_ledger EXCEPT ![<<call.user, call.key>>] = row]
     /\ \E issued \in {{Receipt(row)}, {}} : Return(c, issued)
     /\ UNCHANGED <<poker_tables, hands, hand_players, hand_actions>>

\* Fault: a seat is cashed out whatever the status of its table.
CashOutCommits_AnyStatus(c) ==
  LET call == calls[c]
      stack == table_seats[call.table][call.user].stack
      row == LedgerRow("table_cash_out", call.table, stack, wallets[call.user] + stack)
  IN /\ call # None /\ call.op = "table_cash_out" /\ call.stage = "transaction"
     /\ call.user \in Seated(call.table)
     /\ KeyIsFree(call)
     /\ wallets' = [wallets EXCEPT ![call.user] = @ + stack]
     /\ table_seats' = [table_seats EXCEPT ![call.table][call.user] = None]
     /\ wallet_ledger' = [wallet_ledger EXCEPT ![<<call.user, call.key>>] = row]
     /\ \E issued \in {{Receipt(row)}, {}} : Return(c, issued)
     /\ UNCHANGED <<poker_tables, hands, hand_players, hand_actions>>

\* The transaction of cashOut.
CashOutCommits(c) ==
  LET call == calls[c]
      stack == table_seats[call.table][call.user].stack
      row == LedgerRow("table_cash_out", call.table, stack, wallets[call.user] + stack)
  IN /\ call # None /\ call.op = "table_cash_out" /\ call.stage = "transaction"
     /\ poker_tables[call.table] = "waiting"
     /\ call.user \in Seated(call.table)
     /\ KeyIsFree(call)
     /\ wallets' = [wallets EXCEPT ![call.user] = @ + stack]
     /\ table_seats' = [table_seats EXCEPT ![call.table][call.user] = None]
     /\ wallet_ledger' = [wallet_ledger EXCEPT ![<<call.user, call.key>>] = row]
     /\ \E issued \in {{Receipt(row)}, {}} : Return(c, issued)
     /\ UNCHANGED <<poker_tables, hands, hand_players, hand_actions>>

\* A seat that cannot be inserted, or that is gone, rolls back and then looks
\* the key up once more: another call may have committed it meanwhile.
RollsBack(c) ==
  LET call == calls[c] IN
  /\ call # None /\ call.stage = "transaction"
  /\ poker_tables[call.table] = "waiting"
  /\ IF call.op = "table_buy_in"
     THEN /\ call.seat < MaxPlayers /\ MinBuyIn <= call.amount /\ call.amount <= MaxBuyIn
          /\ wallets[call.user] >= call.amount
          /\ ~SeatIsFree(call)
     ELSE call.user \notin Seated(call.table)
  /\ calls' = [calls EXCEPT ![c].stage = "replay"]
  /\ UNCHANGED <<db, receipts>>

\* Fault: the replay reports the balance of the wallet, not that of the row.
ReplayAfterRollback_FreshBalance(c) ==
  LET call == calls[c]
      row == wallet_ledger[<<call.user, call.key>>]
  IN /\ call # None /\ call.stage = "replay"
     /\ row # None /\ Replays(call, row)
     /\ Return(c, {[balance |-> wallets[call.user], chips |-> row.delta]})
     /\ UNCHANGED db

ReplayAfterRollback(c) ==
  LET call == calls[c]
      row == wallet_ledger[<<call.user, call.key>>]
  IN /\ call # None /\ call.stage = "replay"
     /\ row # None /\ Replays(call, row)
     /\ Return(c, {Receipt(row)})
     /\ UNCHANGED db

\* Any other way out: a rule of the table is broken, the balance is short, the
\* key belongs to another operation, or a statement fails.
CallFails(c) ==
  /\ calls[c] # None
  /\ Return(c, {})
  /\ UNCHANGED db

(* Hands                                                                   *)

BeginHand(h, start) ==
  LET t == h[1] IN
  /\ Cardinality(DOMAIN start) >= 2
  /\ poker_tables[t] = "waiting"
  /\ hands[h] = None
  /\ \A u \in DOMAIN start : u \in Seated(t) /\ table_seats[t][u].stack = start[u]
  /\ hands' = [hands EXCEPT ![h] = "playing"]
  /\ hand_players' = [hand_players EXCEPT ![h] =
                        [u \in Users |-> IF u \in DOMAIN start THEN start[u] ELSE None]]
  /\ table_seats' = [table_seats EXCEPT ![t] =
                       [u \in Users |-> IF u \in DOMAIN start
                                        THEN [@[u] EXCEPT !.hand_start_stack = start[u]] ELSE @[u]]]
  /\ poker_tables' = [poker_tables EXCEPT ![t] = "playing"]
  /\ UNCHANGED <<wallets, hand_actions, wallet_ledger, calls, receipts>>

\* The primary key and uq_hand_request of hand_actions.
Clash(row, other) ==
  /\ row.hand = other.hand
  /\ \/ row.sequence = other.sequence
     \/ row.user = other.user /\ row.request = other.request

\* Fault: the insert does not ask for a hand that is being played.
AppendAction_AnyStatus(row) ==
  /\ hands[row.hand] # None
  /\ \A other \in hand_actions : ~Clash(row, other)
  /\ hand_actions' = hand_actions \cup {row}
  /\ UNCHANGED <<wallets, poker_tables, table_seats, hands, hand_players, wallet_ledger, calls, receipts>>

AppendAction(row) ==
  /\ hands[row.hand] = "playing"
  /\ \A other \in hand_actions : ~Clash(row, other)
  /\ hand_actions' = hand_actions \cup {row}
  /\ UNCHANGED <<wallets, poker_tables, table_seats, hands, hand_players, wallet_ledger, calls, receipts>>

SettleHand(h, start, end) ==
  LET t == h[1] IN
  /\ poker_tables[t] = "playing"
  /\ hands[h] = "playing"
  /\ \A u \in DOMAIN start :
       /\ hand_players[h][u] = start[u]
       /\ u \in Seated(t) /\ table_seats[t][u].hand_start_stack = start[u]
  /\ ValidHandSettlement(start, end)
  /\ hands' = [hands EXCEPT ![h] = "settled"]
  /\ table_seats' = [table_seats EXCEPT ![t] =
                       [u \in Users |-> IF u \in DOMAIN end
                                        THEN [@[u] EXCEPT !.stack = end[u], !.hand_start_stack = end[u]]
                                        ELSE @[u]]]
  /\ poker_tables' = [poker_tables EXCEPT ![t] = "waiting"]
  /\ UNCHANGED <<wallets, hand_players, hand_actions, wallet_ledger, calls, receipts>>

\* Fault: the refund is not entered in the ledger.
AbortTableAndRefund_NoLedger(t) ==
  /\ poker_tables[t] \in {"waiting", "playing"}
  /\ wallets' = [u \in Users |-> wallets[u] + (IF u \in Seated(t) THEN table_seats[t][u].stack ELSE 0)]
  /\ table_seats' = [table_seats EXCEPT ![t] = [u \in Users |-> None]]
  /\ hands' = [h \in Hands |-> IF h[1] = t /\ hands[h] = "playing" THEN "aborted" ELSE hands[h]]
  /\ poker_tables' = [poker_tables EXCEPT ![t] = "aborted"]
  /\ UNCHANGED <<hand_players, hand_actions, wallet_ledger, calls, receipts>>

AbortTableAndRefund(t) ==
  /\ poker_tables[t] \in {"waiting", "playing"}
  /\ wallets' = [u \in Users |-> wallets[u] + (IF u \in Seated(t) THEN table_seats[t][u].stack ELSE 0)]
  /\ wallet_ledger' = [e \in Users \X LedgerKeys |->
                         IF e[1] \in Seated(t) /\ e[2] = Crash(t)
                         THEN LedgerRow("crash_refund", t, table_seats[t][e[1]].stack, wallets'[e[1]])
                         ELSE wallet_ledger[e]]
  /\ table_seats' = [table_seats EXCEPT ![t] = [u \in Users |-> None]]
  /\ hands' = [h \in Hands |-> IF h[1] = t /\ hands[h] = "playing" THEN "aborted" ELSE hands[h]]
  /\ poker_tables' = [poker_tables EXCEPT ![t] = "aborted"]
  /\ UNCHANGED <<hand_players, hand_actions, calls, receipts>>

-----------------------------------------------------------------------------

Call ==
  [op : {"table_buy_in"}, table : Tables, user : Users, key : Keys, stage : {"transaction"},
   seat : SeatNos, amount : Amounts]
  \cup
  [op : {"table_cash_out"}, table : Tables, user : Users, key : Keys, stage : {"transaction"}]

Chips == 0 .. InitialBalance * Cardinality(Users)

\* What a caller has to report of a hand's players: with other stacks it is refused.
Stacks(t, players) == [u \in players |-> table_seats[t][u].stack]

\* Bounds.
UsedKeys ==
  {k \in Keys : \/ \E u \in Users : wallet_ledger[<<u, k>>] # None
                \/ \E c \in Callers : calls[c] # None /\ calls[c].key = k}
MayCall(call) ==
  /\ Cardinality({c \in Callers : calls[c] # None}) < load.callers
  /\ Cardinality(UsedKeys \cup {call.key}) <= load.keys
  /\ call.op = "table_buy_in" => call.seat \in load.seats
MayPlay(h) == h[2] <= load.hands

Next ==
  /\ \/ \E t \in Tables : CreateTable(t) \/ AbortTableAndRefund(t)
     \/ \E c \in Callers :
          \/ \E call \in Call : MayCall(call) /\ Lookup(c, call)
          \/ BuyInCommits(c)
          \/ CashOutCommits(c)
          \/ RollsBack(c)
          \/ ReplayAfterRollback(c)
          \/ CallFails(c)
     \/ \E h \in Hands : MayPlay(h) /\ \E players \in SUBSET Seated(h[1]) :
          BeginHand(h, Stacks(h[1], players))
     \/ \E row \in ActionRows : load.actions /\ AppendAction(row)
     \/ \E h \in Hands : MayPlay(h) /\ \E players \in SUBSET Seated(h[1]) :
          \E end \in [players -> Chips] : SettleHand(h, Stacks(h[1], players), end)
  /\ UNCHANGED load

Spec == Init /\ [][Next]_<<vars, load>>

-----------------------------------------------------------------------------
(* Properties                                                              *)

\* What each key has added to a user's wallet, and what each user has at a table.
Deltas(u) ==
  [k \in LedgerKeys |-> IF wallet_ledger[<<u, k>>] = None THEN 0 ELSE wallet_ledger[<<u, k>>].delta]
ChipsAt(t) == [u \in Users |-> IF u \in Seated(t) THEN table_seats[t][u].stack ELSE 0]

\* The ledger explains every wallet: a balance is the initial grant plus the
\* deltas of the user's ledger rows.  Buy-ins, cash-outs and refunds, retried,
\* failed or with a lost reply, each write the wallet and the ledger together.
LedgerExplainsWallets ==
  \A u \in Users : wallets[u] = InitialBalance + SumOf(Deltas(u))

\* Chips are neither made nor lost: wallets and seats add up to what was granted.
ConservesChips ==
  SumOf(wallets) + SumOf([t \in Tables |-> SumOf(ChipsAt(t))]) = InitialBalance * Cardinality(Users)

\* While a hand is being played its players' seats keep the stacks the hand
\* began with, which is what a settlement will replace and a refund return; and
\* a table is playing exactly when one of its hands is.
HandHoldsItsStacks ==
  \A t \in Tables :
    LET playing == {h \in Hands : h[1] = t /\ hands[h] = "playing"}
    IN /\ IF poker_tables[t] = "playing" THEN \E h \in Hands : playing = {h} ELSE playing = {}
       /\ \A h \in playing, u \in Users :
            hand_players[h][u] # None =>
              /\ u \in Seated(t)
              /\ table_seats[t][u].stack = hand_players[h][u]
              /\ table_seats[t][u].hand_start_stack = hand_players[h][u]

\* However often and however concurrently a key is used, every receipt handed
\* out for it is the one the ledger holds: a key takes effect at most once and
\* its replays report that effect.
ReceiptsAreBacked ==
  \A e \in Users \X Keys :
    receipts[e] # {} => wallet_ledger[e] # None /\ receipts[e] = {Receipt(wallet_ledger[e])}

\* The record of a finished hand is final: appendAction, settleHand and
\* abortTableAndRefund leave its status and its action log as they are.
HistoryIsFinal ==
  [][\A h \in Hands :
       hands[h] \in {"settled", "aborted"} =>
         /\ hands'[h] = hands[h]
         /\ \A row \in hand_actions' : row.hand = h => row \in hand_actions]_vars

\* The rows as the in-memory store keeps them.
StoredTable(status, seats) ==
  [state |-> CASE status = None -> "absent"
               [] status = "aborted" -> "aborted"
               [] OTHER -> "open",
   hand_in_progress |-> status = "playing",
   seats |-> [u \in Users |->
     IF seats[u] = None THEN None ELSE [seat |-> seats[u].seat_no, stack |-> seats[u].stack]]]

LedgerResult(row) ==
  IF row = None THEN None
  ELSE [kind |-> IF row.reason = "table_buy_in" THEN "buy_in" ELSE "cash_out",
        table |-> row.reference, balance |-> row.balance_after,
        chips |-> IF row.reason = "table_buy_in" THEN -row.delta ELSE row.delta]

StoredTables == [t \in Tables |-> StoredTable(poker_tables[t], table_seats[t])]
LedgerResults == [e \in Users \X Keys |-> LedgerResult(wallet_ledger[e])]
Begun == {h \in Hands : hands[h] # None}
Settled == {h \in Hands : hands[h] = "settled"}

Contract == INSTANCE GameStore WITH
  tables <- StoredTables, ledger <- LedgerResults, hand_starts <- Begun,
  settlements <- Settled, actions <- hand_actions

\* The MySQL store implements the in-memory one: whatever the callers'
\* interleavings, failures and lost replies, the rows change as if each call
\* had run alone, at most once per key.
ImplementsContract == Contract!Spec
=============================================================================
