----------------------------- MODULE StoreProofs -----------------------------
(***************************************************************************)
(* The MySQL store for any number of tables, users, keys, hands and        *)
(* callers: the rows of a hand in play, of the ledger and of finished      *)
(* hands are right, and the store implements the in-memory one.            *)
(***************************************************************************)
EXTENDS MySqlGameStore, TLAPS

\* A call past its first lookup.
Pending ==
  [op : {"table_buy_in"}, table : Tables, user : Users, key : Keys,
   stage : {"transaction", "replay"}, seat : SeatNos, amount : Amounts]
  \cup
  [op : {"table_cash_out"}, table : Tables, user : Users, key : Keys,
   stage : {"transaction", "replay"}]

Receipts == [balance : Int, chips : Int]

StoreTypes ==
  /\ wallets \in [Users -> Nat]
  /\ poker_tables \in [Tables -> TableStatus \cup {None}]
  /\ table_seats \in [Tables -> [Users -> SeatRow \cup {None}]]
  /\ hands \in [Hands -> HandStatus \cup {None}]
  /\ hand_players \in [Hands -> [Users -> Nat \cup {None}]]
  /\ wallet_ledger \in [Users \X LedgerKeys -> LedgerRows \cup {None}]
  /\ calls \in [Callers -> Pending \cup {None}]
  /\ receipts \in [Users \X Keys -> SUBSET Receipts]

\* A table without a row, or closed, has no seats, and until it is closed no
\* refund is in the ledger.
Closed ==
  \A t \in Tables, u \in Users :
    /\ poker_tables[t] \in {None, "aborted"} => table_seats[t][u] = None
    /\ poker_tables[t] # "aborted" => wallet_ledger[<<u, Crash(t)>>] = None

\* A hand in play is the only one of its table, and its players sit there with
\* the stacks they began it with.
InPlay ==
  /\ \A t \in Tables : poker_tables[t] = "playing" => \E h \in Hands : h[1] = t /\ hands[h] = "playing"
  /\ \A h \in Hands : hands[h] = "playing" => poker_tables[h[1]] = "playing"
  /\ \A g, h \in Hands : hands[g] = "playing" /\ hands[h] = "playing" /\ g[1] = h[1] => g = h
  /\ \A h \in Hands, u \in Users :
       hands[h] = "playing" /\ hand_players[h][u] # None =>
         /\ table_seats[h[1]][u] # None
         /\ table_seats[h[1]][u].stack = hand_players[h][u]
         /\ table_seats[h[1]][u].hand_start_stack = hand_players[h][u]

StoreInv == StoreTypes /\ Closed /\ InPlay /\ ReceiptsAreBacked

-----------------------------------------------------------------------------
(* The rows are right *)

\* An empty database satisfies the invariant.
LEMMA StoreAtStart == Init => StoreInv
<1> SUFFICES ASSUME Init PROVE StoreInv
  OBVIOUS
<1>1. StoreTypes
  BY StoreAssumption DEF Init, StoreTypes
<1>2. Closed /\ InPlay
  BY NoneAssumption DEF Init, Closed, InPlay, LedgerKeys, TableStatus, HandStatus
<1>3. ReceiptsAreBacked
  BY DEF Init, ReceiptsAreBacked
<1>4. QED
  BY <1>1, <1>2, <1>3 DEF StoreInv

\* The fields of a call, as the transactions read them.
LEMMA CallFields ==
  ASSUME StoreTypes, NEW c \in Callers, calls[c] # None
  PROVE  /\ calls[c] \in Pending
         /\ calls[c].table \in Tables /\ calls[c].user \in Users /\ calls[c].key \in Keys
         /\ calls[c].op = "table_buy_in" =>
              calls[c].seat \in Nat /\ calls[c].amount \in Nat /\ calls[c].amount > 0
<1> DEFINE call == calls[c]
<1>1. call \in Pending
  BY DEF StoreTypes
<1>2. call.table \in Tables /\ call.user \in Users /\ call.key \in Keys
  BY <1>1 DEF Pending
<1>3. call.op = "table_buy_in" => call.seat \in SeatNos /\ call.amount \in Amounts
  BY <1>1 DEF Pending
<1>4. \A s \in SeatNos, a \in Amounts : s \in Nat /\ a \in Nat /\ a > 0
  <2>1. SeatNos \subseteq Nat /\ Amounts \subseteq Nat \ {0}
    BY StoreAssumption
  <2>2. QED
    BY <2>1
<1>5. QED
  BY <1>1, <1>2, <1>3, <1>4

\* A ledger row gives a receipt.
LEMMA ReceiptType ==
  ASSUME NEW row \in LedgerRows PROVE Receipt(row) \in Receipts /\ row # None
BY NoneAssumption DEF Receipt, Receipts, LedgerRows

\* What a row of the ledger holds.
LEMMA RowFields ==
  ASSUME NEW reason \in {"table_buy_in", "table_cash_out", "crash_refund"},
         NEW t \in Tables, NEW d \in Int, NEW b \in Int
  PROVE  /\ LedgerRow(reason, t, d, b) \in LedgerRows
         /\ LedgerRow(reason, t, d, b).delta = d
         /\ LedgerRow(reason, t, d, b).balance_after = b
BY DEF LedgerRow, LedgerRows

\* A user who sits at a table has a seat row, with a stack.
LEMMA SeatFields ==
  ASSUME StoreTypes, NEW t \in Tables, NEW u \in Seated(t)
  PROVE  /\ u \in Users /\ table_seats[t][u] \in SeatRow
         /\ table_seats[t][u].seat_no \in Nat /\ table_seats[t][u].stack \in Nat
<1>1. u \in Users /\ table_seats[t][u] # None
  BY DEF Seated
<1>2. table_seats[t] \in [Users -> SeatRow \cup {None}]
  BY DEF StoreTypes
<1>3. table_seats[t][u] \in SeatRow
  BY <1>1, <1>2
<1>4. QED
  BY <1>1, <1>3 DEF SeatRow

\* A balance is a number.
LEMMA WalletType == ASSUME StoreTypes, NEW u \in Users PROVE wallets[u] \in Nat
BY DEF StoreTypes

\* What cashOut reads before it commits.
LEMMA CashOutReads ==
  ASSUME StoreInv, NEW c \in Callers, CashOutCommits(c)
  PROVE  /\ calls[c].table \in Tables /\ calls[c].user \in Users /\ calls[c].key \in Keys
         /\ calls[c].user \in Seated(calls[c].table)
         /\ table_seats[calls[c].table][calls[c].user].stack \in Nat
         /\ wallets[calls[c].user] \in Nat
<1>1. calls[c] # None /\ calls[c].user \in Seated(calls[c].table)
  BY Zenon DEF CashOutCommits
<1>2. StoreTypes
  BY DEF StoreInv
<1>3. calls[c].table \in Tables /\ calls[c].user \in Users /\ calls[c].key \in Keys
  BY <1>1, <1>2, CallFields
<1>4. QED
  BY <1>1, <1>2, <1>3, SeatFields, WalletType

\* What reserveBuyIn reads before it commits.
LEMMA BuyInReads ==
  ASSUME StoreInv, NEW c \in Callers, BuyInCommits(c)
  PROVE  /\ calls[c].table \in Tables /\ calls[c].user \in Users /\ calls[c].key \in Keys
         /\ calls[c].seat \in Nat /\ calls[c].amount \in Nat
         /\ wallets[calls[c].user] \in Nat /\ wallets[calls[c].user] >= calls[c].amount
<1>1. /\ calls[c] # None /\ calls[c].op = "table_buy_in"
      /\ wallets[calls[c].user] >= calls[c].amount
  BY ZenonT(30) DEF BuyInCommits
<1>2. StoreTypes
  BY DEF StoreInv
<1>3. /\ calls[c].table \in Tables /\ calls[c].user \in Users /\ calls[c].key \in Keys
      /\ calls[c].seat \in Nat /\ calls[c].amount \in Nat
  BY <1>1, <1>2, CallFields
<1>4. QED
  BY <1>1, <1>2, <1>3, WalletType

\* A buy-in or a cash-out that commits changes one seat of a waiting table and
\* writes the first row of its key.
LEMMA SeatStepKeeps ==
  ASSUME StoreInv, NEW t \in Tables, NEW u \in Users, NEW k \in Keys, NEW c \in Callers,
         NEW seat \in SeatRow \cup {None}, NEW row \in LedgerRows,
         NEW issued \in {{Receipt(row)}, {}},
         poker_tables[t] = "waiting", wallet_ledger[<<u, k>>] = None,
         wallets' \in [Users -> Nat],
         table_seats' = [table_seats EXCEPT ![t][u] = seat],
         wallet_ledger' = [wallet_ledger EXCEPT ![<<u, k>>] = row],
         calls' = [calls EXCEPT ![c] = None],
         receipts' = [receipts EXCEPT ![<<u, k>>] = @ \cup issued],
         UNCHANGED <<poker_tables, hands, hand_players>>
  PROVE  StoreInv'
<1> DEFINE e == <<u, k>>
<1>1. e \in Users \X Keys /\ e \in Users \X LedgerKeys
  BY DEF LedgerKeys
<1>2. /\ wallet_ledger' \in [Users \X LedgerKeys -> LedgerRows \cup {None}]
      /\ wallet_ledger'[e] = row
      /\ \A d \in Users \X LedgerKeys : d # e => wallet_ledger'[d] = wallet_ledger[d]
  BY <1>1 DEF StoreInv, StoreTypes
<1>3. /\ receipts' \in [Users \X Keys -> SUBSET Receipts]
      /\ receipts'[e] = receipts[e] \cup issued
      /\ \A d \in Users \X Keys : d # e => receipts'[d] = receipts[d]
  BY <1>1, ReceiptType DEF StoreInv, StoreTypes
<1>4. /\ table_seats' \in [Tables -> [Users -> SeatRow \cup {None}]]
      /\ \A s \in Tables, v \in Users : s # t \/ v # u => table_seats'[s][v] = table_seats[s][v]
  BY DEF StoreInv, StoreTypes
<1>5. StoreTypes'
  BY <1>2, <1>3, <1>4 DEF StoreInv, StoreTypes
<1>6. \A v \in Users, s \in Tables : /\ <<v, Crash(s)>> \in Users \X LedgerKeys
                                     /\ <<v, Crash(s)>> # e
  BY StoreAssumption DEF LedgerKeys
<1> HIDE DEF e
<1>7. Closed'
  BY <1>2, <1>4, <1>6, NoneAssumption DEF StoreInv, Closed, TableStatus
<1>8. InPlay'
  BY <1>4 DEF StoreInv, InPlay, Hands
<1>9. ReceiptsAreBacked'
  <2> SUFFICES ASSUME NEW d \in Users \X Keys, receipts'[d] # {}
               PROVE  wallet_ledger'[d] # None /\ receipts'[d] = {Receipt(wallet_ledger'[d])}
    BY DEF ReceiptsAreBacked
  <2>1. CASE d = e
    <3>1. receipts[e] = {}
      BY <1>1 DEF StoreInv, ReceiptsAreBacked, e
    <3>2. QED
      BY <1>2, <1>3, <2>1, <3>1, ReceiptType
  <2>2. CASE d # e
    BY <1>2, <1>3, <2>2, SMTT(20) DEF StoreInv, ReceiptsAreBacked, LedgerKeys
  <2>3. QED
    BY <2>1, <2>2
<1>10. QED
  BY <1>5, <1>7, <1>8, <1>9 DEF StoreInv

\* The transaction of reserveBuyIn keeps the invariant.
LEMMA BuyInKeeps == ASSUME StoreInv, NEW c \in Callers, BuyInCommits(c) PROVE StoreInv'
<1> DEFINE call == calls[c]
           seat == [seat_no |-> call.seat, stack |-> call.amount, hand_start_stack |-> call.amount]
           row == LedgerRow("table_buy_in", call.table, -call.amount, wallets[call.user] - call.amount)
<1>1. /\ call.table \in Tables /\ call.user \in Users /\ call.key \in Keys
      /\ call.seat \in Nat /\ call.amount \in Nat /\ wallets[call.user] >= call.amount
  BY BuyInReads
<1>2. seat \in SeatRow
  BY <1>1 DEF SeatRow
<1>3. row \in LedgerRows /\ wallets' \in [Users -> Nat]
  BY <1>1 DEF LedgerRow, LedgerRows, BuyInCommits, StoreInv, StoreTypes
<1>4. PICK issued \in {{Receipt(row)}, {}} : Return(c, issued)
  BY ZenonT(30) DEF BuyInCommits
<1>5. /\ table_seats' = [table_seats EXCEPT ![call.table][call.user] = seat]
      /\ wallet_ledger' = [wallet_ledger EXCEPT ![<<call.user, call.key>>] = row]
      /\ poker_tables[call.table] = "waiting" /\ wallet_ledger[<<call.user, call.key>>] = None
      /\ UNCHANGED <<poker_tables, hands, hand_players>>
  BY SMTT(20) DEF BuyInCommits, KeyIsFree
<1> HIDE DEF seat, row
<1>6. QED
  BY <1>1, <1>2, <1>3, <1>4, <1>5, SeatStepKeeps, ZenonT(30) DEF Return

\* So does that of cashOut.
LEMMA CashOutKeeps == ASSUME StoreInv, NEW c \in Callers, CashOutCommits(c) PROVE StoreInv'
<1> DEFINE call == calls[c]
           stack == table_seats[call.table][call.user].stack
           row == LedgerRow("table_cash_out", call.table, stack, wallets[call.user] + stack)
<1>1. call.table \in Tables /\ call.user \in Users /\ call.key \in Keys
  BY CashOutReads
<1>2. stack \in Nat /\ wallets[call.user] \in Nat
  BY CashOutReads, Zenon
<1>3. wallets' = [wallets EXCEPT ![call.user] = @ + stack]
  BY Zenon DEF CashOutCommits
<1>4. wallets \in [Users -> Nat]
  BY DEF StoreInv, StoreTypes
<1> HIDE DEF stack
<1>5. wallets' \in [Users -> Nat]
  BY <1>1, <1>2, <1>3, <1>4
<1>6. row \in LedgerRows
  BY <1>1, <1>2, RowFields
<1>7. PICK issued \in {{Receipt(row)}, {}} : Return(c, issued)
  BY Zenon DEF CashOutCommits, stack
<1>8. /\ table_seats' = [table_seats EXCEPT ![call.table][call.user] = None]
      /\ wallet_ledger' = [wallet_ledger EXCEPT ![<<call.user, call.key>>] = row]
      /\ poker_tables[call.table] = "waiting" /\ wallet_ledger[<<call.user, call.key>>] = None
      /\ UNCHANGED <<poker_tables, hands, hand_players>>
  BY Zenon DEF CashOutCommits, KeyIsFree, stack
<1>9. /\ calls' = [calls EXCEPT ![c] = None]
      /\ receipts' = [receipts EXCEPT ![<<call.user, call.key>>] = @ \cup issued]
  BY <1>7 DEF Return
<1> HIDE DEF row, call
<1>10. QED
  BY <1>1, <1>5, <1>6, <1>7, <1>8, <1>9, SeatStepKeeps, ZenonT(30)

\* Outside the transactions a call changes its own state, and a receipt it hands
\* out is that of the row of its key.
LEMMA AnswerKeeps ==
  ASSUME StoreInv, UNCHANGED db, calls' \in [Callers -> Pending \cup {None}],
         NEW u \in Users, NEW k \in Keys, NEW issued,
         issued = {} \/ (wallet_ledger[<<u, k>>] # None /\ issued = {Receipt(wallet_ledger[<<u, k>>])}),
         receipts' = [receipts EXCEPT ![<<u, k>>] = @ \cup issued]
  PROVE  StoreInv'
<1> DEFINE e == <<u, k>>
<1>1. e \in Users \X Keys /\ e \in Users \X LedgerKeys
  BY DEF LedgerKeys
<1>2. UNCHANGED <<wallets, poker_tables, table_seats, hands, hand_players, wallet_ledger>>
  BY DEF db
<1>3. issued \subseteq Receipts
  <2>1. wallet_ledger[e] \in LedgerRows \cup {None}
    BY <1>1 DEF StoreInv, StoreTypes
  <2>2. QED
    BY <2>1, ReceiptType
<1>4. /\ receipts' \in [Users \X Keys -> SUBSET Receipts]
      /\ receipts'[e] = receipts[e] \cup issued
      /\ \A d \in Users \X Keys : d # e => receipts'[d] = receipts[d]
  BY <1>1, <1>3 DEF StoreInv, StoreTypes
<1>5. StoreTypes' /\ Closed' /\ InPlay'
  BY <1>2, <1>4 DEF StoreInv, StoreTypes, Closed, InPlay
<1>6. ReceiptsAreBacked'
  <2> HIDE DEF e
  <2> SUFFICES ASSUME NEW d \in Users \X Keys, receipts'[d] # {}
               PROVE  wallet_ledger[d] # None /\ receipts'[d] = {Receipt(wallet_ledger[d])}
    BY <1>2, Zenon DEF ReceiptsAreBacked
  <2>1. CASE d = e
    <3>1. \/ receipts[e] = {}
          \/ receipts[e] = {Receipt(wallet_ledger[e])} /\ wallet_ledger[e] # None
      BY <1>1 DEF StoreInv, ReceiptsAreBacked
    <3>2. QED
      BY <1>4, <2>1, <3>1, Zenon DEF e
  <2>2. CASE d # e
    BY <1>4, <2>2, Zenon DEF StoreInv, ReceiptsAreBacked
  <2>3. QED
    BY <2>1, <2>2
<1>7. QED
  BY <1>5, <1>6 DEF StoreInv

\* So does the first lookup of a key.
LEMMA LookupKeeps ==
  ASSUME StoreInv, NEW c \in Callers, NEW call \in Call, Lookup(c, call) PROVE StoreInv'
<1>1. call.user \in Users /\ call.key \in Keys /\ call \in Pending
  BY DEF Call, Pending
<1>2. UNCHANGED db
  BY DEF Lookup
<1>3. CASE calls' = [calls EXCEPT ![c] = call] /\ UNCHANGED receipts
  BY <1>1, <1>2, <1>3, SMTT(20) DEF StoreInv, StoreTypes, Closed, InPlay, ReceiptsAreBacked, db
<1>4. ASSUME wallet_ledger[<<call.user, call.key>>] # None,
             receipts' = [receipts EXCEPT ![<<call.user, call.key>>] =
                            @ \cup {Receipt(wallet_ledger[<<call.user, call.key>>])}],
             UNCHANGED calls
      PROVE  StoreInv'
  BY <1>1, <1>2, <1>4, AnswerKeeps, Zenon DEF StoreInv, StoreTypes
<1>5. QED
  BY <1>3, <1>4 DEF Lookup

\* So does a rollback.
LEMMA RollsBackKeeps == ASSUME StoreInv, NEW c \in Callers, RollsBack(c) PROVE StoreInv'
<1>1. UNCHANGED db /\ UNCHANGED receipts /\ calls' = [calls EXCEPT ![c].stage = "replay"]
  BY DEF RollsBack
<1>2. calls[c] \in Pending
  BY CallFields DEF RollsBack, StoreInv
<1>3. [calls[c] EXCEPT !.stage = "replay"] \in Pending
  BY <1>2 DEF Pending
<1>4. calls' \in [Callers -> Pending \cup {None}]
  BY <1>1, <1>3 DEF StoreInv, StoreTypes
<1>5. QED
  BY <1>1, <1>4 DEF StoreInv, StoreTypes, Closed, InPlay, ReceiptsAreBacked, db

\* So does the second lookup, or giving up.
LEMMA ReturnKeeps ==
  ASSUME StoreInv, NEW c \in Callers, ReplayAfterRollback(c) \/ CallFails(c) PROVE StoreInv'
<1> DEFINE row == wallet_ledger[<<calls[c].user, calls[c].key>>]
<1>1. PICK issued : /\ issued = {} \/ (row # None /\ issued = {Receipt(row)})
                    /\ Return(c, issued) /\ UNCHANGED db
  BY Zenon DEF ReplayAfterRollback, CallFails
<1>2. calls[c].user \in Users /\ calls[c].key \in Keys
  BY CallFields DEF ReplayAfterRollback, CallFails, StoreInv
<1>3. [calls EXCEPT ![c] = None] \in [Callers -> Pending \cup {None}]
  BY DEF StoreInv, StoreTypes
<1>4. QED
  BY <1>1, <1>2, <1>3, AnswerKeeps, Zenon DEF Return

\* So does createTable.
LEMMA CreateKeeps == ASSUME StoreInv, NEW t \in Tables, CreateTable(t) PROVE StoreInv'
<1>1. /\ poker_tables' \in [Tables -> TableStatus \cup {None}]
      /\ poker_tables[t] = None /\ poker_tables'[t] = "waiting"
      /\ \A s \in Tables \ {t} : poker_tables'[s] = poker_tables[s]
      /\ UNCHANGED <<wallets, table_seats, hands, hand_players, wallet_ledger, calls, receipts>>
  BY DEF CreateTable, StoreInv, StoreTypes, TableStatus
<1>2. \A h \in Hands : h[1] = t => hands[h] # "playing"
  BY <1>1, NoneAssumption DEF StoreInv, InPlay, TableStatus
<1>3. InPlay'
  BY <1>1, <1>2 DEF StoreInv, InPlay, Hands
<1>4. Closed'
  BY <1>1, NoneAssumption DEF StoreInv, Closed, TableStatus
<1>5. QED
  BY <1>1, <1>3, <1>4, Zenon DEF StoreInv, StoreTypes, ReceiptsAreBacked

\* A hand begins at a table that waits, so it is the only one, and records the
\* stacks of its players (mysql_game_store.cpp, beginHand).
LEMMA BeginKeeps ==
  ASSUME StoreInv, NEW h \in Hands, NEW players \in SUBSET Seated(h[1]),
         BeginHand(h, Stacks(h[1], players))
  PROVE  StoreInv'
<1> DEFINE t == h[1]
           start == Stacks(t, players)
           seat(u) == table_seats[t][u]
           held(u) == [seat(u) EXCEPT !.hand_start_stack = start[u]]
<1>1. t \in Tables /\ players \subseteq Users /\ DOMAIN start = players
  BY DEF Hands, Seated, Stacks
<1>2. \A u \in players : seat(u) \in SeatRow /\ start[u] = seat(u).stack
  BY <1>1 DEF StoreInv, StoreTypes, Seated, Stacks
<1>3. \A u \in players : start[u] \in Nat
  BY <1>2 DEF SeatRow
<1>4. \A u \in players :
        held(u) \in SeatRow /\ held(u).stack = start[u] /\ held(u).hand_start_stack = start[u]
  BY <1>2, <1>3 DEF SeatRow
<1>5. /\ poker_tables[t] = "waiting" /\ hands[h] = None
      /\ hands' = [hands EXCEPT ![h] = "playing"]
      /\ hand_players' = [hand_players EXCEPT ![h] =
                            [u \in Users |-> IF u \in players THEN start[u] ELSE None]]
      /\ table_seats' = [table_seats EXCEPT ![t] =
                           [u \in Users |-> IF u \in players THEN held(u) ELSE seat(u)]]
      /\ poker_tables' = [poker_tables EXCEPT ![t] = "playing"]
      /\ UNCHANGED <<wallets, wallet_ledger, calls, receipts>>
  BY <1>1 DEF BeginHand, StoreInv, StoreTypes
<1> HIDE DEF t, start, held
<1>6. /\ table_seats' \in [Tables -> [Users -> SeatRow \cup {None}]]
      /\ \A s \in Tables \ {t} : table_seats'[s] = table_seats[s]
      /\ \A u \in Users : table_seats'[t][u] = IF u \in players THEN held(u) ELSE seat(u)
  BY <1>1, <1>4, <1>5 DEF StoreInv, StoreTypes
<1>7. /\ hand_players' \in [Hands -> [Users -> Nat \cup {None}]]
      /\ \A g \in Hands \ {h} : hand_players'[g] = hand_players[g]
      /\ \A u \in Users : hand_players'[h][u] = IF u \in players THEN start[u] ELSE None
  BY <1>3, <1>5 DEF StoreInv, StoreTypes
<1>8. /\ hands' \in [Hands -> HandStatus \cup {None}] /\ hands'[h] = "playing"
      /\ \A g \in Hands \ {h} : hands'[g] = hands[g]
      /\ poker_tables' \in [Tables -> TableStatus \cup {None}] /\ poker_tables'[t] = "playing"
      /\ \A s \in Tables \ {t} : poker_tables'[s] = poker_tables[s]
  BY <1>1, <1>5, SMTT(20) DEF StoreInv, StoreTypes, HandStatus, TableStatus
<1>9. StoreTypes'
  BY <1>5, <1>6, <1>7, <1>8, SMTT(20) DEF StoreInv, StoreTypes
<1>10. Closed'
  BY <1>5, NoneAssumption DEF StoreInv, Closed, TableStatus
<1>11. h[1] = t /\ \A g \in Hands : g[1] \in Tables /\ (g[1] = t => hands[g] # "playing")
  BY <1>5, Zenon DEF StoreInv, InPlay, Hands, t
<1>12. InPlay'
  <2>1. /\ \A s \in Tables : poker_tables'[s] = "playing" => \E g \in Hands : g[1] = s /\ hands'[g] = "playing"
        /\ \A g \in Hands : hands'[g] = "playing" => poker_tables'[g[1]] = "playing"
    BY <1>8, <1>11 DEF StoreInv, InPlay
  <2>2. \A f, g \in Hands : hands'[f] = "playing" /\ hands'[g] = "playing" /\ f[1] = g[1] => f = g
    BY <1>8, <1>11 DEF StoreInv, InPlay
  <2>3. ASSUME NEW g \in Hands, NEW u \in Users, hands'[g] = "playing", hand_players'[g][u] # None
        PROVE  /\ table_seats'[g[1]][u] # None
               /\ table_seats'[g[1]][u].stack = hand_players'[g][u]
               /\ table_seats'[g[1]][u].hand_start_stack = hand_players'[g][u]
    <3>1. CASE g = h
      <4>1. u \in players /\ hand_players'[g][u] = start[u] /\ table_seats'[g[1]][u] = held(u)
        BY <1>1, <1>6, <1>7, <1>11, <2>3, <3>1, SMTT(20)
      <4>2. QED
        BY <1>4, <4>1, NoneAssumption
    <3>2. CASE g # h
      <4>1. hands[g] = "playing" /\ g[1] \in Tables \ {t} /\ hand_players[g][u] # None
        BY <1>7, <1>8, <1>11, <2>3, <3>2, Zenon
      <4>2. table_seats'[g[1]][u] = table_seats[g[1]][u] /\ hand_players'[g][u] = hand_players[g][u]
        BY <1>6, <1>7, <3>2, <4>1
      <4>3. QED
        BY <4>1, <4>2 DEF StoreInv, InPlay
    <3>3. QED
      BY <3>1, <3>2, Zenon
  <2>4. QED
    BY <2>1, <2>2, <2>3 DEF InPlay
<1>13. QED
  BY <1>5, <1>9, <1>10, <1>12 DEF StoreInv, ReceiptsAreBacked

\* The settled hand was the only one in play (settleHand).
LEMMA SettleKeeps ==
  ASSUME StoreInv, NEW h \in Hands, NEW players \in SUBSET Seated(h[1]),
         NEW end \in [players -> Chips], SettleHand(h, Stacks(h[1], players), end)
  PROVE  StoreInv'
<1> DEFINE t == h[1]
           seat(u) == table_seats[t][u]
           paid(u) == [seat(u) EXCEPT !.stack = end[u], !.hand_start_stack = end[u]]
<1>1. t \in Tables /\ players \subseteq Users /\ DOMAIN end = players
  BY DEF Hands, Seated
<1>2. \A u \in players : seat(u) \in SeatRow /\ end[u] \in Nat
  BY <1>1 DEF StoreInv, StoreTypes, Seated, Chips
<1>3. \A u \in players : paid(u) \in SeatRow
  BY <1>2, ZenonT(30) DEF SeatRow
<1>4. /\ poker_tables[t] = "playing" /\ hands[h] = "playing"
      /\ hands' = [hands EXCEPT ![h] = "settled"]
      /\ table_seats' = [table_seats EXCEPT ![t] =
                           [u \in Users |-> IF u \in players THEN paid(u) ELSE seat(u)]]
      /\ poker_tables' = [poker_tables EXCEPT ![t] = "waiting"]
      /\ UNCHANGED <<wallets, hand_players, wallet_ledger, calls, receipts>>
  BY <1>1, Zenon DEF SettleHand, StoreInv, StoreTypes
<1> HIDE DEF t, paid
<1>5. /\ table_seats' \in [Tables -> [Users -> SeatRow \cup {None}]]
      /\ \A s \in Tables \ {t} : table_seats'[s] = table_seats[s]
  BY <1>1, <1>3, <1>4, SMTT(20) DEF StoreInv, StoreTypes
<1>6. /\ hands' \in [Hands -> HandStatus \cup {None}] /\ hands'[h] = "settled"
      /\ \A g \in Hands \ {h} : hands'[g] = hands[g]
      /\ poker_tables' \in [Tables -> TableStatus \cup {None}] /\ poker_tables'[t] = "waiting"
      /\ \A s \in Tables \ {t} : poker_tables'[s] = poker_tables[s]
  BY <1>1, <1>4, Zenon DEF StoreInv, StoreTypes, HandStatus, TableStatus
<1>7. StoreTypes'
  BY <1>4, <1>5, <1>6, Zenon DEF StoreInv, StoreTypes
<1>8. Closed'
  <2> SUFFICES ASSUME NEW s \in Tables, NEW u \in Users
               PROVE  /\ poker_tables'[s] \in {None, "aborted"} => table_seats'[s][u] = None
                      /\ poker_tables'[s] # "aborted" => wallet_ledger'[<<u, Crash(s)>>] = None
    BY DEF Closed
  <2>1. /\ poker_tables[s] \in {None, "aborted"} => table_seats[s][u] = None
        /\ poker_tables[s] # "aborted" => wallet_ledger[<<u, Crash(s)>>] = None
    BY Zenon DEF StoreInv, Closed
  <2>2. CASE s = t
    <3>1. "waiting" # None
      BY NoneAssumption DEF TableStatus
    <3>2. QED
      BY <1>4, <1>6, <2>1, <2>2, <3>1, Zenon
  <2>3. CASE s # t
    <3>1. poker_tables'[s] = poker_tables[s] /\ table_seats'[s] = table_seats[s]
      BY <1>5, <1>6, <2>3, Zenon
    <3>2. QED
      BY <1>4, <2>1, <3>1, Zenon
  <2>4. QED
    BY <2>2, <2>3, Zenon
<1>9. \A g \in Hands : hands'[g] = "playing" => hands[g] = "playing" /\ g # h /\ g[1] \in Tables \ {t}
  BY <1>4, <1>6, Zenon DEF StoreInv, InPlay, Hands, t
<1>10. InPlay'
  BY <1>4, <1>6, <1>9 DEF StoreInv, InPlay
<1>11. QED
  BY <1>4, <1>7, <1>8, <1>10 DEF StoreInv, ReceiptsAreBacked

\* A refund empties the table, ends its hand and writes rows that no caller's key
\* can reach (abortTableAndRefund).
LEMMA AbortKeeps == ASSUME StoreInv, NEW t \in Tables, AbortTableAndRefund(t) PROVE StoreInv'
<1> DEFINE refund(u) == IF u \in Seated(t) THEN table_seats[t][u].stack ELSE 0
           row(e) == LedgerRow("crash_refund", t, table_seats[t][e[1]].stack, wallets'[e[1]])
<1>1. \A u \in Users : /\ refund(u) \in Nat
                       /\ u \in Seated(t) => table_seats[t][u] \in SeatRow /\ table_seats[t][u].stack \in Nat
  BY SMTT(20) DEF StoreInv, StoreTypes, Seated, SeatRow
<1>2. /\ wallets' \in [Users -> Nat]
      /\ wallet_ledger' = [e \in Users \X LedgerKeys |->
                             IF e[1] \in Seated(t) /\ e[2] = Crash(t) THEN row(e) ELSE wallet_ledger[e]]
      /\ table_seats' = [table_seats EXCEPT ![t] = [u \in Users |-> None]]
      /\ hands' = [h \in Hands |-> IF h[1] = t /\ hands[h] = "playing" THEN "aborted" ELSE hands[h]]
      /\ poker_tables' = [poker_tables EXCEPT ![t] = "aborted"]
      /\ poker_tables[t] \in {"waiting", "playing"}
      /\ UNCHANGED <<hand_players, calls, receipts>>
  BY <1>1 DEF AbortTableAndRefund, StoreInv, StoreTypes
<1>3. \A e \in Users \X LedgerKeys : e[1] \in Seated(t) => row(e) \in LedgerRows
  BY <1>1, <1>2, SMTT(20) DEF LedgerRow, LedgerRows, Seated
<1> HIDE DEF row
<1>4. /\ wallet_ledger' \in [Users \X LedgerKeys -> LedgerRows \cup {None}]
      /\ \A e \in Users \X LedgerKeys : e[2] # Crash(t) => wallet_ledger'[e] = wallet_ledger[e]
  BY <1>2, <1>3, Zenon DEF StoreInv, StoreTypes
<1>5. /\ table_seats' \in [Tables -> [Users -> SeatRow \cup {None}]]
      /\ \A u \in Users : table_seats'[t][u] = None
      /\ \A s \in Tables \ {t} : table_seats'[s] = table_seats[s]
  BY <1>2, Zenon DEF StoreInv, StoreTypes
<1>6. /\ hands' \in [Hands -> HandStatus \cup {None}]
      /\ \A h \in Hands : hands'[h] = "playing" <=> hands[h] = "playing" /\ h[1] # t
      /\ poker_tables' \in [Tables -> TableStatus \cup {None}] /\ poker_tables'[t] = "aborted"
      /\ \A s \in Tables \ {t} : poker_tables'[s] = poker_tables[s]
  BY <1>2, SMTT(20) DEF StoreInv, StoreTypes, HandStatus, TableStatus
<1>7. StoreTypes'
  BY <1>2, <1>4, <1>5, <1>6, Zenon DEF StoreInv, StoreTypes
<1>8. \A s \in Tables \ {t}, u \in Users : wallet_ledger'[<<u, Crash(s)>>] = wallet_ledger[<<u, Crash(s)>>]
  BY <1>4, Zenon DEF Crash, LedgerKeys
<1>9. Closed'
  <2> SUFFICES ASSUME NEW s \in Tables, NEW u \in Users
               PROVE  /\ poker_tables'[s] \in {None, "aborted"} => table_seats'[s][u] = None
                      /\ poker_tables'[s] # "aborted" => wallet_ledger'[<<u, Crash(s)>>] = None
    BY DEF Closed
  <2>1. CASE s = t
    BY <1>5, <1>6, <2>1, Zenon
  <2>2. CASE s # t
    BY <1>5, <1>6, <1>8, <2>2, SMTT(20) DEF StoreInv, Closed
  <2>3. QED
    BY <2>1, <2>2
<1>10. InPlay'
  <2>1. \A h \in Hands : h[1] \in Tables
    BY DEF Hands
  <2>2. /\ \A s \in Tables : poker_tables'[s] = "playing" => s # t /\ poker_tables[s] = "playing"
        /\ hand_players' = hand_players
    BY <1>2, <1>6, Zenon
  <2>3. \A s \in Tables : poker_tables'[s] = "playing" =>
          \E h \in Hands : h[1] = s /\ hands'[h] = "playing"
    BY <1>6, <2>2 DEF StoreInv, InPlay
  <2>4. \A h \in Hands : hands'[h] = "playing" => poker_tables'[h[1]] = "playing"
    BY <1>6, <2>1 DEF StoreInv, InPlay
  <2>5. \A g, h \in Hands : hands'[g] = "playing" /\ hands'[h] = "playing" /\ g[1] = h[1] => g = h
    BY <1>6 DEF StoreInv, InPlay
  <2>6. \A h \in Hands, u \in Users :
          hands'[h] = "playing" /\ hand_players'[h][u] # None =>
            /\ table_seats'[h[1]][u] # None
            /\ table_seats'[h[1]][u].stack = hand_players'[h][u]
            /\ table_seats'[h[1]][u].hand_start_stack = hand_players'[h][u]
    BY <1>5, <1>6, <2>1, <2>2 DEF StoreInv, InPlay
  <2>7. QED
    BY <2>3, <2>4, <2>5, <2>6, Zenon DEF InPlay
<1>11. \A e \in Users \X Keys : wallet_ledger'[e] = wallet_ledger[e]
  BY <1>4, StoreAssumption DEF LedgerKeys
<1>12. ReceiptsAreBacked'
  BY <1>2, <1>11, ZenonT(30) DEF StoreInv, ReceiptsAreBacked
<1>13. QED
  BY <1>7, <1>9, <1>10, <1>12, SMTT(20) DEF StoreInv

\* A step that changes none of these variables keeps it.
LEMMA NothingKeeps ==
  ASSUME StoreInv,
         UNCHANGED <<wallets, poker_tables, table_seats, hands, hand_players, wallet_ledger, calls,
                     receipts>>
  PROVE  StoreInv'
<1>1. StoreTypes'
  BY DEF StoreInv, StoreTypes
<1>2. Closed'
  BY Zenon DEF StoreInv, Closed
<1>3. InPlay'
  BY Zenon DEF StoreInv, InPlay
<1>4. ReceiptsAreBacked'
  BY Zenon DEF StoreInv, ReceiptsAreBacked
<1>5. QED
  BY <1>1, <1>2, <1>3, <1>4 DEF StoreInv

\* Every step keeps it.
LEMMA StoreKept == StoreInv /\ [Next]_<<vars, load>> => StoreInv'
<1> SUFFICES ASSUME StoreInv, [Next]_<<vars, load>> PROVE StoreInv'
  OBVIOUS
<1>1. CASE \E row \in ActionRows : load.actions /\ AppendAction(row)
  BY <1>1, NothingKeeps, Zenon DEF AppendAction
<1>2. CASE UNCHANGED <<vars, load>>
  BY <1>2, NothingKeeps DEF vars
<1>3. QED
  BY <1>1, <1>2, CreateKeeps, AbortKeeps, LookupKeeps, BuyInKeeps, CashOutKeeps,
     RollsBackKeeps, ReturnKeeps, BeginKeeps, SettleKeeps, Zenon DEF Next

\* Every reachable state of the store satisfies the invariant.
LEMMA StoreAlways == Spec => []StoreInv
BY StoreAtStart, StoreKept, PTL DEF Spec

\* A receipt is that of the one row of its key, whoever asked for it and however
\* often: lookups, transactions and replays of any number of callers agree
\* (mysql_game_store.cpp:485-760).
THEOREM ReceiptsAlwaysBacked == Spec => []ReceiptsAreBacked
<1>1. StoreInv => ReceiptsAreBacked
  BY DEF StoreInv
<1>2. QED
  BY StoreAlways, <1>1, PTL

\* A table plays at most one hand, and its seats keep the stacks the hand began
\* with until it is settled or refunded.
THEOREM StacksAlwaysHeld == Spec => []HandHoldsItsStacks
<1>1. StoreInv => HandHoldsItsStacks
  <2> SUFFICES ASSUME StoreInv, NEW t \in Tables
               PROVE  LET playing == {h \in Hands : h[1] = t /\ hands[h] = "playing"}
                      IN /\ IF poker_tables[t] = "playing" THEN \E h \in Hands : playing = {h}
                                                          ELSE playing = {}
                         /\ \A h \in playing, u \in Users :
                              hand_players[h][u] # None =>
                                /\ u \in Seated(t)
                                /\ table_seats[t][u].stack = hand_players[h][u]
                                /\ table_seats[t][u].hand_start_stack = hand_players[h][u]
    BY Zenon DEF HandHoldsItsStacks
  <2> DEFINE playing == {h \in Hands : h[1] = t /\ hands[h] = "playing"}
  <2>1. CASE poker_tables[t] = "playing"
    <3>1. PICK h \in Hands : h[1] = t /\ hands[h] = "playing"
      BY <2>1, Zenon DEF StoreInv, InPlay
    <3>2. playing = {h}
      BY <3>1 DEF StoreInv, InPlay
    <3>3. QED
      BY <2>1, <3>2 DEF StoreInv, InPlay, Seated
  <2>2. CASE poker_tables[t] # "playing"
    <3>1. playing = {}
      BY <2>2 DEF StoreInv, InPlay
    <3>2. QED
      BY <2>2, <3>1, Zenon
  <2>3. QED
    BY <2>1, <2>2, Zenon
<1>2. QED
  BY StoreAlways, <1>1, PTL

\* Nothing changes the status or the action log of a finished hand: a hand begins
\* without a row, and ends or is written to only while it is played.
THEOREM HistoryAlwaysFinal == Spec => HistoryIsFinal
<1> DEFINE Final == \A h \in Hands :
             hands[h] \in {"settled", "aborted"} =>
               /\ hands'[h] = hands[h]
               /\ \A row \in hand_actions' : row.hand = h => row \in hand_actions
<1>1. StoreInv /\ [Next]_<<vars, load>> => [Final]_vars
  <2> SUFFICES ASSUME StoreInv, [Next]_<<vars, load>> PROVE Final
    OBVIOUS
  <2>1. ASSUME UNCHANGED <<hands, hand_actions>> PROVE Final
    BY <2>1
  <2>2. ASSUME NEW row \in ActionRows, AppendAction(row) PROVE Final
    BY <2>2 DEF AppendAction
  <2>3. ASSUME NEW h \in Hands, NEW start, BeginHand(h, start) PROVE Final
    <3>1. hands' = [hands EXCEPT ![h] = "playing"] /\ hands[h] = None /\ UNCHANGED hand_actions
      BY <2>3, SMTT(20) DEF BeginHand
    <3>2. QED
      BY <3>1, NoneAssumption, Zenon DEF StoreInv, StoreTypes, HandStatus
  <2>4. ASSUME NEW h \in Hands, NEW start, NEW end, SettleHand(h, start, end) PROVE Final
    <3>1. hands' = [hands EXCEPT ![h] = "settled"] /\ hands[h] = "playing" /\ UNCHANGED hand_actions
      BY <2>4, ZenonT(30) DEF SettleHand
    <3>2. QED
      BY <3>1, SMTT(20) DEF StoreInv, StoreTypes
  <2>5. ASSUME NEW t \in Tables, AbortTableAndRefund(t) PROVE Final
    BY <2>5, Zenon DEF AbortTableAndRefund
  <2>6. QED
    BY <2>1, <2>2, <2>3, <2>4, <2>5, ZenonT(30) DEF Next, vars, CreateTable, Lookup, BuyInCommits,
         CashOutCommits, RollsBack,
           ReplayAfterRollback, CallFails, db
<1>2. QED
  BY StoreAlways, <1>1, PTL DEF Spec, HistoryIsFinal

\* A user's wallet and rows stay, or one row is written: its delta is what is added
\* to the wallet, and its balance_after what the wallet then holds.
Follows(u) ==
  \/ /\ wallets'[u] = wallets[u]
     /\ \A k \in LedgerKeys : wallet_ledger'[<<u, k>>] = wallet_ledger[<<u, k>>]
  \/ \E k \in LedgerKeys :
       /\ wallet_ledger[<<u, k>>] = None /\ wallet_ledger'[<<u, k>>] # None
       /\ wallets'[u] = wallets[u] + wallet_ledger'[<<u, k>>].delta
       /\ wallets'[u] = wallet_ledger'[<<u, k>>].balance_after
       /\ \A j \in LedgerKeys \ {k} : wallet_ledger'[<<u, j>>] = wallet_ledger[<<u, j>>]

\* Each step writes at most one ledger row of a user, and moves the wallet by it.
RowsMoveWallets == [][\A u \in Users : Follows(u)]_vars

\* A buy-in or a cash-out writes one row, for its own user.
LEMMA RowStep ==
  ASSUME StoreTypes, NEW u \in Users, NEW k \in Keys, NEW row \in LedgerRows,
         wallet_ledger[<<u, k>>] = None,
         wallet_ledger' = [wallet_ledger EXCEPT ![<<u, k>>] = row],
         wallets' = [wallets EXCEPT ![u] = row.balance_after],
         row.balance_after = wallets[u] + row.delta,
         NEW v \in Users
  PROVE  Follows(v)
<1>1. k \in LedgerKeys /\ row # None
  BY ReceiptType DEF LedgerKeys
<1>2. /\ wallet_ledger'[<<u, k>>] = row
      /\ \A w \in Users, j \in LedgerKeys :
           w # u \/ j # k => wallet_ledger'[<<w, j>>] = wallet_ledger[<<w, j>>]
  BY <1>1, Zenon DEF StoreTypes
<1>3. wallets'[u] = row.balance_after /\ \A w \in Users \ {u} : wallets'[w] = wallets[w]
  BY Zenon DEF StoreTypes
<1>4. QED
  BY <1>1, <1>2, <1>3 DEF Follows

\* Every step does that, for every user.
LEMMA RowsFollow == ASSUME StoreInv, [Next]_<<vars, load>>, NEW v \in Users PROVE Follows(v)
<1>1. CASE UNCHANGED <<wallets, wallet_ledger>>
  BY <1>1, SMTT(20) DEF Follows
<1>2. ASSUME NEW c \in Callers, BuyInCommits(c) PROVE Follows(v)
  <2> DEFINE call == calls[c]
             after == wallets[call.user] - call.amount
             row == LedgerRow("table_buy_in", call.table, -call.amount, after)
  <2>1. /\ call.table \in Tables /\ call.user \in Users /\ call.key \in Keys
        /\ call.amount \in Nat /\ wallets[call.user] \in Nat
    BY <1>2, BuyInReads, SMTT(20)
  <2>2. row \in LedgerRows /\ row.balance_after = after /\ row.delta = -call.amount
    BY <2>1, RowFields
  <2>3. /\ wallet_ledger[<<call.user, call.key>>] = None
        /\ wallet_ledger' = [wallet_ledger EXCEPT ![<<call.user, call.key>>] = row]
        /\ wallets' = [wallets EXCEPT ![call.user] = @ - call.amount]
    BY <1>2, Zenon DEF BuyInCommits, KeyIsFree
  <2>4. wallets' = [wallets EXCEPT ![call.user] = row.balance_after]
    BY <2>1, <2>2, <2>3, ZenonT(30)
  <2>5. row.balance_after = wallets[call.user] + row.delta
    BY <2>1, <2>2, Zenon
  <2>6. StoreTypes
    BY SMTT(20) DEF StoreInv
  <2> HIDE DEF row, after, call
  <2>7. QED
    BY <2>1, <2>2, <2>3, <2>4, <2>5, <2>6, RowStep, ZenonT(30)
<1>3. ASSUME NEW c \in Callers, CashOutCommits(c) PROVE Follows(v)
  <2> DEFINE call == calls[c]
             stack == table_seats[call.table][call.user].stack
             after == wallets[call.user] + stack
             row == LedgerRow("table_cash_out", call.table, stack, after)
  <2>1. /\ call.table \in Tables /\ call.user \in Users /\ call.key \in Keys
        /\ wallets[call.user] \in Nat /\ stack \in Nat
    BY <1>3, CashOutReads, Zenon
  <2>2. /\ wallet_ledger[<<call.user, call.key>>] = None
        /\ wallet_ledger' = [wallet_ledger EXCEPT ![<<call.user, call.key>>] = row]
        /\ wallets' = [wallets EXCEPT ![call.user] = @ + stack]
    BY <1>3, Zenon DEF CashOutCommits, KeyIsFree
  <2> HIDE DEF stack
  <2>3. row \in LedgerRows /\ row.balance_after = after /\ row.delta = stack
    BY <2>1, RowFields, SMTT(20)
  <2>4. wallets' = [wallets EXCEPT ![call.user] = row.balance_after]
    BY <2>1, <2>2, <2>3, ZenonT(30)
  <2>5. row.balance_after = wallets[call.user] + row.delta
    BY <2>1, <2>3, Zenon
  <2>6. StoreTypes
    BY DEF StoreInv
  <2> HIDE DEF row, after, call
  <2>7. QED
    BY <2>1, <2>2, <2>3, <2>4, <2>5, <2>6, RowStep, ZenonT(30)
<1>4. ASSUME NEW t \in Tables, AbortTableAndRefund(t) PROVE Follows(v)
  <2> DEFINE e == <<v, Crash(t)>>
             stack == table_seats[t][v].stack
  <2>1. /\ e \in Users \X LedgerKeys /\ e[1] = v /\ e[2] = Crash(t) /\ Crash(t) \in LedgerKeys
        /\ wallet_ledger[e] = None
    BY <1>4, SMTT(20) DEF AbortTableAndRefund, StoreInv, Closed, LedgerKeys
  <2>2. /\ wallets'[v] = wallets[v] + (IF v \in Seated(t) THEN stack ELSE 0)
        /\ v \in Seated(t) => wallet_ledger'[e] = LedgerRow("crash_refund", t, stack, wallets'[v])
    BY <1>4, <2>1, SMTT(20) DEF AbortTableAndRefund
  <2>3. \A j \in LedgerKeys : v \notin Seated(t) \/ j # Crash(t) =>
          wallet_ledger'[<<v, j>>] = wallet_ledger[<<v, j>>]
    BY <1>4, SMTT(20) DEF AbortTableAndRefund
  <2>4. CASE v \in Seated(t)
    <3>1. StoreTypes
      BY DEF StoreInv
    <3>2. stack \in Nat /\ wallets[v] \in Nat
      BY <2>4, <3>1, SeatFields, WalletType, Zenon
    <3> HIDE DEF stack
    <3>3. wallets'[v] = wallets[v] + stack
      BY <2>2, <2>4, Zenon
    <3>4. /\ LedgerRow("crash_refund", t, stack, wallets'[v]) \in LedgerRows
          /\ LedgerRow("crash_refund", t, stack, wallets'[v]).delta = stack
          /\ LedgerRow("crash_refund", t, stack, wallets'[v]).balance_after = wallets'[v]
      BY <3>2, <3>3, RowFields, SMTT(20)
    <3>5. PICK row \in LedgerRows : /\ row = wallet_ledger'[e] /\ row.delta = stack
                                    /\ row.balance_after = wallets'[v]
      BY <2>2, <2>4, <3>4, Zenon
    <3>6. row # None
      BY ReceiptType
    <3>7. \A j \in LedgerKeys \ {Crash(t)} : wallet_ledger'[<<v, j>>] = wallet_ledger[<<v, j>>]
      BY <2>3, SMTT(20)
    <3>8. QED
      BY <2>1, <3>3, <3>5, <3>6, <3>7, Zenon DEF Follows
  <2>5. CASE v \notin Seated(t)
    <3>1. wallets[v] \in Nat
      BY WalletType DEF StoreInv
    <3>2. wallets'[v] = wallets[v]
      BY <2>2, <2>5, <3>1
    <3>3. \A j \in LedgerKeys : wallet_ledger'[<<v, j>>] = wallet_ledger[<<v, j>>]
      BY <2>3, <2>5, Zenon
    <3>4. QED
      BY <3>2, <3>3, Zenon DEF Follows
  <2>6. QED
    BY <2>4, <2>5
<1>5. QED
  BY <1>1, <1>2, <1>3, <1>4, ZenonT(30) DEF Next, vars, CreateTable, Lookup, RollsBack,
       ReplayAfterRollback, CallFails, db, BeginHand, AppendAction, SettleHand

\* The wallets follow the ledger: no step moves a balance without the row that
\* explains it, or writes a row without moving the balance by its delta; retries,
\* failures and lost replies write nothing or all of it.
THEOREM WalletsFollowLedger == Spec => RowsMoveWallets
<1>1. StoreInv /\ [Next]_<<vars, load>> => [\A u \in Users : Follows(u)]_vars
  BY RowsFollow, Zenon
<1>2. QED
  BY StoreAlways, <1>1, PTL DEF Spec, RowsMoveWallets

-----------------------------------------------------------------------------
(* The MySQL store implements the in-memory one *)

\* A StoredTable from its three fields, and a seat from its row.
Stored(state, playing, seats) == [state |-> state, hand_in_progress |-> playing, seats |-> seats]
StoredSeat(row) == IF row = None THEN None ELSE [seat |-> row.seat_no, stack |-> row.stack]
StoredSeats(seats) == [u \in Users |-> StoredSeat(seats[u])]
NoSeats == [u \in Users |-> None]

\* The stored form of each status; the flags are FALSE and TRUE.
LEMMA StoredForms ==
  ASSUME NEW seats, NEW no, no = FALSE, NEW yes, yes = TRUE
  PROVE  /\ StoredTable(None, seats) = Stored("absent", no, StoredSeats(seats))
         /\ StoredTable("waiting", seats) = Stored("open", no, StoredSeats(seats))
         /\ StoredTable("playing", seats) = Stored("open", yes, StoredSeats(seats))
         /\ StoredTable("aborted", seats) = Stored("aborted", no, StoredSeats(seats))
<1>1. None \notin {"waiting", "playing", "aborted"}
  BY NoneAssumption DEF TableStatus
<1>2. StoredTable(None, seats) = Stored("absent", no, StoredSeats(seats))
  BY <1>1, Zenon DEF StoredTable, Stored, StoredSeats, StoredSeat
<1>3. StoredTable("waiting", seats) = Stored("open", no, StoredSeats(seats))
  BY <1>1, Zenon DEF StoredTable, Stored, StoredSeats, StoredSeat
<1>4. StoredTable("playing", seats) = Stored("open", yes, StoredSeats(seats))
  BY <1>1, Zenon DEF StoredTable, Stored, StoredSeats, StoredSeat
<1>5. StoredTable("aborted", seats) = Stored("aborted", no, StoredSeats(seats))
  BY <1>1, ZenonT(30) DEF StoredTable, Stored, StoredSeats, StoredSeat
<1>6. QED
  BY <1>2, <1>3, <1>4, <1>5, Zenon

\* The tables of the contract in the same form.
LEMMA NewForms ==
  ASSUME NEW no, no = FALSE
  PROVE  /\ Contract!NewTable = Stored("open", no, NoSeats)
         /\ [Contract!NewTable EXCEPT !.state = "absent"] = Stored("absent", no, NoSeats)
         /\ [Contract!NewTable EXCEPT !.state = "aborted"] = Stored("aborted", no, NoSeats)
<1>1. Contract!NewTable = Stored("open", no, NoSeats)
  BY Zenon DEF Contract!NewTable, Stored, NoSeats
<1>2. ASSUME NEW x PROVE [Stored("open", no, NoSeats) EXCEPT !.state = x] = Stored(x, no, NoSeats)
  BY DEF Stored
<1>3. QED
  BY <1>1, <1>2

\* The flag of the contract is the status of the row.
LEMMA StoredFlag ==
  ASSUME NEW t \in Tables
  PROVE  StoredTables[t].hand_in_progress <=> poker_tables[t] = "playing"
<1>1. StoredTables[t] = StoredTable(poker_tables[t], table_seats[t])
  BY DEF StoredTables
<1>2. ASSUME NEW status, NEW seats
      PROVE  StoredTable(status, seats).hand_in_progress <=> status = "playing"
  BY ZenonT(30) DEF StoredTable
<1>3. QED
  BY <1>1, <1>2, Zenon

\* What the guards of the in-memory store see.
LEMMA StoredGuards ==
  ASSUME StoreTypes, NEW t \in Tables
  PROVE  /\ poker_tables[t] = None => StoredTables[t].state = "absent"
         /\ poker_tables[t] \in {"waiting", "playing"} => StoredTables[t].state = "open"
         /\ StoredTables[t].seats = StoredSeats(table_seats[t])
         /\ Contract!Seated(t) = Seated(t)
         /\ \A u \in Seated(t) : /\ StoredTables[t].seats[u].stack = table_seats[t][u].stack
                                 /\ StoredTables[t].seats[u].seat = table_seats[t][u].seat_no
<1>1. StoredTables[t] = StoredTable(poker_tables[t], table_seats[t])
  BY DEF StoredTables
<1>2. /\ poker_tables[t] = None => StoredTables[t].state = "absent"
      /\ poker_tables[t] \in {"waiting", "playing"} => StoredTables[t].state = "open"
  BY <1>1, NoneAssumption DEF StoredTable, TableStatus
<1>3. StoredTables[t].seats = StoredSeats(table_seats[t])
  BY <1>1 DEF StoredTable, StoredSeats, StoredSeat
<1>4. \A u \in Seated(t) : table_seats[t][u] \in SeatRow
  BY SeatFields
<1>5. \A u \in Seated(t) :
        /\ StoredTables[t].seats[u] = [seat |-> table_seats[t][u].seat_no, stack |-> table_seats[t][u].stack]
        /\ [seat |-> table_seats[t][u].seat_no, stack |-> table_seats[t][u].stack] \in [seat : Nat, stack : Nat]
  BY <1>3, <1>4, Zenon DEF StoredSeats, StoredSeat, Seated, SeatRow
<1>6. \A u \in Users \ Seated(t) : StoredTables[t].seats[u] = None
  BY <1>3, Zenon DEF StoredSeats, StoredSeat, Seated
<1>7. Contract!Seated(t) = Seated(t)
  BY <1>5, <1>6, NoneAssumption, ZenonT(30) DEF Contract!Seated, Seated
<1>8. \A u \in Seated(t) : /\ StoredTables[t].seats[u].stack = table_seats[t][u].stack
                           /\ StoredTables[t].seats[u].seat = table_seats[t][u].seat_no
  <2> SUFFICES ASSUME NEW u \in Seated(t)
               PROVE  /\ StoredTables[t].seats[u].stack = table_seats[t][u].stack
                      /\ StoredTables[t].seats[u].seat = table_seats[t][u].seat_no
    BY Zenon
  <2>1. PICK a, b : a = table_seats[t][u].seat_no /\ b = table_seats[t][u].stack
    OBVIOUS
  <2>2. StoredTables[t].seats[u] = [seat |-> a, stack |-> b]
    BY <1>5, <2>1, Zenon
  <2>3. QED
    BY <2>1, <2>2
<1>9. QED
  BY <1>2, <1>3, <1>7, <1>8, Zenon

\* A table that waits or plays is open.
LEMMA StoredOpen ==
  ASSUME StoreInv, NEW t \in Tables, poker_tables[t] \in {"waiting", "playing"}
  PROVE  StoredTables[t].state = "open"
<1>1. StoreTypes
  BY DEF StoreInv
<1>2. QED
  BY <1>1, StoredGuards, Zenon

\* The users seated at a table are those of the in-memory store, with their seats.
LEMMA StoredSeated ==
  ASSUME StoreInv, NEW t \in Tables
  PROVE  /\ Contract!Seated(t) = Seated(t)
         /\ \A u \in Seated(t) : /\ StoredTables[t].seats[u].stack = table_seats[t][u].stack
                                 /\ StoredTables[t].seats[u].seat = table_seats[t][u].seat_no
<1>1. StoreTypes
  BY DEF StoreInv
<1>2. QED
  BY <1>1, StoredGuards, Zenon

\* A row that is written for a caller's key.
LEMMA LedgerStep ==
  ASSUME StoreTypes, NEW e \in Users \X Keys, NEW row,
         wallet_ledger' = [wallet_ledger EXCEPT ![e] = row]
  PROVE  LedgerResults' = [LedgerResults EXCEPT ![e] = LedgerResult(row)]
BY Zenon DEF StoreTypes, LedgerResults, LedgerKeys

\* A seat that is sold or given up at a waiting table.
LEMMA SeatStep ==
  ASSUME StoreTypes, NEW t \in Tables, NEW u \in Users, NEW row, poker_tables[t] = "waiting",
         UNCHANGED poker_tables, table_seats' = [table_seats EXCEPT ![t][u] = row]
  PROVE  StoredTables' = [StoredTables EXCEPT ![t].seats[u] = StoredSeat(row)]
<1> DEFINE before == table_seats[t]
           after == [before EXCEPT ![u] = row]
<1>1. before \in [Users -> SeatRow \cup {None}]
  BY Zenon DEF StoreTypes
<1>2. /\ poker_tables' = [poker_tables EXCEPT ![t] = "waiting"]
      /\ table_seats' = [table_seats EXCEPT ![t] = after]
  BY Zenon DEF StoreTypes
<1>3. StoredSeats(after) = [StoredSeats(before) EXCEPT ![u] = StoredSeat(row)]
  BY <1>1, Zenon DEF StoredSeats
<1> HIDE DEF before, after
<1>4. StoredTables' = [StoredTables EXCEPT ![t] = StoredTable("waiting", after)]
  BY <1>2, Zenon DEF StoreTypes, StoredTables
<1>5. StoredTables[t] = StoredTable("waiting", before)
  BY DEF StoredTables, before
<1>6. PICK no, yes : no = FALSE /\ yes = TRUE
  BY Zenon
<1>7. /\ StoredTables[t] = Stored("open", no, StoredSeats(before))
      /\ StoredTable("waiting", after) = Stored("open", no, StoredSeats(after))
  BY <1>5, <1>6, StoredForms, Zenon
<1>8. ASSUME NEW r, NEW s, NEW x, r = Stored("open", no, s)
      PROVE  [r EXCEPT !.seats[u] = x] = Stored("open", no, [s EXCEPT ![u] = x])
  BY <1>8 DEF Stored
<1>9. [StoredTables[t] EXCEPT !.seats[u] = StoredSeat(row)]
        = Stored("open", no, [StoredSeats(before) EXCEPT ![u] = StoredSeat(row)])
  BY <1>7, <1>8, SMTT(20)
<1>10. QED
  BY <1>3, <1>4, <1>7, <1>9, ZenonT(30)

\* The transaction of reserveBuyIn is reserveBuyIn of the in-memory store.
LEMMA BuyInImplements ==
  ASSUME StoreInv, NEW c \in Callers, BuyInCommits(c) PROVE Contract!Next
<1> DEFINE call == calls[c]
           t == call.table
           u == call.user
           k == call.key
           seat == call.seat
           amount == call.amount
           row == LedgerRow("table_buy_in", t, -amount, wallets[u] - amount)
           held == [seat_no |-> seat, stack |-> amount, hand_start_stack |-> amount]
<1>1. /\ t \in Tables /\ u \in Users /\ k \in Keys /\ seat \in Nat /\ amount \in Nat
      /\ wallets[u] \in Nat
  BY BuyInReads, Zenon
<1>2. /\ poker_tables[t] = "waiting" /\ seat < MaxPlayers
      /\ MinBuyIn <= amount /\ amount <= MaxBuyIn /\ wallets[u] >= amount
      /\ u \notin Seated(t) /\ \A v \in Seated(t) : table_seats[t][v].seat_no # seat
      /\ wallet_ledger[<<u, k>>] = None
      /\ table_seats' = [table_seats EXCEPT ![t][u] = held]
      /\ wallets' = [wallets EXCEPT ![u] = @ - amount]
      /\ wallet_ledger' = [wallet_ledger EXCEPT ![<<u, k>>] = row]
      /\ UNCHANGED <<poker_tables, hands, hand_actions>>
  BY ZenonT(30) DEF BuyInCommits, KeyIsFree, SeatIsFree
<1>3. LedgerResult(row) = [kind |-> "buy_in", table |-> t, balance |-> wallets[u] - amount, chips |-> amount]
  <2>1. row \in LedgerRows
    BY <1>1, RowFields
  <2>2. row # None
    BY <2>1, NoneAssumption, Zenon
  <2>3. -(-amount) = amount
    BY <1>1
  <2>4. QED
    BY <2>2, <2>3, Zenon DEF LedgerResult, LedgerRow
<1>4. StoredSeat(held) = [seat |-> seat, stack |-> amount]
  <2>1. held \in SeatRow
    BY <1>1, Zenon DEF SeatRow
  <2>2. QED
    BY <2>1, NoneAssumption, Zenon DEF StoredSeat
<1> HIDE DEF t, u, k, seat, amount, row, held
<1>5. LedgerResults[<<u, k>>] = None
  BY <1>1, <1>2, Zenon DEF LedgerResults, LedgerResult
<1>6. /\ seat \in 0 .. MaxPlayers - 1 /\ amount \in MinBuyIn .. MaxBuyIn
  BY <1>1, <1>2, StoreAssumption, SMTT(20)
<1>7. /\ StoredTables[t].state = "open" /\ u \notin Contract!Seated(t)
      /\ \A v \in Contract!Seated(t) : StoredTables[t].seats[v].seat # seat
  <2>1. /\ poker_tables[t] = "waiting" /\ u \notin Seated(t)
        /\ \A v \in Seated(t) : table_seats[t][v].seat_no # seat
    BY <1>2
  <2>2. StoredTables[t].state = "open"
    BY <1>1, <2>1, StoredOpen, Zenon
  <2>3. QED
    BY <1>1, <2>1, <2>2, StoredSeated, Zenon
<1>8. ~StoredTables[t].hand_in_progress
  <2>1. poker_tables[t] = "waiting"
    BY <1>2, Zenon
  <2>2. QED
    BY <1>1, <2>1, StoredFlag, Zenon
<1>9. StoredTables' = [StoredTables EXCEPT ![t].seats[u] = [seat |-> seat, stack |-> amount]]
  BY <1>1, <1>2, <1>4, SeatStep, ZenonT(30) DEF StoreInv
<1>10. LedgerResults' = [LedgerResults EXCEPT ![<<u, k>>] =
                           [kind |-> "buy_in", table |-> t, balance |-> wallets[u] - amount, chips |-> amount]]
  BY <1>1, <1>2, <1>3, LedgerStep, Zenon DEF StoreInv
<1>11. Begun' = Begun /\ Settled' = Settled
  BY <1>2, Zenon DEF Begun, Settled
<1>12. Contract!ReserveBuyIn(t, u, seat, amount, k)
  BY <1>1, <1>2, <1>5, <1>6, <1>7, <1>8, <1>9, <1>10, <1>11, SMTT(20) DEF Contract!ReserveBuyIn
<1>13. QED
  BY <1>1, <1>6, <1>12, Zenon DEF Contract!Next

\* That of cashOut is its cashOut.
LEMMA CashOutImplements ==
  ASSUME StoreInv, NEW c \in Callers, CashOutCommits(c) PROVE Contract!Next
<1> DEFINE call == calls[c]
           t == call.table
           u == call.user
           k == call.key
           stack == table_seats[t][u].stack
           row == LedgerRow("table_cash_out", t, stack, wallets[u] + stack)
<1>1. t \in Tables /\ u \in Users /\ k \in Keys /\ wallets[u] \in Nat
  BY CashOutReads, Zenon
<1>2. /\ poker_tables[t] = "waiting" /\ u \in Seated(t) /\ wallet_ledger[<<u, k>>] = None
      /\ table_seats' = [table_seats EXCEPT ![t][u] = None]
      /\ wallets' = [wallets EXCEPT ![u] = @ + stack]
      /\ wallet_ledger' = [wallet_ledger EXCEPT ![<<u, k>>] = row]
      /\ UNCHANGED <<poker_tables, hands, hand_actions>>
  BY ZenonT(30) DEF CashOutCommits, KeyIsFree
<1>3. stack \in Nat
  BY CashOutReads, SMTT(20)
<1>4. poker_tables[t] = "waiting" /\ u \in Seated(t)
  BY <1>2, ZenonT(30)
<1> HIDE DEF t, u, k, stack
<1>5. LedgerResult(row) = [kind |-> "cash_out", table |-> t, balance |-> wallets[u] + stack, chips |-> stack]
  <2>1. row \in LedgerRows
    BY <1>1, <1>3, RowFields
  <2>2. row # None
    BY <2>1, NoneAssumption, SMTT(20)
  <2>3. QED
    BY <2>2, Zenon DEF LedgerResult, LedgerRow
<1> HIDE DEF row
<1>6. LedgerResults[<<u, k>>] = None
  BY <1>1, <1>2, Zenon DEF LedgerResults, LedgerResult
<1>7. /\ StoredTables[t].state # "absent" /\ u \in Contract!Seated(t)
      /\ StoredTables[t].seats[u].stack = stack
  <2>1. StoredTables[t].state = "open"
    BY <1>1, <1>4, StoredOpen, SMTT(20)
  <2>2. u \in Contract!Seated(t) /\ StoredTables[t].seats[u].stack = table_seats[t][u].stack
    BY <1>1, <1>4, StoredSeated, Zenon
  <2>3. QED
    BY <2>1, <2>2, Zenon DEF stack
<1>8. ~StoredTables[t].hand_in_progress
  BY <1>1, <1>4, StoredFlag, Zenon
<1>9. StoredTables' = [StoredTables EXCEPT ![t].seats[u] = None]
  <2>1. StoredSeat(None) = None
    BY DEF StoredSeat
  <2>2. QED
    BY <1>1, <1>2, <2>1, SeatStep, ZenonT(30) DEF StoreInv
<1>10. LedgerResults' = [LedgerResults EXCEPT ![<<u, k>>] =
                           [kind |-> "cash_out", table |-> t, balance |-> wallets[u] + stack, chips |-> stack]]
  BY <1>1, <1>2, <1>5, LedgerStep, Zenon DEF StoreInv
<1>11. Begun' = Begun /\ Settled' = Settled
  BY <1>2 DEF Begun, Settled
<1>12. Contract!CashOut(t, u, k)
  BY <1>1, <1>2, <1>6, <1>7, <1>8, <1>9, <1>10, <1>11, SMTT(20) DEF Contract!CashOut
<1>13. QED
  BY <1>1, <1>12, Zenon DEF Contract!Next

\* createTable is its createTable.
LEMMA CreateImplements == ASSUME StoreInv, NEW t \in Tables, CreateTable(t) PROVE Contract!Next
<1> DEFINE seats == table_seats[t]
<1>1. /\ poker_tables[t] = None /\ poker_tables' = [poker_tables EXCEPT ![t] = "waiting"]
      /\ UNCHANGED <<wallets, table_seats, hands, hand_actions, wallet_ledger>>
  BY DEF CreateTable
<1>2. StoredSeats(seats) = NoSeats
  BY <1>1, Zenon DEF StoreInv, Closed, StoredSeats, StoredSeat, NoSeats
<1>3. StoredTables' = [StoredTables EXCEPT ![t] = StoredTable("waiting", seats)]
  BY <1>1, Zenon DEF StoreInv, StoreTypes, StoredTables
<1> HIDE DEF seats
<1>4. PICK no, yes : no = FALSE /\ yes = TRUE
  BY Zenon
<1>5. StoredTable("waiting", seats) = Contract!NewTable
  <2>1. StoredTable("waiting", seats) = Stored("open", no, NoSeats)
    BY <1>2, <1>4, StoredForms, ZenonT(30)
  <2>2. QED
    BY <1>4, <2>1, NewForms, ZenonT(30)
<1>6. StoredTables[t].state = "absent"
  BY <1>1, StoredGuards, Zenon DEF StoreInv
<1>7. LedgerResults' = LedgerResults /\ Begun' = Begun /\ Settled' = Settled
  BY <1>1, ZenonT(30) DEF LedgerResults, Begun, Settled
<1>8. Contract!CreateTable(t)
  BY <1>1, <1>3, <1>5, <1>6, <1>7, ZenonT(30) DEF Contract!CreateTable
<1>9. QED
  BY <1>8, Zenon DEF Contract!Next

\* abortTableAndRefund is its abortTableAndRefund.
LEMMA AbortImplements ==
  ASSUME StoreInv, NEW t \in Tables, AbortTableAndRefund(t) PROVE Contract!Next
<1>1. /\ poker_tables[t] \in {"waiting", "playing"}
      /\ poker_tables' = [poker_tables EXCEPT ![t] = "aborted"]
      /\ table_seats' = [table_seats EXCEPT ![t] = NoSeats]
      /\ wallets' = [u \in Users |-> wallets[u] + (IF u \in Seated(t) THEN table_seats[t][u].stack ELSE 0)]
      /\ hands' = [h \in Hands |-> IF h[1] = t /\ hands[h] = "playing" THEN "aborted" ELSE hands[h]]
      /\ UNCHANGED hand_actions
  BY Zenon DEF AbortTableAndRefund, NoSeats
<1>2. StoredSeats(NoSeats) = NoSeats
  BY SMTT(20) DEF StoredSeats, StoredSeat, NoSeats
<1>3. StoredTables' = [StoredTables EXCEPT ![t] = StoredTable("aborted", NoSeats)]
  BY <1>1, Zenon DEF StoreInv, StoreTypes, StoredTables
<1>4. PICK no, yes : no = FALSE /\ yes = TRUE
  BY Zenon
<1>5. StoredTable("aborted", NoSeats) = [Contract!NewTable EXCEPT !.state = "aborted"]
  <2>1. StoredTable("aborted", NoSeats) = Stored("aborted", no, NoSeats)
    BY <1>2, <1>4, StoredForms, ZenonT(30)
  <2>2. QED
    BY <1>4, <2>1, NewForms, Zenon
<1>6. StoredTables[t].state = "open" /\ Contract!Seated(t) = Seated(t)
  BY <1>1, StoredGuards, Zenon DEF StoreInv
<1>7. \A u \in Seated(t) : StoredTables[t].seats[u].stack = table_seats[t][u].stack
  BY StoredGuards, SMTT(20) DEF StoreInv
<1>8. wallets' = [u \in Users |-> wallets[u] + (IF u \in Contract!Seated(t)
                                                THEN StoredTables[t].seats[u].stack ELSE 0)]
  BY <1>1, <1>6, <1>7, SMTT(20)
<1>9. LedgerResults' = LedgerResults
  <2>1. \A e \in Users \X Keys : e \in Users \X LedgerKeys /\ e[2] # Crash(t)
    BY StoreAssumption, SMTT(20) DEF LedgerKeys
  <2>2. \A e \in Users \X Keys : wallet_ledger'[e] = wallet_ledger[e]
    BY <2>1, Zenon DEF AbortTableAndRefund
  <2>3. QED
    BY <2>2, Zenon DEF LedgerResults
<1>10. Begun' = Begun /\ Settled' = Settled
  BY <1>1, NoneAssumption, Zenon DEF Begun, Settled, HandStatus
<1>11. Contract!AbortTableAndRefund(t)
  BY <1>1, <1>3, <1>5, <1>6, <1>8, <1>9, <1>10, Zenon DEF Contract!AbortTableAndRefund
<1>12. QED
  BY <1>11, Zenon DEF Contract!Next

\* Both specifications count, add and name the stacks of a hand alike.
LEMMA SameOperators ==
  /\ \A S : Contract!Cardinality(S) = Cardinality(S)
  /\ \A f : Contract!SumOf(f) = SumOf(f)
  /\ Contract!Hands = Hands
  /\ Contract!Chips = Chips
<1>1. \A f : Contract!SumOf(f) = SumOf(f)
  BY DEF Contract!SumOf, SumOf, Contract!MapThenSumSet, MapThenSumSet,
         Contract!MapThenFoldSet, MapThenFoldSet
<1>2. Contract!Hands = Hands
  BY DEF Contract!Hands, Hands
<1>3. \A S : Contract!Cardinality(S) = Cardinality(S)
  BY DEF Contract!Cardinality, Cardinality
<1>4. Contract!Chips = Chips
  BY <1>3 DEF Contract!Chips, Chips
<1>5. QED
  BY <1>1, <1>2, <1>3, <1>4

\* The stacks that a caller reports are those that both stores hold.
LEMMA SameStacks ==
  ASSUME StoreTypes, NEW t \in Tables, NEW players \in SUBSET Seated(t)
  PROVE  Contract!Stacks(t, players) = Stacks(t, players)
<1>1. \A u \in players : StoredTables[t].seats[u].stack = table_seats[t][u].stack
  BY StoredGuards, SMTT(20)
<1>2. QED
  BY <1>1 DEF Contract!Stacks, Stacks

\* beginHand is its beginHand.
LEMMA BeginImplements ==
  ASSUME StoreInv, NEW h \in Hands, NEW players \in SUBSET Seated(h[1]),
         BeginHand(h, Stacks(h[1], players))
  PROVE  Contract!Next
<1> DEFINE t == h[1]
           start == Stacks(t, players)
           before == table_seats[t]
           after == [u \in Users |-> IF u \in players
                                     THEN [before[u] EXCEPT !.hand_start_stack = start[u]] ELSE before[u]]
<1>1. t \in Tables /\ players \subseteq Users /\ DOMAIN start = players
  BY DEF Hands, Seated, Stacks
<1>2. /\ Cardinality(players) >= 2 /\ poker_tables[t] = "waiting" /\ hands[h] = None
      /\ hands' = [hands EXCEPT ![h] = "playing"]
      /\ table_seats' = [table_seats EXCEPT ![t] = after]
      /\ poker_tables' = [poker_tables EXCEPT ![t] = "playing"]
      /\ UNCHANGED <<wallets, hand_actions, wallet_ledger>>
  BY <1>1, SMTT(20) DEF BeginHand, StoreInv, StoreTypes
<1>3. StoredSeats(after) = StoredSeats(before)
  <2> SUFFICES ASSUME NEW u \in players PROVE StoredSeat(after[u]) = StoredSeat(before[u])
    BY Zenon DEF StoredSeats
  <2>0. u \in Seated(t) /\ start[u] = before[u].stack
    BY Zenon DEF Stacks
  <2>1. before[u] \in SeatRow /\ start[u] \in Nat /\ u \in Users
    BY <1>1, <2>0, SeatFields, Zenon DEF StoreInv
  <2>2. PICK x \in Nat : x = start[u]
    BY <2>1, Zenon
  <2>3. after[u] = [before[u] EXCEPT !.hand_start_stack = x]
    BY <2>1, <2>2
  <2> HIDE DEF after, before
  <2>4. after[u] \in SeatRow /\ after[u].seat_no = before[u].seat_no /\ after[u].stack = before[u].stack
    BY <2>1, <2>3, SMTT(20) DEF SeatRow
  <2>5. QED
    BY <2>1, <2>4, NoneAssumption, Zenon DEF StoredSeat
<1>4. StoredTables' = [StoredTables EXCEPT ![t] = StoredTable("playing", after)]
  <2> HIDE DEF after
  <2>1. QED
    BY <1>1, <1>2, Zenon DEF StoreInv, StoreTypes, StoredTables
<1>5. StoredTables[t] = StoredTable("waiting", before)
  BY <1>1, <1>2, SMTT(20) DEF StoredTables
<1>6. \A u \in players : u \in Contract!Seated(t) /\ StoredTables[t].seats[u].stack = start[u]
  <2>1. \A u \in players : u \in Seated(t) /\ start[u] = table_seats[t][u].stack
    BY Zenon DEF Stacks
  <2>2. QED
    BY <1>1, <2>1, StoredSeated, Zenon
<1>7. Contract!Stacks(t, players) = start
  BY <1>1, SameStacks, Zenon DEF StoreInv
<1> HIDE DEF start, before, after
<1>8. PICK no, yes : no = FALSE /\ yes = TRUE
  BY Zenon
<1>9. /\ StoredTables[t] = Stored("open", no, StoredSeats(before))
      /\ StoredTable("playing", after) = Stored("open", yes, StoredSeats(before))
  BY <1>3, <1>5, <1>8, StoredForms, Zenon
<1>10. ASSUME NEW r, NEW s, r = Stored("open", no, s)
       PROVE  [r EXCEPT !.hand_in_progress = yes] = Stored("open", yes, s)
  BY <1>10 DEF Stored
<1>11. [StoredTables[t] EXCEPT !.hand_in_progress = yes] = StoredTable("playing", after)
  BY <1>9, <1>10
<1>12. StoredTables' = [StoredTables EXCEPT ![t].hand_in_progress = TRUE]
  BY <1>4, <1>8, <1>11, ZenonT(30)
<1>13. ~StoredTables[t].hand_in_progress /\ StoredTables[t].state = "open"
  <2>1. poker_tables[t] = "waiting"
    BY <1>2
  <2>2. ~StoredTables[t].hand_in_progress
    BY <1>1, <2>1, StoredFlag, Zenon
  <2>3. QED
    BY <1>1, <2>1, <2>2, StoredOpen, Zenon
<1>15. /\ h \in Contract!Hands \ Begun
       /\ Begun' = Begun \cup {h} /\ Settled' = Settled /\ LedgerResults' = LedgerResults
  <2>1. hands \in [Hands -> HandStatus \cup {None}] /\ "playing" # None /\ "playing" # "settled"
    BY NoneAssumption, Zenon DEF StoreInv, StoreTypes, HandStatus
  <2>2. hands[h] = None /\ hands' = [hands EXCEPT ![h] = "playing"] /\ UNCHANGED wallet_ledger
    BY <1>2, Zenon
  <2>3. /\ hands'[h] = "playing"
        /\ \A g \in Hands : g # h => hands'[g] = hands[g]
    BY <2>1, <2>2, SMTT(20)
  <2>4. LedgerResults' = LedgerResults
    BY <2>2, Zenon DEF LedgerResults
  <2>5. h \notin Begun /\ Begun' = Begun \cup {h}
    BY <2>1, <2>2, <2>3, SMTT(20) DEF Begun
  <2>6. Settled' = Settled
    BY <2>1, <2>2, <2>3, NoneAssumption, Zenon DEF Settled, HandStatus
  <2>7. QED
    BY <2>4, <2>5, <2>6, SameOperators, SMTT(20)
<1>16. Contract!BeginHand(h, start)
  BY <1>1, <1>2, <1>6, <1>12, <1>13, <1>15, SameOperators, SMTT(20) DEF Contract!BeginHand
<1>17. QED
  BY <1>1, <1>6, <1>7, <1>15, <1>16, ZenonT(30) DEF Contract!Next

\* appendAction is its appendAction.
LEMMA AppendImplements ==
  ASSUME StoreInv, NEW row \in ActionRows, AppendAction(row) PROVE Contract!Next
<1>1. row.hand \in Hands
  BY StoreAssumption
<1>2. row.hand \in Begun /\ row.hand \notin Settled
  BY <1>1, NoneAssumption, Zenon DEF AppendAction, Begun, Settled, HandStatus
<1>3. StoredTables' = StoredTables /\ LedgerResults' = LedgerResults /\ Begun' = Begun /\ Settled' = Settled
  BY Zenon DEF AppendAction, StoredTables, LedgerResults, Begun, Settled
<1>4. Contract!AppendAction(row)
  BY <1>2, <1>3, Zenon DEF AppendAction, Contract!AppendAction, Clash,
     Contract!Clash
<1>5. QED
  BY <1>4, Zenon DEF Contract!Next

\* settleHand is its settleHand.
LEMMA SettleImplements ==
  ASSUME StoreInv, NEW h \in Hands, NEW players \in SUBSET Seated(h[1]),
         NEW end \in [players -> Chips], SettleHand(h, Stacks(h[1], players), end)
  PROVE  Contract!Next
<1> DEFINE t == h[1]
           start == Stacks(t, players)
           before == table_seats[t]
           after == [u \in Users |-> IF u \in players
                                     THEN [before[u] EXCEPT !.stack = end[u],
                                                         !.hand_start_stack = end[u]]
                                     ELSE before[u]]
           held == StoredTables[t].seats
           paid == [u \in Users |-> IF u \in players THEN [held[u] EXCEPT !.stack = end[u]] ELSE held[u]]
<1>1. /\ t \in Tables /\ players \subseteq Users /\ DOMAIN start = players /\ DOMAIN end = players
      /\ \A u \in players : end[u] \in Nat
  BY SMTT(20) DEF Hands, Seated, Stacks, Chips
<1>2. /\ ValidHandSettlement(start, end) /\ poker_tables[t] = "playing" /\ hands[h] = "playing"
      /\ hands' = [hands EXCEPT ![h] = "settled"]
      /\ table_seats' = [table_seats EXCEPT ![t] = after]
      /\ poker_tables' = [poker_tables EXCEPT ![t] = "waiting"]
      /\ UNCHANGED <<wallets, hand_actions, wallet_ledger>>
  BY <1>1, ZenonT(30) DEF SettleHand, StoreInv, StoreTypes
<1>3. held = StoredSeats(before)
  BY <1>1, StoredGuards, Zenon DEF StoreInv
<1>4. StoredSeats(after) = paid
  <2> SUFFICES ASSUME NEW u \in players PROVE StoredSeat(after[u]) = [held[u] EXCEPT !.stack = end[u]]
    BY <1>3, ZenonT(30) DEF StoredSeats
  <2>1. before[u] \in SeatRow /\ end[u] \in Nat /\ u \in Users
    BY <1>1, SeatFields, SMTT(20) DEF StoreInv
  <2>2. PICK x \in Nat : x = end[u]
    BY <2>1, Zenon
  <2>3. after[u] = [before[u] EXCEPT !.stack = x, !.hand_start_stack = x]
    BY <2>1, <2>2, SMTT(20)
  <2>4. held[u] = StoredSeat(before[u])
    BY <1>3, <2>1, Zenon DEF StoredSeats
  <2> HIDE DEF after, before, held
  <2>5. after[u] \in SeatRow /\ after[u].seat_no = before[u].seat_no /\ after[u].stack = x
    BY <2>1, <2>3, ZenonT(30) DEF SeatRow
  <2>6. held[u] = [seat |-> before[u].seat_no, stack |-> before[u].stack]
    BY <2>1, <2>4, NoneAssumption, Zenon DEF StoredSeat
  <2>7. StoredSeat(after[u]) = [seat |-> before[u].seat_no, stack |-> x]
    BY <2>5, NoneAssumption, Zenon DEF StoredSeat
  <2>8. QED
    BY <2>2, <2>6, <2>7, SMTT(20)
<1>5. StoredTables' = [StoredTables EXCEPT ![t] = StoredTable("waiting", after)]
  <2> HIDE DEF after
  <2>1. QED
    BY <1>1, <1>2, ZenonT(30) DEF StoreInv, StoreTypes, StoredTables
<1>6. StoredTables[t] = StoredTable("playing", before)
  BY <1>1, <1>2, ZenonT(30) DEF StoredTables
<1>7. \A u \in players : u \in Contract!Seated(t) /\ StoredTables[t].seats[u].stack = start[u]
  <2>1. \A u \in players : u \in Seated(t) /\ start[u] = table_seats[t][u].stack
    BY Zenon DEF Stacks
  <2>2. QED
    BY <1>1, <2>1, StoredSeated, SMTT(20)
<1>8. Contract!Stacks(t, players) = start
  BY <1>1, SameStacks, Zenon DEF StoreInv
<1> HIDE DEF start, before, after, paid
<1>9. PICK no, yes : no = FALSE /\ yes = TRUE
  BY Zenon
<1>10. /\ StoredTables[t] = Stored("open", yes, held)
       /\ StoredTable("waiting", after) = Stored("open", no, paid)
  BY <1>3, <1>4, <1>6, <1>9, StoredForms, Zenon
<1>11. StoredTables' = [StoredTables EXCEPT ![t] =
                          [state |-> "open", hand_in_progress |-> FALSE, seats |-> paid]]
  BY <1>5, <1>9, <1>10, ZenonT(30) DEF Stored
<1>12. poker_tables[t] = "playing"
  BY <1>2, Zenon
<1>13. StoredTables[t].hand_in_progress /\ StoredTables[t].state = "open"
  <2>1. StoredTables[t].hand_in_progress
    BY <1>1, <1>12, StoredFlag, Zenon
  <2>2. QED
    BY <1>1, <1>12, <2>1, StoredOpen, Zenon
<1>14. /\ h \in Begun \ Settled
       /\ Begun' = Begun /\ Settled' = Settled \cup {h} /\ LedgerResults' = LedgerResults
  <2>1. hands \in [Hands -> HandStatus \cup {None}] /\ "playing" # None /\ "settled" # None
    BY NoneAssumption, Zenon DEF StoreInv, StoreTypes, HandStatus
  <2>2. hands[h] = "playing" /\ hands' = [hands EXCEPT ![h] = "settled"] /\ UNCHANGED wallet_ledger
    BY <1>2, Zenon
  <2>3. /\ hands'[h] = "settled"
        /\ \A g \in Hands : g # h => hands'[g] = hands[g]
    BY <2>1, <2>2, SMTT(20)
  <2>4. LedgerResults' = LedgerResults
    BY <2>2, ZenonT(30) DEF LedgerResults
  <2>5. h \in Begun \ Settled /\ Begun' = Begun
    BY <2>1, <2>2, <2>3, Zenon DEF Begun, Settled
  <2>6. Settled' = Settled \cup {h}
    BY <2>3, Zenon DEF Settled
  <2>7. QED
    BY <2>4, <2>5, <2>6, SMTT(20)
<1>15. Contract!ValidHandSettlement(start, end)
  BY <1>2, SameOperators, Zenon DEF ValidHandSettlement,
     Contract!ValidHandSettlement
<1>16. Contract!SettleHand(h, start, end)
  BY <1>1, <1>2, <1>7, <1>11, <1>13, <1>14, <1>15, SMTT(20) DEF Contract!SettleHand, paid
<1>17. players \in SUBSET Contract!Seated(t) /\ end \in [players -> Contract!Chips]
  BY <1>7, SameOperators, ZenonT(30)
<1>18. QED
  BY <1>8, <1>14, <1>16, <1>17, Zenon DEF Contract!Next

\* A step that writes no rows is no step of the in-memory store.
LEMMA QuietImplements == ASSUME UNCHANGED db PROVE UNCHANGED Contract!vars
BY Zenon DEF db, Contract!vars, StoredTables, LedgerResults, Begun, Settled

\* An empty database is an empty in-memory store.
LEMMA StartImplements == ASSUME Init PROVE Contract!Init
<1>1. StoredTables = [t \in Tables |-> StoredTable(None, NoSeats)]
  BY Zenon DEF Init, StoredTables, NoSeats
<1>2. PICK no, yes : no = FALSE /\ yes = TRUE
  BY Zenon
<1>3. StoredSeats(NoSeats) = NoSeats
  BY DEF StoredSeats, StoredSeat, NoSeats
<1>4. StoredTable(None, NoSeats) = Stored("absent", no, NoSeats)
  BY <1>2, <1>3, StoredForms, Zenon
<1>5. StoredTable(None, NoSeats) = [Contract!NewTable EXCEPT !.state = "absent"]
  BY <1>2, <1>4, NewForms, Zenon
<1>6. LedgerResults = [e \in Users \X Keys |-> None]
  BY Zenon DEF Init, LedgerResults, LedgerResult, LedgerKeys
<1>7. Begun = {} /\ Settled = {}
  BY NoneAssumption, Zenon DEF Init, Begun, Settled, HandStatus
<1>8. QED
  BY <1>1, <1>5, <1>6, <1>7 DEF Contract!Init, Init

\* Whatever the callers' interleavings, failures and lost replies, the rows
\* change as in a store that runs every call alone under one mutex, and at most
\* once per key: each transaction is one call of the in-memory store, and no
\* other step changes what that store keeps (mysql_game_store.cpp against
\* in_memory_game_store.cpp).
THEOREM StoreImplements == Spec => ImplementsContract
<1>1. StoreInv /\ [Next]_<<vars, load>> => [Contract!Next]_(Contract!vars)
  <2> SUFFICES ASSUME StoreInv, [Next]_<<vars, load>>
               PROVE  Contract!Next \/ UNCHANGED Contract!vars
    OBVIOUS
  <2>1. CASE UNCHANGED <<vars, load>>
    BY <2>1, QuietImplements, SMTT(20) DEF vars, db
  <2>2. ASSUME NEW c \in Callers, NEW call, Lookup(c, call) PROVE UNCHANGED Contract!vars
    BY <2>2, QuietImplements, Zenon DEF Lookup
  <2>3. ASSUME NEW c \in Callers, RollsBack(c) \/ ReplayAfterRollback(c) \/ CallFails(c)
        PROVE  UNCHANGED Contract!vars
    BY <2>3, QuietImplements DEF RollsBack, ReplayAfterRollback, CallFails
  <2>4. QED
    BY <2>1, <2>2, <2>3, CreateImplements, AbortImplements, BuyInImplements,
       CashOutImplements, BeginImplements, AppendImplements, SettleImplements, Zenon
       DEF Next
<1>2. QED
  BY StoreAlways, StartImplements, <1>1, PTL DEF Spec, ImplementsContract, Contract!Spec
=============================================================================
