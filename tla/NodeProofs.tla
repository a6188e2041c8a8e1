----------------------------- MODULE NodeProofs -----------------------------
(***************************************************************************)
(* The nodes of a cluster, and the threads of one that use the database,   *)
(* which share no state.                                                   *)
(*                                                                         *)
(* For any number of nodes, users, storage threads and tables, and any     *)
(* grace period: the reaper waits, an aborted table holds no chips, and a  *)
(* node that serves has paid back what an earlier process lost, as long as *)
(* the listing it starts from is not cut off.                              *)
(*                                                                         *)
(* For any number of threads and any pool: every MySQL handle is available *)
(* or held by one thread, is never closed while anybody has it, and is not *)
(* handed on inside a transaction.  Neither EveryHandleOnce nor            *)
(* AvailableIsClean is inductive alone: what may happen to a handle        *)
(* depends on how far its thread has come.                                 *)
(***************************************************************************)
EXTENDS NodeFailures, StorageThreads, FiniteSetTheorems, TLAPS

-----------------------------------------------------------------------------
(* Nodes *)

Creation == [kind : {"create"}, step : {"store"}, table : Tables, node : Nodes]
Buying ==
  [kind : {"sit"}, step : {"reserve", "seat"}, table : Tables, node : Nodes, user : Users]

NodeTypes ==
  /\ live \subseteq Nodes
  /\ row \in [Tables -> {NoRow} \cup [status : {"open", "aborted"}, node : Nodes]]
  /\ seats \in [Tables -> SUBSET Users]
  /\ process \in [Nodes -> {"down", "starting", "up"}]
  /\ stale \in [Nodes -> SUBSET Tables]
  /\ op \in [Workers -> {Idle} \cup Creation \cup Buying]
  /\ sweep \in [step : {"idle", "reap"}, due : SUBSET Tables]
  /\ missing \in [Nodes -> Nat \cup {None}] /\ unseen \in [Nodes -> Nat]
  /\ lost \subseteq Tables \X Users

\* A table that is being created has no row yet, and one worker creates it: a
\* row never changes its node.
Creating ==
  \A w \in Workers : op[w].step = "store" =>
    /\ row[op[w].table].status = "none"
    /\ \A v \in Workers : op[v] # Idle /\ op[v].table = op[w].table => v = w

\* A worker at a table's buy-in has found its row.
Sitting ==
  \A w \in Workers : op[w].step \in {"reserve", "seat"} => row[op[w].table].status # "none"

\* What is due or stale has a row.
Listed ==
  /\ \A t \in sweep.due : row[t].status # "none"
  /\ \A n \in Nodes : \A t \in stale[n] : row[t].status # "none"

\* missing_since_ is no older than the last time the node was seen, and between
\* sweeps nothing is due.
Clocks ==
  /\ \A n \in Nodes : missing[n] # None => missing[n] <= unseen[n]
  /\ sweep.step = "idle" => sweep.due = {}
  /\ GraceIsKept

\* Until it serves, a node has the tables of its lost seats on its list.
Owed ==
  \A s \in lost :
    /\ row[s[1]].status = "open"
    /\ process[row[s[1]].node] = "starting" => s[1] \in stale[row[s[1]].node]
    /\ process[row[s[1]].node] # "up"

NodeInv == NodeTypes /\ Creating /\ Sitting /\ Listed /\ Clocks /\ AbortedTablesAreEmpty

-----------------------------------------------------------------------------
(* The reaper, refunds and commands keep the invariant *)

\* A cluster without tables satisfies both invariants.
LEMMA NodeAtStart == Init => NodeInv /\ Owed
BY NodeAssumption
   DEF Init, NodeInv, Owed, NodeTypes, Creating, Sitting, Listed, Clocks, GraceIsKept,
       AbortedTablesAreEmpty, Idle, NoSweep, NoRow

\* What is in progress is one of the two commands.
LEMMA Commands ==
  ASSUME NodeTypes, NEW w \in Workers
  PROVE  /\ op[w] # Idle => op[w].table \in Tables /\ op[w].node \in Nodes
         /\ op[w].step = "store" => op[w] \in Creation /\ op[w] # Idle
         /\ op[w].step \in {"reserve", "seat"} => op[w] \in Buying /\ op[w] # Idle
BY DEF NodeTypes, Creation, Buying, Idle

\* A refund closes a table that has a row: nobody is creating it.
LEMMA RefundKeeps ==
  ASSUME NodeInv, NEW t \in Tables, AbortTableAndRefund(t), row[t].status # "none",
         UNCHANGED <<live, op, missing, unseen>>,
         process' \in [Nodes -> {"down", "starting", "up"}],
         stale' \in [Nodes -> SUBSET Tables], \A n \in Nodes : stale'[n] \subseteq stale[n],
         sweep' \in [step : {"idle", "reap"}, due : SUBSET Tables],
         sweep'.due \subseteq sweep.due, sweep'.step = sweep.step
  PROVE  NodeInv'
<1>1. /\ row' \in [Tables -> {NoRow} \cup [status : {"open", "aborted"}, node : Nodes]]
      /\ row'[t].status = "aborted" /\ \A s \in Tables : row'[s].node = row[s].node
      /\ \A s \in Tables \ {t} : row'[s] = row[s]
      /\ seats' \in [Tables -> SUBSET Users] /\ seats'[t] = {}
      /\ \A s \in Tables \ {t} : seats'[s] = seats[s]
      /\ lost' \subseteq lost
  BY DEF AbortTableAndRefund, NodeInv, NodeTypes, NoRow
<1>2. NodeTypes'
  BY <1>1 DEF NodeInv, NodeTypes
<1>3. Creating' /\ Sitting'
  BY <1>1, Commands DEF NodeInv, Creating, Sitting, Creation, Buying
<1>4. Listed'
  <2>1. \A s \in Tables : row[s].status # "none" => row'[s].status # "none"
    BY <1>1
  <2>2. \A s \in sweep'.due : row'[s].status # "none"
    BY <2>1 DEF NodeInv, Listed, NodeTypes
  <2>3. ASSUME NEW n \in Nodes, NEW s \in stale'[n] PROVE row'[s].status # "none"
    <3>1. s \in stale[n] /\ s \in Tables
      BY DEF NodeInv, NodeTypes
    <3>2. QED
      BY <2>1, <3>1 DEF NodeInv, Listed
  <2>4. QED
    BY <2>2, <2>3 DEF Listed
<1>5. Clocks'
  <2>1. \A s \in sweep'.due : row'[s].node = row[s].node /\ s \in sweep.due
    BY <1>1
  <2>2. GraceIsKept'
    BY <2>1 DEF NodeInv, Clocks, GraceIsKept
  <2>3. sweep'.step = "idle" => sweep'.due = {}
    BY DEF NodeInv, Clocks
  <2>4. QED
    BY <2>2, <2>3 DEF NodeInv, Clocks
<1>6. AbortedTablesAreEmpty'
  BY <1>1 DEF NodeInv, AbortedTablesAreEmpty
<1>7. QED
  BY <1>2, <1>3, <1>4, <1>5, <1>6 DEF NodeInv

\* Start-up lists open tables.
LEMMA StartKeeps == ASSUME NodeInv, NEW n \in Nodes, StartProcess(n) PROVE NodeInv'
<1>1. /\ process' \in [Nodes -> {"down", "starting", "up"}]
      /\ stale' \in [Nodes -> SUBSET Tables]
      /\ \A m \in Nodes \ {n} : stale'[m] = stale[m]
      /\ \A t \in stale'[n] : row[t].status = "open"
      /\ UNCHANGED <<live, row, seats, op, sweep, missing, unseen, lost>>
  BY DEF StartProcess, NodeInv, NodeTypes, ListOpenTables, OpenTables, mysql, reaper
<1>2. Listed'
  BY <1>1 DEF NodeInv, Listed
<1>3. QED
  BY <1>1, <1>2
     DEF NodeInv, NodeTypes, Creating, Sitting, Clocks, GraceIsKept, AbortedTablesAreEmpty

\* So does the refund of one table by a starting node.
LEMMA StartRefundKeeps == ASSUME NodeInv, NEW n \in Nodes, StartRefund(n) PROVE NodeInv'
<1>1. PICK t \in stale[n] :
        \/ /\ AbortTableAndRefund(t)
           /\ \/ stale' = [stale EXCEPT ![n] = @ \ {t}] /\ UNCHANGED process
              \/ stale' = [stale EXCEPT ![n] = {}] /\ process' = [process EXCEPT ![n] = "down"]
        \/ /\ stale' = [stale EXCEPT ![n] = {}] /\ process' = [process EXCEPT ![n] = "down"]
           /\ UNCHANGED <<mysql, lost>>
  BY DEF StartRefund
<1>2. /\ t \in Tables /\ row[t].status # "none"
      /\ UNCHANGED <<live, op, sweep, missing, unseen>>
  BY DEF StartRefund, NodeInv, NodeTypes, Listed, reaper
<1>3. /\ process' \in [Nodes -> {"down", "starting", "up"}]
      /\ stale' \in [Nodes -> SUBSET Tables] /\ \A m \in Nodes : stale'[m] \subseteq stale[m]
  BY <1>1 DEF NodeInv, NodeTypes
<1>4. CASE AbortTableAndRefund(t)
  BY <1>2, <1>3, <1>4, RefundKeeps, Zenon DEF NodeInv, NodeTypes
<1>5. CASE UNCHANGED <<mysql, lost>>
  BY <1>2, <1>3, <1>5
     DEF NodeInv, NodeTypes, Creating, Sitting, Listed, Clocks, GraceIsKept,
         AbortedTablesAreEmpty, mysql
<1>6. QED
  BY <1>1, <1>4, <1>5

\* A crash takes the commands of its node with it.
LEMMA CrashKeeps == ASSUME NodeInv, NEW n \in Nodes, Crash(n) PROVE NodeInv'
<1>1. /\ process' \in [Nodes -> {"down", "starting", "up"}]
      /\ stale' \in [Nodes -> SUBSET Tables] /\ \A m \in Nodes : stale'[m] \subseteq stale[m]
      /\ UNCHANGED <<live, row, seats, sweep, missing, unseen>>
      /\ op' \in [Workers -> {Idle} \cup Creation \cup Buying]
      /\ \A w \in Workers : op'[w] \in {Idle, op[w]}
      /\ lost' \subseteq Tables \X Users
  BY DEF Crash, NodeInv, NodeTypes, mysql, reaper
<1>2. Creating' /\ Sitting'
  BY <1>1 DEF NodeInv, Creating, Sitting, Idle
<1>3. QED
  BY <1>1, <1>2, Zenon DEF NodeInv, NodeTypes, Listed, Clocks, GraceIsKept,
     AbortedTablesAreEmpty

\* What touches neither the rows, the commands nor the sweep.
LEMMA QuietKeeps ==
  ASSUME NodeInv, live' \subseteq Nodes, process' \in [Nodes -> {"down", "starting", "up"}],
         UNCHANGED <<row, stale, op, sweep, missing, unseen, lost>>,
         seats' \in [Tables -> SUBSET Users], \A t \in Tables : seats'[t] \subseteq seats[t]
  PROVE  NodeInv'
BY DEF NodeInv, NodeTypes, Creating, Sitting, Listed, Clocks, GraceIsKept, AbortedTablesAreEmpty

\* Time goes by for both clocks alike.
LEMMA TickKeeps == ASSUME NodeInv, Tick PROVE NodeInv'
<1>1. \A x, y \in Nat : /\ Later(x) \in Nat /\ x <= Later(x)
                        /\ x <= y => Later(x) <= Later(y)
  BY NodeAssumption DEF Later
<1> HIDE DEF Later
<1>2. /\ missing' \in [Nodes -> Nat \cup {None}] /\ unseen' \in [Nodes -> Nat]
      /\ \A n \in Nodes : unseen'[n] = Later(unseen[n])
      /\ \A n \in Nodes : missing'[n] = IF missing[n] = None THEN None ELSE Later(missing[n])
      /\ UNCHANGED <<live, row, seats, process, stale, op, sweep, lost>>
  BY <1>1 DEF Tick, NodeInv, NodeTypes, mysql, nodes
<1>3. \A n \in Nodes : missing'[n] # None => missing'[n] <= unseen'[n]
  BY <1>1, <1>2 DEF NodeInv, NodeTypes, Clocks
<1>4. GraceIsKept'
  <2> SUFFICES ASSUME NEW t \in sweep.due PROVE unseen'[row[t].node] >= Grace
    BY <1>2 DEF GraceIsKept
  <2>1. row[t].node \in Nodes /\ unseen[row[t].node] >= Grace
    BY DEF NodeInv, Listed, Clocks, GraceIsKept, NodeTypes, NoRow
  <2>2. QED
    BY <1>1, <1>2, <2>1, NodeAssumption DEF NodeInv, NodeTypes
<1>5. QED
  BY <1>2, <1>3, <1>4 DEF NodeInv, NodeTypes, Creating, Sitting, Listed, Clocks, AbortedTablesAreEmpty

\* A sweep puts a node down at zero, or leaves its time alone, and only what has
\* been down for the grace period is due (node_failure_reaper.cpp:31).
LEMMA SweepKeeps == ASSUME NodeInv, SweepLook \/ SweepGivesUp PROVE NodeInv'
<1>1. PICK healthy \in HealthyNodes :
        /\ \E gone : missing' = StillMissing(healthy, gone)
        /\ unseen' = [n \in Nodes |-> IF n \in healthy THEN 0 ELSE unseen[n]]
        /\ sweep' \in {sweep, [step |-> "reap",
                               due |-> {t \in ListOpenTables(SweepLimit) :
                                          row[t].node \in LongMissing \ healthy}]}
  BY Zenon DEF SweepLook, SweepGivesUp
<1>2. UNCHANGED <<live, row, seats, process, stale, op, lost>> /\ sweep.step = "idle"
  BY Zenon DEF SweepLook, SweepGivesUp, mysql, nodes
<1>3. /\ unseen' \in [Nodes -> Nat]
      /\ \A n \in Nodes : unseen'[n] = IF n \in healthy THEN 0 ELSE unseen[n]
  BY <1>1 DEF NodeInv, NodeTypes
<1>4. /\ missing' \in [Nodes -> Nat \cup {None}]
      /\ \A n \in Nodes : \/ missing'[n] = None \/ missing'[n] = 0
                          \/ n \notin healthy /\ missing'[n] = missing[n]
  BY <1>1 DEF StillMissing, NodeInv, NodeTypes
<1>5. \A n \in Nodes : missing'[n] # None => missing'[n] <= unseen'[n]
  BY <1>3, <1>4 DEF NodeInv, NodeTypes, Clocks
<1>6. \A t \in sweep'.due : /\ t \in Tables /\ row[t].status = "open"
                            /\ row[t].node \in Nodes \ healthy
                            /\ missing[row[t].node] # None /\ missing[row[t].node] >= Grace
  <2>1. sweep.due = {}
    BY <1>2 DEF NodeInv, Clocks
  <2>2. ASSUME NEW t \in ListOpenTables(SweepLimit), row[t].node \in LongMissing \ healthy
        PROVE  /\ t \in Tables /\ row[t].status = "open"
               /\ row[t].node \in Nodes \ healthy
               /\ missing[row[t].node] # None /\ missing[row[t].node] >= Grace
    BY <2>2 DEF LongMissing, ListOpenTables, OpenTables
  <2>3. QED
    BY <1>1, <2>1, <2>2
<1>7. /\ sweep' \in [step : {"idle", "reap"}, due : SUBSET Tables]
      /\ sweep'.step = "idle" => sweep'.due = {}
  <2>1. CASE sweep' = sweep
    BY <2>1 DEF NodeInv, NodeTypes, Clocks
  <2>2. ASSUME NEW due, sweep' = [step |-> "reap", due |-> due]
        PROVE  /\ sweep' \in [step : {"idle", "reap"}, due : SUBSET Tables]
               /\ sweep'.step = "idle" => sweep'.due = {}
    BY <1>6, <2>2
  <2>3. QED
    BY <1>1, <2>1, <2>2
<1>8. GraceIsKept'
  <2> SUFFICES ASSUME NEW t \in sweep'.due PROVE unseen'[row[t].node] >= Grace
    BY <1>2 DEF GraceIsKept
  <2>1. unseen'[row[t].node] = unseen[row[t].node]
    BY <1>3, <1>6, Zenon
  <2>2. missing[row[t].node] <= unseen[row[t].node] /\ missing[row[t].node] >= Grace
    BY <1>6 DEF NodeInv, Clocks
  <2>3. QED
    BY <1>6, <2>1, <2>2, NodeAssumption DEF NodeInv, NodeTypes
<1>9. Listed'
  BY <1>2, <1>6 DEF NodeInv, Listed
<1>10. QED
  BY <1>2, <1>3, <1>4, <1>5, <1>7, <1>8, <1>9
     DEF NodeInv, NodeTypes, Creating, Sitting, Clocks, AbortedTablesAreEmpty

\* The reaper's refund of one table keeps the invariant.
LEMMA ReapKeeps ==
  ASSUME NodeInv, NEW t \in Tables, SweepRefund(t) \/ SweepRefundFails(t) PROVE NodeInv'
<1>1. /\ t \in sweep.due /\ row[t].status # "none"
      /\ sweep' \in [step : {"idle", "reap"}, due : SUBSET Tables]
      /\ sweep'.due \subseteq sweep.due /\ sweep'.step = sweep.step
      /\ UNCHANGED <<live, process, stale, op, missing, unseen>>
  BY DEF SweepRefund, SweepRefundFails, NodeInv, NodeTypes, Listed, nodes
<1>2. CASE SweepRefund(t)
  BY <1>1, <1>2, RefundKeeps, Zenon DEF SweepRefund, NodeInv, NodeTypes
<1>3. CASE SweepRefundFails(t)
  BY <1>1, <1>3
     DEF SweepRefundFails, NodeInv, NodeTypes, Creating, Sitting, Listed, Clocks, GraceIsKept,
         AbortedTablesAreEmpty, mysql
<1>4. QED
  BY <1>2, <1>3

\* So does the end of a sweep.
LEMMA SweepEndsKeeps == ASSUME NodeInv, SweepEnds PROVE NodeInv'
BY DEF SweepEnds, NodeInv, NodeTypes, Creating, Sitting, Listed, Clocks, GraceIsKept,
       AbortedTablesAreEmpty, NoSweep, mysql, nodes

\* A number with neither a row nor a creator goes to one worker.
LEMMA CreateKeeps == ASSUME NodeInv, NEW w \in Workers, CreateTable(w) PROVE NodeInv'
<1>1. PICK n \in live, t \in Tables :
        /\ row[t] = NoRow /\ ~\E v \in Workers : op[v] # Idle /\ op[v].table = t
        /\ op' = [op EXCEPT ![w] = [kind |-> "create", step |-> "store", table |-> t, node |-> n]]
  BY Zenon DEF CreateTable
<1>2. UNCHANGED <<live, row, seats, process, stale, sweep, missing, unseen, lost>>
  BY DEF CreateTable, mysql, nodes, reaper
<1>3. /\ op'[w] \in Creation /\ op'[w].table = t /\ op'[w].step = "store"
      /\ \A v \in Workers \ {w} : op'[v] = op[v]
      /\ op' \in [Workers -> {Idle} \cup Creation \cup Buying]
  BY <1>1 DEF NodeInv, NodeTypes, Creation
<1>4. row[t].status = "none" /\ \A v \in Workers : op[v] # Idle => op[v].table # t
  <2>1. NoRow.status = "none"
    BY DEF NoRow
  <2>2. QED
    BY <1>1, <2>1, Zenon
<1>5. Creating'
  BY <1>2, <1>3, <1>4, Commands DEF NodeInv, Creating
<1>6. Sitting'
  BY <1>2, <1>3 DEF NodeInv, Sitting
<1>7. QED
  BY <1>2, <1>3, <1>5, <1>6 DEF NodeInv, NodeTypes, Listed, Clocks, GraceIsKept, AbortedTablesAreEmpty

\* The row it writes is the first of its table.
LEMMA StoreKeeps == ASSUME NodeInv, NEW w \in Workers, StoreTable(w) PROVE NodeInv'
<1> DEFINE t == op[w].table
<1>1. op[w] \in Creation /\ op[w] # Idle /\ t \in Tables /\ row[t].status = "none"
  BY Commands DEF StoreTable, NodeInv, Creating
<1>2. /\ row' \in [Tables -> {NoRow} \cup [status : {"open", "aborted"}, node : Nodes]]
      /\ row'[t].status = "open" /\ \A s \in Tables \ {t} : row'[s] = row[s]
      /\ op' \in [Workers -> {Idle} \cup Creation \cup Buying]
      /\ op'[w] = Idle /\ \A v \in Workers \ {w} : op'[v] = op[v]
      /\ UNCHANGED <<live, seats, process, stale, sweep, missing, unseen, lost>>
  BY <1>1 DEF StoreTable, NodeInv, NodeTypes, Creation, nodes, reaper
<1>3. \A v \in Workers \ {w} : op[v] # Idle => op[v].table # t
  BY <1>1, Zenon DEF StoreTable, NodeInv, Creating
<1> HIDE DEF t
<1>4. Creating'
  BY <1>2, <1>3, Commands DEF NodeInv, Creating, Idle
<1>5. Sitting'
  BY <1>2, <1>3, Commands DEF NodeInv, Sitting, Idle
<1>6. t \notin sweep.due /\ \A n \in Nodes : t \notin stale[n]
  BY <1>1 DEF NodeInv, Listed, t
<1>7. Listed' /\ Clocks'
  BY <1>2, <1>6 DEF NodeInv, NodeTypes, Listed, Clocks, GraceIsKept
<1>8. AbortedTablesAreEmpty'
  BY <1>2, Zenon DEF NodeInv, AbortedTablesAreEmpty
<1>9. QED
  BY <1>2, <1>4, <1>5, <1>7, <1>8 DEF NodeInv, NodeTypes

\* A command that ends.
LEMMA EndKeeps ==
  ASSUME NodeInv, NEW w \in Workers, op' = [op EXCEPT ![w] = Idle],
         UNCHANGED <<live, row, seats, process, stale, sweep, missing, unseen, lost>>
  PROVE  NodeInv'
<1>1. /\ op' \in [Workers -> {Idle} \cup Creation \cup Buying]
      /\ \A v \in Workers : op'[v] \in {Idle, op[v]}
  BY DEF NodeInv, NodeTypes
<1>2. Creating' /\ Sitting'
  BY <1>1 DEF NodeInv, Creating, Sitting, Idle
<1>3. QED
  BY <1>1, <1>2, Zenon DEF NodeInv, NodeTypes, Listed, Clocks, GraceIsKept,
     AbortedTablesAreEmpty

\* findTable has seen the row of the table it buys in to.
LEMMA SitDownKeeps ==
  ASSUME NodeInv, NEW w \in Workers, NEW n \in Nodes, NEW u \in Users, SitDown(w, n, u)
  PROVE  NodeInv'
<1>1. PICK t \in OpenTables :
        op' = [op EXCEPT ![w] = [kind |-> "sit", step |-> "reserve",
                                 table |-> t, node |-> n, user |-> u]]
  BY Zenon DEF SitDown
<1>2. /\ UNCHANGED <<live, row, seats, process, stale, sweep, missing, unseen, lost>>
      /\ t \in Tables /\ row[t].status = "open"
  BY <1>1 DEF SitDown, mysql, reaper, OpenTables
<1>3. /\ op'[w].table = t /\ op'[w].step = "reserve"
      /\ \A v \in Workers \ {w} : op'[v] = op[v]
      /\ op' \in [Workers -> {Idle} \cup Creation \cup Buying]
  BY <1>1, <1>2 DEF NodeInv, NodeTypes, Buying
<1>4. Creating'
  <2> SUFFICES ASSUME NEW v \in Workers, op'[v].step = "store"
               PROVE  /\ row[op'[v].table].status = "none"
                      /\ \A x \in Workers : op'[x] # Idle /\ op'[x].table = op'[v].table => x = v
    BY <1>2, Zenon DEF Creating
  <2>1. v # w /\ op'[v] = op[v]
    BY <1>3
  <2>2. /\ row[op[v].table].status = "none"
        /\ \A x \in Workers : op[x] # Idle /\ op[x].table = op[v].table => x = v
    BY <2>1, Zenon DEF NodeInv, Creating
  <2>3. op[v].table # t
    BY <1>2, <2>2
  <2>4. QED
    BY <1>3, <2>1, <2>2, <2>3, Zenon
<1>5. Sitting'
  BY <1>2, <1>3 DEF NodeInv, Sitting
<1>6. QED
  BY <1>2, <1>3, <1>4, <1>5 DEF NodeInv, NodeTypes, Listed, Clocks, GraceIsKept, AbortedTablesAreEmpty

\* A seat is only ever added at an open table (reserveBuyIn's row lock).
LEMMA ReserveKeeps == ASSUME NodeInv, NEW w \in Workers, ReserveBuyIn(w) PROVE NodeInv'
<1> DEFINE t == op[w].table
<1>1. op[w] \in Buying /\ op[w] # Idle /\ t \in Tables
  BY Commands DEF ReserveBuyIn, NodeInv
<1>2. UNCHANGED <<live, row, process, stale, sweep, missing, unseen, lost>>
  BY DEF ReserveBuyIn, nodes, reaper
<1>3. /\ seats' \in [Tables -> SUBSET Users]
      /\ \A s \in Tables : seats'[s] = seats[s] \/ row[s].status = "open"
  BY <1>1 DEF ReserveBuyIn, MayReserve, NodeInv, NodeTypes, Buying
<1>4. /\ op' \in [Workers -> {Idle} \cup Creation \cup Buying]
      /\ \A v \in Workers \ {w} : op'[v] = op[v]
      /\ op'[w] = Idle \/ (op'[w].step = "seat" /\ op'[w].table = t)
  BY <1>1 DEF ReserveBuyIn, NodeInv, NodeTypes, Buying
<1>5. row[t].status # "none"
  BY DEF ReserveBuyIn, NodeInv, Sitting
<1> HIDE DEF t
<1>6. Creating'
  BY <1>2, <1>4, <1>5 DEF NodeInv, Creating, Idle
<1>7. Sitting'
  BY <1>2, <1>4, <1>5 DEF NodeInv, Sitting, Idle
<1>8. QED
  BY <1>2, <1>3, <1>4, <1>6, <1>7 DEF NodeInv, NodeTypes, Listed, Clocks, GraceIsKept,
       AbortedTablesAreEmpty

\* Seating the player in the room keeps it.
LEMMA SeatKeeps == ASSUME NodeInv, NEW w \in Workers, SeatPlayer(w) PROVE NodeInv'
<1>1. /\ op' = [op EXCEPT ![w] = Idle]
      /\ UNCHANGED <<live, row, process, stale, sweep, missing, unseen, lost>>
      /\ seats' \in [Tables -> SUBSET Users] /\ \A t \in Tables : seats'[t] \subseteq seats[t]
  BY DEF SeatPlayer, NodeInv, NodeTypes, Buying, reaper
<1>2. /\ op' \in [Workers -> {Idle} \cup Creation \cup Buying]
      /\ \A v \in Workers : op'[v] \in {Idle, op[v]}
  BY <1>1 DEF NodeInv, NodeTypes
<1>3. Creating' /\ Sitting'
  BY <1>1, <1>2 DEF NodeInv, Creating, Sitting, Idle
<1>4. QED
  BY <1>1, <1>2, <1>3 DEF NodeInv, NodeTypes, Listed, Clocks, GraceIsKept, AbortedTablesAreEmpty

\* So does a cash-out.
LEMMA LeaveKeeps ==
  ASSUME NodeInv, NEW n \in Nodes, NEW u \in Users, LeaveTable(n, u) PROVE NodeInv'
<1>1. /\ UNCHANGED <<live, row, process, stale, op, sweep, missing, unseen, lost>>
      /\ seats' \in [Tables -> SUBSET Users] /\ \A t \in Tables : seats'[t] \subseteq seats[t]
  BY DEF LeaveTable, NodeInv, NodeTypes, reaper
<1>2. QED
  BY <1>1, QuietKeeps, Zenon DEF NodeInv, NodeTypes

\* Every step keeps the invariant.
LEMMA NodeKept == NodeInv /\ [Next]_vars => NodeInv'
<1> SUFFICES ASSUME NodeInv, [Next]_vars PROVE NodeInv'
  OBVIOUS
<1>1. ASSUME NEW n \in Nodes, StartServing(n) \/ Heartbeat(n) PROVE NodeInv'
  BY <1>1, QuietKeeps, Zenon DEF StartServing, Heartbeat, NodeInv, NodeTypes, mysql,
     nodes, reaper
<1>2. ASSUME NEW n \in Nodes, NodeStep(n) PROVE NodeInv'
  BY <1>1, <1>2, StartKeeps, StartRefundKeeps, CrashKeeps, LeaveKeeps DEF NodeStep
<1>3. ASSUME NEW w \in Workers, CallFails(w) PROVE NodeInv'
  BY <1>3, EndKeeps, Zenon DEF CallFails, mysql, nodes, reaper
<1>4. ASSUME NEW w \in Workers, WorkerStep(w) PROVE NodeInv'
  BY <1>3, <1>4, CreateKeeps, StoreKeeps, SitDownKeeps, ReserveKeeps, SeatKeeps DEF WorkerStep
<1>5. CASE SweepStep
  BY <1>5, SweepKeeps, SweepEndsKeeps, ReapKeeps DEF SweepStep
<1>6. CASE KeysExpire
  BY <1>6, QuietKeeps, Zenon DEF KeysExpire, NodeInv, NodeTypes, mysql, nodes,
     reaper
<1>7. CASE UNCHANGED vars
  BY <1>7, QuietKeeps, Zenon DEF vars, NodeInv, NodeTypes, mysql, nodes, reaper
<1>8. QED
  BY <1>2, <1>4, <1>5, <1>6, <1>7, TickKeeps DEF Next

-----------------------------------------------------------------------------
(* What start-up owes *)

\* No listing is cut off that may hold every table.
LEMMA ListsAll ==
  ASSUME NEW limit \in Nat, MaxTable <= limit
  PROVE  ListOpenTables(limit) = OpenTables
<1> SUFFICES ASSUME NEW t \in OpenTables
             PROVE  Cardinality({s \in OpenTables : s < t}) < limit
  BY DEF ListOpenTables
<1> DEFINE below == {s \in OpenTables : s < t}
<1>1. t \in Nat /\ 1 <= t /\ t <= MaxTable /\ t - 1 \in Nat
  BY NodeAssumption DEF OpenTables, Tables
<1>2. below \subseteq 1 .. (t - 1)
  BY <1>1, NodeAssumption DEF OpenTables, Tables
<1>3. IsFiniteSet(1 .. (t - 1)) /\ Cardinality(1 .. (t - 1)) = t - 1
  <2>1. 1 \in Int /\ t - 1 \in Int
    BY <1>1
  <2>2. QED
    BY <1>1, <2>1, FS_Interval
<1>4. IsFiniteSet(below) /\ Cardinality(below) <= t - 1
  BY <1>2, <1>3, FS_Subset, ZenonT(30)
<1>5. Cardinality(below) \in Nat
  BY <1>4, FS_CardinalityType
<1>6. QED
  BY <1>1, <1>4, <1>5, NodeAssumption

\* A refund takes the table's seats off the list of what is owed.
LEMMA RefundOwes ==
  ASSUME NodeInv, Owed, NEW t \in Tables, AbortTableAndRefund(t),
         \A n \in Nodes : /\ process'[n] \in {process[n], "down"}
                          /\ process'[n] = "starting" => stale[n] \ {t} \subseteq stale'[n]
  PROVE  Owed'
<1>1. /\ \A s \in Tables : row'[s].node = row[s].node
      /\ \A s \in Tables \ {t} : row'[s] = row[s]
      /\ lost' \subseteq lost /\ \A s \in lost' : s[1] \in Tables \ {t}
  BY DEF AbortTableAndRefund, NodeInv, NodeTypes
<1>2. \A s \in lost : row[s[1]].node \in Nodes
  BY DEF Owed, NodeInv, NodeTypes, NoRow
<1>3. QED
  BY <1>1, <1>2 DEF Owed

\* Refunds, restarts and crashes keep the books, if a starting node sees every
\* open table.
LEMMA OwedKept ==
  ASSUME MaxTable <= StartLimit, NodeInv, Owed, [Next]_vars
  PROVE  Owed'
<1>1. \A s \in lost : s[1] \in Tables /\ row[s[1]].node \in Nodes /\ row[s[1]].status = "open"
  BY DEF Owed, NodeInv, NodeTypes, NoRow
<1>2. ASSUME NEW n \in Nodes, StartProcess(n) PROVE Owed'
  <2>1. /\ stale'[n] = {t \in OpenTables : row[t].node = n}
        /\ \A m \in Nodes \ {n} : stale'[m] = stale[m]
    BY <1>2, ListsAll, NodeAssumption, Zenon DEF StartProcess, NodeInv, NodeTypes
  <2>2. /\ process'[n] = "starting" /\ \A m \in Nodes \ {n} : process'[m] = process[m]
        /\ UNCHANGED <<row, lost>>
    BY <1>2 DEF StartProcess, NodeInv, NodeTypes, mysql
  <2>3. QED
    BY <1>1, <2>1, <2>2 DEF Owed, OpenTables
<1>3. ASSUME NEW n \in Nodes, StartRefund(n) PROVE Owed'
  <2>1. PICK t \in stale[n] :
          \/ /\ AbortTableAndRefund(t)
             /\ \/ stale' = [stale EXCEPT ![n] = @ \ {t}] /\ UNCHANGED process
                \/ stale' = [stale EXCEPT ![n] = {}] /\ process' = [process EXCEPT ![n] = "down"]
          \/ /\ stale' = [stale EXCEPT ![n] = {}] /\ process' = [process EXCEPT ![n] = "down"]
             /\ UNCHANGED <<mysql, lost>>
    BY <1>3 DEF StartRefund
  <2>2. \A m \in Nodes : /\ process'[m] \in {process[m], "down"}
                         /\ process'[m] = "starting" => stale[m] \ {t} \subseteq stale'[m]
    BY <2>1 DEF NodeInv, NodeTypes
  <2>3. CASE AbortTableAndRefund(t)
    BY <2>2, <2>3, RefundOwes, Zenon DEF NodeInv, NodeTypes
  <2>4. CASE /\ stale' = [stale EXCEPT ![n] = {}] /\ process' = [process EXCEPT ![n] = "down"]
             /\ UNCHANGED <<mysql, lost>>
    BY <1>1, <2>4, Zenon DEF Owed, NodeInv, NodeTypes, mysql
  <2>5. QED
    BY <2>1, <2>3, <2>4
<1>4. ASSUME NEW n \in Nodes, StartServing(n) PROVE Owed'
  BY <1>1, <1>4 DEF StartServing, Owed, NodeInv, NodeTypes, mysql
<1>5. ASSUME NEW n \in Nodes, Crash(n) PROVE Owed'
  <2>1. /\ process'[n] = "down" /\ \A m \in Nodes \ {n} : process'[m] = process[m]
        /\ \A m \in Nodes \ {n} : stale'[m] = stale[m]
        /\ row' = row
        /\ lost' = lost \cup {s \in Tables \X Users : row[s[1]].node = n /\ s[2] \in seats[s[1]]}
    BY <1>5, Zenon DEF Crash, NodeInv, NodeTypes, mysql
  <2>2. \A s \in lost' \ lost : row[s[1]].node = n /\ row[s[1]].status = "open"
    BY <2>1, Zenon DEF NodeInv, AbortedTablesAreEmpty
  <2>3. QED
    BY <1>1, <2>1, <2>2 DEF Owed
<1>6. ASSUME NEW w \in Workers, StoreTable(w) PROVE Owed'
  <2>1. op[w].table \in Tables /\ row[op[w].table].status = "none"
    BY <1>6, Commands, Zenon DEF StoreTable, NodeInv, Creating
  <2>2. \A t \in Tables : t # op[w].table => row'[t] = row[t]
    BY <1>6, Zenon DEF StoreTable, NodeInv, NodeTypes
  <2>3. \A s \in lost : row'[s[1]] = row[s[1]]
    BY <1>1, <2>1, <2>2
  <2>4. QED
    BY <1>6, <2>3, Zenon DEF StoreTable, Owed, nodes
<1>7. ASSUME NEW t \in Tables, SweepRefund(t) PROVE Owed'
  BY <1>7, RefundOwes DEF SweepRefund, nodes
<1>8. CASE UNCHANGED <<row, process, stale, lost>>
  BY <1>8 DEF Owed
<1>9. ASSUME NEW n \in Nodes, NodeStep(n) PROVE Owed'
  BY <1>2, <1>3, <1>4, <1>5, <1>8, <1>9 DEF NodeStep, Heartbeat, LeaveTable, mysql, nodes
<1>10. ASSUME NEW w \in Workers, WorkerStep(w) PROVE Owed'
  BY <1>6, <1>8, <1>10, Zenon DEF WorkerStep, CreateTable, CallFails, SitDown,
     ReserveBuyIn, SeatPlayer, mysql, nodes
<1>11. CASE SweepStep
  BY <1>7, <1>8, <1>11
     DEF SweepStep, SweepLook, SweepGivesUp, SweepEnds, SweepRefundFails, mysql, nodes
<1>12. QED
  BY <1>8, <1>9, <1>10, <1>11, Zenon DEF Next, KeysExpire, Tick, vars, mysql, nodes

-----------------------------------------------------------------------------
(* Results *)

\* The reaper takes no table whose node some sweep of the last grace period has
\* seen: missing_since_ never runs ahead of the node's absence
\* (node_failure_reaper.cpp:31-47).
THEOREM GraceAlwaysKept == Spec => []GraceIsKept
<1>1. NodeInv => GraceIsKept
  BY DEF NodeInv, Clocks
<1>2. QED
  BY NodeAtStart, NodeKept, <1>1, PTL DEF Spec

\* Chips never stay at a table that is not open, however a buy-in and a refund
\* race (protocol_service.cpp:798-806).
THEOREM AbortedStayEmpty == Spec => []AbortedTablesAreEmpty
<1>1. NodeInv => AbortedTablesAreEmpty
  BY DEF NodeInv
<1>2. QED
  BY NodeAtStart, NodeKept, <1>1, PTL DEF Spec

\* A node that serves owes nothing for an earlier process under its id, if the
\* listing that start-up reads can hold every table (main.cpp:62-76).
THEOREM RestartPaysFirst == ASSUME MaxTable <= StartLimit PROVE Spec => []RestartHidesNothing
<1>1. Owed => RestartHidesNothing
  BY DEF Owed, RestartHidesNothing
<1>2. NodeInv /\ Owed /\ [Next]_vars => NodeInv' /\ Owed'
  BY NodeKept, OwedKept
<1>3. QED
  BY NodeAtStart, <1>1, <1>2, PTL DEF Spec

-----------------------------------------------------------------------------
(* The storage threads *)

\* The steps in which a thread holds a handle.
Holding == {"ping", "broken", "leased", "spoilt", "return"}

\* The types of what the proof speaks of.
Types ==
  /\ pc \in [Threads -> Steps]
  /\ using \in [Threads -> Handles \cup {NoHandle}]
  /\ link \in [Handles -> {"free", "clean", "dirty", "broken"}]
  /\ all \subseteq Handles /\ available \subseteq all

\* A thread holds a handle of the pool exactly between taking it and giving it
\* back, and nobody else has it.
Held ==
  /\ \A th \in Threads : pc[th] \in Holding <=> using[th] # NoHandle
  /\ \A th \in Threads : using[th] # NoHandle => using[th] \in all /\ using[th] \notin available
  /\ \A th, v \in Threads : using[th] = using[v] /\ using[th] # NoHandle => th = v
  /\ \A h \in all : h \in available \/ \E th \in Threads : using[th] = h

\* Only a thread with a lease leaves a transaction open, and only a broken
\* connection is replaced.
Links ==
  /\ \A h \in Handles : link[h] # "free" <=> h \in all
  /\ \A h \in available : link[h] # "dirty"
  /\ \A th \in Threads : pc[th] \in {"ping", "return"} => link[using[th]] # "dirty"
  /\ \A th \in Threads : pc[th] \in {"broken", "spoilt"} => link[using[th]] = "broken"

HandleInv == Types /\ Held /\ Links

\* A thread without a handle that goes on to another step without one changes
\* nothing of this, and neither does what happens in the executor or in main.
LEMMA Elsewhere ==
  ASSUME HandleInv, UNCHANGED <<using, pool, link>>, pc' \in [Threads -> Steps],
         \A th \in Threads : pc'[th] = pc[th] \/ (pc[th] \notin Holding /\ pc'[th] \notin Holding)
  PROVE  HandleInv'
BY DEF HandleInv, Types, Held, Links, Holding, pool

\* The pool opens with every handle clean and available
\* (mysql_connection_pool.cpp:63-80).
LEMMA HandlesAtStart == ThreadsInit => HandleInv
BY HandlesAssumption, ThreadsAssumption
   DEF ThreadsInit, HandleInv, Types, Held, Links, Holding, Threads, Steps

\* Every step of the pool, of the executors, of MySQL and of main keeps the
\* invariant.
LEMMA HandlesKept == HandleInv /\ [ThreadsNext]_threadsVars => HandleInv'
<1> SUFFICES ASSUME HandleInv, [ThreadsNext]_threadsVars PROVE HandleInv'
  OBVIOUS
<1> USE DEF HandleInv, Holding, Goes, executor, pool
<1>1. CASE Post \/ CoordinatorTick \/ StopCoordination \/ DatabaseStarts \/ CoordinatorLeaves
  BY <1>1, Elsewhere, ThreadsAssumption, Zenon DEF Post, CoordinatorTick,
     StopCoordination, DatabaseStarts, CoordinatorLeaves, Types, Steps, Threads
<1>2. CASE Ring
  BY <1>2, Elsewhere, Zenon DEF Ring, At, Types, Steps, Threads
<1>3. ASSUME NEW w \in StorageWorkers, Run(w) PROVE HandleInv'
  BY <1>3, Elsewhere, Zenon DEF Run, Types, Steps, Threads
<1>4. CASE StopStorage
  BY <1>4, Elsewhere, Zenon DEF StopStorage, Types, Steps, Threads
<1>5. CASE DestroyPool
  BY <1>5, Zenon DEF DestroyPool, At, Types, Held, Links
<1>6. ASSUME NEW th \in Threads, ThreadStep(th) PROVE HandleInv'
  <2>1. CASE Take(th)
    BY <2>1, HandlesAssumption DEF Take, Types, Held, Links, Steps
  <2>2. CASE Wait(th) \/ TimeOut(th)
    BY <2>2, Elsewhere, Zenon DEF Wait, TimeOut, Rest, Types, Steps
  <2>3. CASE Ping(th)
    BY <2>3 DEF Ping, Types, Held, Links, Steps
  <2>4. CASE ReplaceConnection(th)
    BY <2>4, HandlesAssumption DEF ReplaceConnection, Replacement, Types, Held, Links, Steps
  <2>5. CASE ReplacementFails(th)
    BY <2>5 DEF ReplacementFails, Types, Held, Links, Steps
  <2>6. CASE GiveBack(th)
    BY <2>6 DEF GiveBack, RolledBack, Types, Held, Links, Steps
  <2>7. CASE ReturnAvailable(th)
    BY <2>7 DEF ReturnAvailable, Types, Held, Links, Steps
  <2>8. CASE Notify(th)
    BY <2>8, Elsewhere DEF Notify, At, Rest, Types, Steps
  <2>9. QED
    BY <1>6, <2>1, <2>2, <2>3, <2>4, <2>5, <2>6, <2>7, <2>8, Zenon
       DEF ThreadStep
<1>7. ASSUME NEW th \in Threads, Statement(th) PROVE HandleInv'
  BY <1>7 DEF Statement, Types, Held, Links, Steps
<1>8. ASSUME NEW h \in Handles, LinkBreaks(h) PROVE HandleInv'
  BY <1>8 DEF LinkBreaks, Types, Held, Links, Steps
<1>9. CASE DatabaseStops
  BY <1>9, Zenon DEF DatabaseStops, Types, Held, Links, Steps
<1>10. CASE UNCHANGED threadsVars
  BY <1>10, Elsewhere, Zenon DEF threadsVars, Types
<1>11. QED
  BY <1>1, <1>2, <1>3, <1>4, <1>5, <1>6, <1>7, <1>8, <1>9, <1>10, Zenon
     DEF ThreadsNext, Main

\* Whatever fails, no MYSQL* is lost, shared by two threads, or closed while it
\* is available or in use (mysql_connection_pool.cpp:93-188).
THEOREM HandlesOnce == ThreadsSpec => []EveryHandleOnce
<1>1. HandleInv => EveryHandleOnce
  BY HandlesAssumption DEF HandleInv, Types, Held, Links, EveryHandleOnce
<1>2. QED
  BY <1>1, HandlesAtStart, HandlesKept, PTL DEF ThreadsSpec

\* No call is handed a connection with the transaction of another still open
\* (mysql_connection_pool.cpp:146-153).
THEOREM HandlesClean == ThreadsSpec => []AvailableIsClean
<1>1. HandleInv => AvailableIsClean
  BY DEF HandleInv, Links, AvailableIsClean
<1>2. QED
  BY <1>1, HandlesAtStart, HandlesKept, PTL DEF ThreadsSpec
-----------------------------------------------------------------------------
(* Wake-ups: the counters and sets of NoLostWakeup move together. *)

WakeInv == HandleInv /\ tasks \in Nat /\ bells \in Nat /\ NoLostWakeup

\* The threads at a step can be counted, before and after a move.
LEMMA Countable ==
  ASSUME NEW CONSTANT step
  PROVE  /\ IsFiniteSet(At(step)) /\ Cardinality(At(step)) \in Nat
         /\ IsFiniteSet(At(step)') /\ Cardinality(At(step)') \in Nat
<1>1. IsFiniteSet(Threads)
  BY ThreadsAssumption, FS_AddElement DEF Threads
<1>2. At(step) \in SUBSET Threads /\ At(step)' \in SUBSET Threads
  BY Zenon DEF At
<1>3. QED
  BY <1>1, <1>2, FS_Subset, FS_CardinalityType

\* What a thread's own move does to the threads at a step.
LEMMA Moves ==
  ASSUME Types, NEW th \in Threads, NEW s \in Steps, Goes(th, s), NEW CONSTANT step
  PROVE  /\ At(step)' = IF s = step THEN At(step) \cup {th} ELSE At(step) \ {th}
         /\ Cardinality(At(step))' = IF s = step
                                     THEN IF pc[th] = step THEN Cardinality(At(step))
                                          ELSE Cardinality(At(step)) + 1
                                     ELSE IF pc[th] = step THEN Cardinality(At(step)) - 1
                                          ELSE Cardinality(At(step))
<1>1. At(step)' = IF s = step THEN At(step) \cup {th} ELSE At(step) \ {th}
  BY DEF Types, Goes, At
<1>2. th \in At(step) <=> pc[th] = step
  BY DEF At
<1>3. IsFiniteSet(At(step))
  BY Countable
<1>4. Cardinality(At(step) \cup {th})
        = IF th \in At(step) THEN Cardinality(At(step)) ELSE Cardinality(At(step)) + 1
  BY <1>3, FS_AddElement, Zenon
<1>5. Cardinality(At(step) \ {th})
        = IF th \in At(step) THEN Cardinality(At(step)) - 1 ELSE Cardinality(At(step))
  BY <1>3, FS_RemoveElement, Zenon
<1>6. QED
  BY <1>1, <1>2, <1>4, <1>5, Zenon

\* The available handles can be counted, too.
LEMMA CountableHandles ==
  ASSUME Types
  PROVE  /\ IsFiniteSet(available) /\ Cardinality(available) \in Nat
         /\ Cardinality(available) = 0 <=> available = {}
BY HandlesAssumption, FS_Subset, FS_CardinalityType, FS_EmptySet DEF Types

\* A step that leaves the pool, the queue and every waiting, woken, notifying
\* or awake thread alone.
LEMMA NobodyWaits ==
  ASSUME WakeInv, HandleInv', UNCHANGED <<tasks, bells, available>>,
         At("waiting")' = At("waiting"), At("woken")' = At("woken"),
         At("notify")' = At("notify"), At("awake")' = At("awake"),
         (At("asleep") \cap StorageWorkers)' = At("asleep") \cap StorageWorkers
  PROVE  WakeInv'
BY DEF WakeInv, NoLostWakeup
\* Nobody waits at the start.
LEMMA WakeAtStart == ThreadsInit => WakeInv
<1> SUFFICES ASSUME ThreadsInit PROVE WakeInv
  OBVIOUS
<1>1. HandleInv /\ tasks \in Nat /\ bells \in Nat
  BY HandlesAtStart DEF ThreadsInit
<1>2. At("waiting") = {} /\ At("asleep") \cap StorageWorkers = {}
  BY ThreadsAssumption DEF ThreadsInit, At, Threads
<1>3. QED
  BY <1>1, <1>2 DEF WakeInv, NoLostWakeup

\* Every step of a thread, of the executor and of main keeps the balance: what
\* is put there for a sleeper is announced, and who is woken takes it or finds
\* it taken.
LEMMA WakeKept == WakeInv /\ [ThreadsNext]_threadsVars => WakeInv'
<1> SUFFICES ASSUME WakeInv, [ThreadsNext]_threadsVars PROVE WakeInv'
  OBVIOUS
<1>a. HandleInv' /\ Types /\ Types' /\ HandleInv
  BY HandlesKept DEF WakeInv, HandleInv
<1>b. \A step \in Steps : Cardinality(At(step)) \in Nat /\ Cardinality(At(step))' \in Nat
  BY Countable
<1>c. /\ Cardinality(available) \in Nat
      /\ Cardinality(available) = 0 <=> available = {}
      /\ IsFiniteSet(available)
  BY <1>a, CountableHandles
<1>1. CASE Post
  BY <1>1, <1>a, <1>b DEF Post, Announces, WakeInv, NoLostWakeup, At, pool, Steps
<1>2. CASE Ring
  <2>1. CASE At("asleep") \cap StorageWorkers = {}
    BY <1>2, <2>1, <1>a DEF Ring, WakeInv, NoLostWakeup, At, pool
  <2>2. CASE At("asleep") \cap StorageWorkers # {}
    <3>1. PICK w \in At("asleep") \cap StorageWorkers : Goes(w, "awake")
      BY <1>2, <2>2 DEF Ring
    <3>2. w \in Threads /\ pc[w] = "asleep" /\ "awake" \in Steps
      BY DEF At, Steps
    <3>3. /\ Cardinality(At("awake"))' = Cardinality(At("awake")) + 1
          /\ Cardinality(At("woken"))' = Cardinality(At("woken"))
          /\ Cardinality(At("notify"))' = Cardinality(At("notify"))
          /\ At("waiting")' = At("waiting") \ {w}
      BY <3>1, <3>2, <1>a, Moves
    <3>4. bells \in Nat /\ bells > 0 /\ bells' = bells - 1 /\ UNCHANGED <<tasks, available>>
      BY <1>2 DEF Ring, pool, WakeInv
    <3>5. QED
      BY <2>2, <3>3, <3>4, <1>a, <1>b DEF WakeInv, NoLostWakeup, Steps
  <2>3. QED
    BY <2>1, <2>2
<1>3. ASSUME NEW w \in StorageWorkers, Run(w) PROVE WakeInv'
  <2>1. PICK s \in {"gone", "acquire", "asleep"} :
          /\ Goes(w, s) /\ pc[w] = "awake" /\ UNCHANGED <<bells, available>>
          /\ IF s = "acquire" THEN tasks > 0 /\ tasks' = tasks - 1 ELSE tasks = 0 /\ tasks' = 0
    BY <1>3 DEF Run, MayLeave, WakeInv, pool
  <2>2. w \in Threads /\ s \in Steps
    BY DEF Threads, Steps
  <2>3. /\ Cardinality(At("awake"))' = Cardinality(At("awake")) - 1
        /\ Cardinality(At("woken"))' = Cardinality(At("woken"))
        /\ Cardinality(At("notify"))' = Cardinality(At("notify"))
        /\ At("waiting")' = At("waiting") \ {w}
        /\ s = "acquire" => At("asleep")' = At("asleep") \ {w}
    BY <2>1, <2>2, <1>a, Moves, Zenon
  <2>4. Cardinality(At("awake"))' \in Nat
    BY <1>b DEF Steps
  <2>5. QED
    BY <2>1, <2>3, <2>4, <1>a, <1>b DEF WakeInv, NoLostWakeup, Steps
<1>4. CASE CoordinatorTick \/ CoordinatorLeaves
  <2>1. PICK s \in {"acquire", "gone"} :
          /\ Goes(Coordinator, s) /\ pc[Coordinator] = "asleep"
          /\ UNCHANGED <<tasks, bells, available>>
    BY <1>4 DEF CoordinatorTick, CoordinatorLeaves, executor, pool
  <2>2. Coordinator \in Threads /\ s \in Steps
    BY DEF Threads, Steps
  <2>3. QED
    BY <2>1, <2>2, <1>a, ThreadsAssumption, NobodyWaits, Zenon DEF Goes, At, Types
<1>5. ASSUME NEW th \in Threads, ThreadStep(th) PROVE WakeInv'
  <2>r. /\ Rest(th) \in {"awake", "asleep"} /\ Rest(th) \in Steps
        /\ Rest(th) = "asleep" => th \notin StorageWorkers
    BY ThreadsAssumption DEF Rest, Steps, Threads
  <2>1. CASE Take(th)
    <3>1. PICK h \in available : available' = available \ {h}
      BY <2>1 DEF Take
    <3>2. Cardinality(available') = Cardinality(available) - 1
      BY <3>1, <1>c, FS_RemoveElement
    <3>3. /\ Cardinality(At("woken"))' = IF pc[th] = "woken" THEN Cardinality(At("woken")) - 1
                                         ELSE Cardinality(At("woken"))
          /\ Cardinality(At("notify"))' = Cardinality(At("notify"))
          /\ Cardinality(At("awake"))' = Cardinality(At("awake"))
          /\ At("waiting")' = At("waiting") \ {th}
          /\ At("asleep")' = At("asleep") \ {th}
      BY <2>1, <1>a, Moves DEF Take, Steps
    <3>4. At("waiting") # {} =>
            Cardinality(available) <= Cardinality(At("woken")) + Cardinality(At("notify"))
      BY DEF WakeInv, NoLostWakeup
    <3>5. UNCHANGED <<tasks, bells>>
      BY <2>1 DEF Take, executor
    <3>6. QED
      BY <3>2, <3>3, <3>5, <1>a, <1>b, <1>c DEF WakeInv, NoLostWakeup, Steps
  <2>2. CASE Wait(th) \/ TimeOut(th)
    <3>1. PICK s \in {"waiting", Rest(th)} :
            /\ Goes(th, s) /\ pc[th] \notin {"awake", "asleep"}
            /\ available' = {} /\ UNCHANGED <<tasks, bells>>
      BY <2>2, Zenon DEF Wait, TimeOut, executor, pool
    <3>2. s \in Steps /\ (s = "asleep" => th \notin StorageWorkers)
      BY <2>r DEF Steps
    <3>3. /\ Cardinality(At("awake"))' >= Cardinality(At("awake"))
          /\ At("asleep")' = IF s = "asleep" THEN At("asleep") \cup {th} ELSE At("asleep") \ {th}
      <4>1. "awake" \in Steps
        BY DEF Steps
      <4>2. Cardinality(At("awake")) \in Nat
        BY <1>b, <4>1
      <4>3. Cardinality(At("awake"))' >= Cardinality(At("awake"))
        BY <3>1, <3>2, <4>2, <1>a, Moves
      <4>4. At("asleep")' = IF s = "asleep" THEN At("asleep") \cup {th} ELSE At("asleep") \ {th}
        BY <3>1, <3>2, <1>a, Moves, Zenon
      <4>5. QED
        BY <4>3, <4>4, Zenon
    <3>4. Cardinality(available') = 0
      BY <3>1, FS_EmptySet
    <3>5. \A step \in Steps : Cardinality(At(step))' \in Nat
      BY <1>b
    <3>6. QED
      BY <3>1, <3>2, <3>3, <3>4, <1>a, <1>b DEF WakeInv, NoLostWakeup, Steps
  <2>3. CASE Ping(th) \/ ReplaceConnection(th) \/ ReplacementFails(th) \/ GiveBack(th)
    <3>1. /\ UNCHANGED <<tasks, bells, available>>
          /\ pc[th] \in Holding
          /\ \E s \in Holding : Goes(th, s)
      BY <2>3, Zenon DEF Ping, ReplaceConnection, ReplacementFails, GiveBack,
         Holding, executor, pool
    <3>2. QED
      BY <3>1, <1>a, NobodyWaits DEF Goes, At, Holding
  <2>4. CASE ReturnAvailable(th)
    <3>1. /\ Goes(th, "notify") /\ pc[th] = "return" /\ UNCHANGED <<tasks, bells>>
          /\ available' = available \cup {using[th]}
      BY <2>4 DEF ReturnAvailable, executor
    <3>2. Cardinality(available') = Cardinality(available) + 1
      <4>1. using[th] \notin available
        BY <3>1, <1>a, Zenon DEF HandleInv, Held, Holding
      <4>2. Cardinality(available \cup {using[th]}) = Cardinality(available) + 1
        BY <4>1, <1>c, FS_AddElement, Zenon
      <4>3. QED
        BY <4>2, <3>1, Zenon
    <3>3. /\ Cardinality(At("notify"))' = Cardinality(At("notify")) + 1
          /\ Cardinality(At("woken"))' = Cardinality(At("woken"))
          /\ Cardinality(At("awake"))' = Cardinality(At("awake"))
          /\ At("waiting")' = At("waiting") \ {th}
          /\ At("asleep")' = At("asleep") \ {th}
      <4>1. "notify" \in Steps
        BY DEF Steps
      <4>2. QED
        BY <3>1, <4>1, <1>a, Moves
    <3>4. At("waiting") # {} =>
            Cardinality(available) <= Cardinality(At("woken")) + Cardinality(At("notify"))
      BY DEF WakeInv, NoLostWakeup
    <3>5. QED
      BY <3>1, <3>2, <3>3, <1>a, <1>b, <1>c DEF WakeInv, NoLostWakeup, Steps
  <2>5. CASE Notify(th)
    <3>1. /\ pc[th] = "notify" /\ UNCHANGED <<tasks, bells, available>>
      BY <2>5 DEF Notify, executor, pool
    <3>2. CASE At("waiting") = {}
      <4>1. Goes(th, Rest(th))
        BY <2>5, <3>2 DEF Notify
      <4>2. /\ Cardinality(At("awake"))' >= Cardinality(At("awake"))
            /\ At("waiting")' = At("waiting") \ {th}
            /\ At("asleep")' \cap StorageWorkers = At("asleep") \cap StorageWorkers
        <5>1. /\ Cardinality(At("awake"))' >= Cardinality(At("awake"))
              /\ At("waiting")' = At("waiting") \ {th}
          BY <4>1, <3>1, <2>r, <1>a, <1>b, Moves DEF Steps
        <5>2. At("asleep")' \cap StorageWorkers = At("asleep") \cap StorageWorkers
          BY <4>1, <3>1, <2>r, <1>a, Zenon DEF Goes, At, Types
        <5>3. QED
          BY <5>1, <5>2
      <4>3. Cardinality(At("awake"))' \in Nat
        BY <1>b DEF Steps
      <4>4. QED
        BY <3>1, <3>2, <4>2, <4>3, <1>a, <1>b DEF WakeInv, NoLostWakeup, Steps
    <3>3. CASE At("waiting") # {}
      <4>1. PICK v \in At("waiting") : pc' = [pc EXCEPT ![th] = Rest(th), ![v] = "woken"]
        BY <2>5, <3>3, Zenon DEF Notify
      <4>2. v \in Threads /\ pc[v] = "waiting"
        BY DEF At
      <4>3. /\ At("notify")' = At("notify") \ {th} /\ th \in At("notify")
            /\ At("woken")' = At("woken") \cup {v} /\ v \notin At("woken")
            /\ At("awake") \subseteq At("awake")'
            /\ At("asleep")' \cap StorageWorkers = At("asleep") \cap StorageWorkers
        BY <4>1, <3>1, <2>r, <1>a DEF At, Types
      <4>4. /\ Cardinality(At("notify"))' = Cardinality(At("notify")) - 1
            /\ Cardinality(At("woken"))' = Cardinality(At("woken")) + 1
            /\ Cardinality(At("awake"))' >= Cardinality(At("awake"))
            /\ Cardinality(At("awake"))' \in Nat
        <5>1. /\ IsFiniteSet(At("notify")) /\ IsFiniteSet(At("woken"))
              /\ IsFiniteSet(At("awake")')
          BY Countable
        <5>2. Cardinality(At("notify"))' = Cardinality(At("notify")) - 1
          BY <5>1, <4>3, FS_RemoveElement, Zenon
        <5>3. Cardinality(At("woken"))' = Cardinality(At("woken")) + 1
          BY <5>1, <4>3, FS_AddElement, Zenon
        <5>4. Cardinality(At("awake")) <= Cardinality(At("awake")')
          BY <5>1, <4>3, FS_Subset, Zenon
        <5>5. Cardinality(At("awake"))' \in Nat
          BY <1>b DEF Steps
        <5>6. QED
          BY <5>2, <5>3, <5>4, <5>5, <1>b, Zenon DEF Steps
      <4>5. QED
        BY <3>1, <4>3, <4>4, <1>a, <1>b DEF WakeInv, NoLostWakeup, Steps
    <3>4. QED
      BY <3>2, <3>3
  <2>6. QED
    BY <1>5, <2>1, <2>2, <2>3, <2>4, <2>5 DEF ThreadStep
<1>6. CASE StopStorage
  <2>1. /\ At("waiting")' = At("waiting") /\ At("woken")' = At("woken")
        /\ At("notify")' = At("notify") /\ At("asleep")' = {}
        /\ UNCHANGED <<tasks, bells, available>>
    BY <1>6, <1>a, Zenon DEF StopStorage, At, Types, executor, pool
  <2>2. QED
    BY <2>1, <1>a, Zenon DEF WakeInv, NoLostWakeup
<1>7. CASE DestroyPool
  <2>1. At("waiting")' = {} /\ At("asleep")' = {} /\ UNCHANGED <<tasks, bells>>
    BY <1>7, Zenon DEF DestroyPool, At, executor
  <2>2. QED
    BY <2>1, <1>a, Zenon DEF WakeInv, NoLostWakeup
<1>8. CASE \/ StopCoordination \/ DatabaseStarts \/ DatabaseStops \/ UNCHANGED threadsVars
           \/ \E th \in Threads : Statement(th)
           \/ \E h \in Handles : LinkBreaks(h)
  <2>1. UNCHANGED <<tasks, bells, available, pc>>
    BY <1>8, Zenon DEF StopCoordination, DatabaseStarts, DatabaseStops, Statement,
       LinkBreaks, threadsVars, executor, pool
  <2>2. QED
    BY <2>1, <1>a, NobodyWaits, Zenon DEF At
<1>9. QED
  BY <1>1, <1>2, <1>3, <1>4, <1>5, <1>6, <1>7, <1>8 DEF ThreadsNext, Main

\* However many threads there are, none sleeps beside a connection or a task
\* that nobody has been woken for (mysql_connection_pool.cpp:93-103, 155-164,
\* blocking_executor.cpp:25-38, 58-69).
THEOREM WakeupsReach == ThreadsSpec => []NoLostWakeup
<1>1. WakeInv => NoLostWakeup
  BY DEF WakeInv
<1>2. QED
  BY <1>1, WakeAtStart, WakeKept, PTL DEF ThreadsSpec
=============================================================================
