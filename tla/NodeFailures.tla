---------------------------- MODULE NodeFailures ----------------------------
(***************************************************************************)
(* What becomes of the chips at a table when the process that plays it     *)
(* stops: a game node that starts refunds the tables an earlier process    *)
(* under its id has left, and the lobby's reaper refunds the tables of a   *)
(* node that has been missing for a while.                                 *)
(*                                                                         *)
(* Sources: apps/server/main.cpp (start-up, heartbeat, sweeps),            *)
(* cluster/node_failure_reaper.cpp, the node keys of                       *)
(* infrastructure/hiredis_node_registry.cpp, and the calls that CREATE     *)
(* and SIT_DOWN of apps/server/protocol_service.cpp make to MySQL.  A room *)
(* is the set of users seated in it; TableService has its commands in      *)
(* detail, and Lobby the tickets and room keys.                            *)
(*                                                                         *)
(* Every call to Redis or MySQL may fail without effect, and a write may   *)
(* take effect and lose its reply.  One process runs under a node id at a  *)
(* time.                                                                   *)
(***************************************************************************)
EXTENDS Naturals, FiniteSets

CONSTANTS
  Nodes,      \* ids of the game nodes
  Users,
  Workers,    \* storage threads, of whichever process
  None,
  MaxTable,   \* bound: table numbers
  Grace,      \* node_failure_grace_ms, in ticks
  SweepLimit, \* how many tables a sweep asks listOpenTables for
  StartLimit  \* how many a starting node asks for

ASSUME NodeAssumption ==
  /\ MaxTable \in Nat /\ Grace \in Nat /\ SweepLimit \in Nat /\ StartLimit \in Nat
  /\ None \notin Nodes /\ None \notin Nat

VARIABLES
  live,      \* Redis: nodes whose heartbeat key exists
  row,       \* MySQL: status and node of each table
  seats,     \* MySQL: users with chips at each table
  process,   \* state of each game node's process
  stale,     \* tables a starting node has still to refund
  room,      \* in-memory room of each node and table: its users, or None
  op,        \* the command each worker is executing
  sweep,     \* the sweep in progress: the tables still to refund
  missing,   \* missing_since_, as the time gone by since
  \* Only read by properties:
  lost,      \* seats whose process has died
  unseen     \* time since a sweep last saw each node healthy

mysql == <<row, seats>>
nodes == <<process, stale, room>>
reaper == <<sweep, missing, unseen>>
vars == <<live, mysql, nodes, op, reaper, lost>>

Tables == 1 .. MaxTable

Idle == [step |-> "idle"]
NoSweep == [step |-> "idle", due |-> {}]
NoRow == [status |-> "none", node |-> None]

Init ==
  /\ live = {}
  /\ row = [t \in Tables |-> NoRow] /\ seats = [t \in Tables |-> {}]
  /\ process = [n \in Nodes |-> "down"] /\ stale = [n \in Nodes |-> {}]
  /\ room = [n \in Nodes |-> [t \in Tables |-> None]]
  /\ op = [w \in Workers |-> Idle]
  /\ sweep = NoSweep /\ missing = [n \in Nodes |-> None]
  /\ unseen = [n \in Nodes |-> 0] /\ lost = {}

-----------------------------------------------------------------------------
(* What the databases do *)

OpenTables == {t \in Tables : row[t].status = "open"}

\* SELECT ... ORDER BY id LIMIT: the open tables with the smallest numbers.
ListOpenTables(limit) ==
  {t \in OpenTables : Cardinality({s \in OpenTables : s < t}) < limit}

\* healthyNodes: a node whose GET fails is left out, and so is one that another
\* reader removes from the index just after its heartbeat put it there.
HealthyNodes == SUBSET live

\* abortTableAndRefund; repeating it on an aborted table changes nothing.
AbortTableAndRefund(t) ==
  /\ row' = [row EXCEPT ![t].status = "aborted"]
  /\ seats' = [seats EXCEPT ![t] = {}]
  /\ lost' = {s \in lost : s[1] # t}

\* Fault: the buy-in locks the table row without looking at its status.
MayReserve_AnyStatus(t, u) == row[t].status # "none" /\ u \notin seats[t]

\* The guards of reserveBuyIn: an open table, and no second seat for a user.
MayReserve(t, u) == row[t].status = "open" /\ u \notin seats[t]

-----------------------------------------------------------------------------
(* Game nodes: main.cpp *)

\* Fault: start-up does not look for the tables of an earlier process.
StartProcess_Blind(n) ==
  /\ process[n] = "down"
  /\ \E healthy \in HealthyNodes : n \notin healthy
  /\ process' = [process EXCEPT ![n] = "starting"]
  /\ UNCHANGED <<live, mysql, stale, room, op, reaper, lost>>

\* A node that is listed as healthy does not start.  Otherwise it looks for the
\* tables an earlier process under its id has left open.
StartProcess(n) ==
  /\ process[n] = "down"
  /\ \E healthy \in HealthyNodes : n \notin healthy
  /\ process' = [process EXCEPT ![n] = "starting"]
  /\ stale' = [stale EXCEPT ![n] = {t \in ListOpenTables(StartLimit) : row[t].node = n}]
  /\ UNCHANGED <<live, mysql, room, op, reaper, lost>>

\* One of them is refunded.  If that fails, with or without effect, the process
\* exits.
StartRefund(n) ==
  /\ process[n] = "starting"
  /\ \E t \in stale[n] :
       \/ /\ AbortTableAndRefund(t)
          /\ \/ stale' = [stale EXCEPT ![n] = @ \ {t}] /\ UNCHANGED process
             \/ stale' = [stale EXCEPT ![n] = {}] /\ process' = [process EXCEPT ![n] = "down"]
       \/ /\ stale' = [stale EXCEPT ![n] = {}] /\ process' = [process EXCEPT ![n] = "down"]
          /\ UNCHANGED <<mysql, lost>>
  /\ UNCHANGED <<live, room, op, reaper>>

\* The rest of start-up touches nothing that is shared.
StartServing(n) ==
  /\ process[n] = "starting" /\ stale[n] = {}
  /\ process' = [process EXCEPT ![n] = "up"]
  /\ UNCHANGED <<live, mysql, stale, room, op, reaper, lost>>

\* Every two seconds, if MySQL answers.
Heartbeat(n) ==
  /\ process[n] = "up"
  /\ live' = live \cup {n}
  /\ UNCHANGED <<mysql, nodes, op, reaper, lost>>

\* The process dies, with its rooms and the commands it was executing.
Crash(n) ==
  /\ process[n] # "down"
  /\ process' = [process EXCEPT ![n] = "down"]
  /\ stale' = [stale EXCEPT ![n] = {}]
  /\ room' = [room EXCEPT ![n] = [t \in Tables |-> None]]
  /\ op' = [w \in Workers |->
              IF op[w] # Idle /\ op[w].kind = "sit" /\ op[w].node = n THEN Idle ELSE op[w]]
  /\ lost' = lost \cup {s \in Tables \X Users : row[s[1]].node = n /\ s[2] \in seats[s[1]]}
  /\ UNCHANGED <<live, mysql, reaper>>

\* A heartbeat key expires, or Redis restarts without its data.  Heartbeats may
\* be late for any reason.
KeysExpire ==
  /\ \E gone \in (SUBSET live) \ {{}} : live' = live \ gone
  /\ UNCHANGED <<mysql, nodes, op, reaper, lost>>

Later(age) == IF age < Grace THEN age + 1 ELSE age

Tick ==
  /\ missing' = [n \in Nodes |-> IF missing[n] = None THEN None ELSE Later(missing[n])]
  /\ unseen' = [n \in Nodes |-> Later(unseen[n])]
  /\ UNCHANGED <<live, mysql, nodes, op, sweep, lost>>

-----------------------------------------------------------------------------
(* The lobby's reaper: NodeFailureReaper::sweep *)

\* now - missing_since_ >= grace
LongMissing == {n \in Nodes : missing[n] # None /\ missing[n] >= Grace}

\* Fault: a node seen again keeps its missing_since_.
StillMissing_Forever(healthy, gone) ==
  [n \in Nodes |-> IF missing[n] = None /\ n \in gone THEN 0 ELSE missing[n]]

\* Fault: every sweep puts the time down again.
StillMissing_Restarts(healthy, gone) ==
  [n \in Nodes |-> CASE n \in healthy -> None
                     [] n \in gone -> 0
                     [] OTHER -> missing[n]]

\* missing_since_: a healthy node is erased, and a missing one with an open
\* table is put down unless it is already.
StillMissing(healthy, gone) ==
  [n \in Nodes |-> CASE n \in healthy -> None
                     [] n \in gone /\ missing[n] = None -> 0
                     [] OTHER -> missing[n]]

\* PING, the healthy nodes and the open tables: those of a node missing for
\* long enough are due.
SweepLook ==
  /\ sweep.step = "idle"
  /\ \E healthy \in HealthyNodes :
       /\ missing' = StillMissing(healthy,
                                  {row[t].node : t \in ListOpenTables(SweepLimit)} \ healthy)
       /\ unseen' = [n \in Nodes |-> IF n \in healthy THEN 0 ELSE unseen[n]]
       /\ sweep' = [step |-> "reap",
                    due |-> {t \in ListOpenTables(SweepLimit) : row[t].node \in LongMissing \ healthy}]
  /\ UNCHANGED <<live, mysql, nodes, op, lost>>

\* listOpenTables fails: only the healthy nodes have been erased.
SweepGivesUp ==
  /\ sweep.step = "idle"
  /\ \E healthy \in HealthyNodes :
       /\ missing' = StillMissing(healthy, {})
       /\ unseen' = [n \in Nodes |-> IF n \in healthy THEN 0 ELSE unseen[n]]
  /\ UNCHANGED <<live, mysql, nodes, op, sweep, lost>>

\* A due table is refunded, or the attempt fails and is left to a later sweep.
SweepRefund(t) ==
  /\ t \in sweep.due
  /\ AbortTableAndRefund(t)
  /\ sweep' = [sweep EXCEPT !.due = @ \ {t}]
  /\ UNCHANGED <<live, nodes, op, missing, unseen>>

SweepRefundFails(t) ==
  /\ t \in sweep.due
  /\ sweep' = [sweep EXCEPT !.due = @ \ {t}]
  /\ UNCHANGED <<live, mysql, nodes, op, missing, unseen, lost>>

SweepEnds ==
  /\ sweep.step = "reap" /\ sweep.due = {}
  /\ sweep' = NoSweep
  /\ UNCHANGED <<live, mysql, nodes, op, missing, unseen, lost>>

-----------------------------------------------------------------------------
(* Commands *)

\* CREATE_TABLE picks a healthy node for a new number ...
CreateTable(w) ==
  /\ op[w] = Idle
  /\ \E n \in live, t \in Tables :
       /\ row[t] = NoRow
       /\ ~\E v \in Workers : op[v] # Idle /\ op[v].table = t
       /\ op' = [op EXCEPT ![w] = [kind |-> "create", step |-> "store", table |-> t, node |-> n]]
  /\ UNCHANGED <<live, mysql, nodes, reaper, lost>>

\* ... and stores the table, whatever has happened to the node since.
StoreTable(w) ==
  /\ op[w].step = "store"
  /\ row' = [row EXCEPT ![op[w].table] = [status |-> "open", node |-> op[w].node]]
  /\ op' = [op EXCEPT ![w] = Idle]
  /\ UNCHANGED <<live, seats, nodes, reaper, lost>>

\* The persistence fence of a table.
Fenced(n, t) ==
  \E w \in Workers : op[w] # Idle /\ op[w].kind = "sit" /\ op[w].node = n /\ op[w].table = t

\* SIT_DOWN: findTable; only the node MySQL names goes on, and activates the
\* room.
SitDown(w, n, u) ==
  /\ op[w] = Idle /\ process[n] = "up"
  /\ \E t \in OpenTables :
       /\ row[t].node = n /\ ~Fenced(n, t)
       /\ op' = [op EXCEPT ![w] = [kind |-> "sit", step |-> "reserve",
                                   table |-> t, node |-> n, user |-> u]]
       /\ room' = [room EXCEPT ![n][t] = IF @ = None THEN {} ELSE @]
  /\ UNCHANGED <<live, mysql, process, stale, reaper, lost>>

\* reserveBuyIn; the commit's reply may be lost.
ReserveBuyIn(w) ==
  /\ op[w].step = "reserve"
  /\ IF MayReserve(op[w].table, op[w].user)
     THEN /\ seats' = [seats EXCEPT ![op[w].table] = @ \cup {op[w].user}]
          /\ \/ op' = [op EXCEPT ![w].step = "seat"]
             \/ op' = [op EXCEPT ![w] = Idle]
     ELSE op' = [op EXCEPT ![w] = Idle] /\ UNCHANGED seats
  /\ UNCHANGED <<live, row, nodes, reaper, lost>>

\* seatPlayer, or, if the room refuses, the roll-back of the buy-in.
SeatPlayer(w) ==
  /\ op[w].step = "seat"
  /\ \/ /\ room' = [room EXCEPT ![op[w].node][op[w].table] = @ \cup {op[w].user}]
        /\ UNCHANGED seats
     \/ /\ seats' = [seats EXCEPT ![op[w].table] = @ \ {op[w].user}]
        /\ UNCHANGED room
  /\ op' = [op EXCEPT ![w] = Idle]
  /\ UNCHANGED <<live, row, process, stale, reaper, lost>>

\* LEAVE cashes the player out.  If the table was aborted behind the room's
\* back the cash-out fails, and the room is closed.
LeaveTable(n, u) ==
  /\ \E t \in Tables :
       /\ room[n][t] # None /\ u \in room[n][t] /\ ~Fenced(n, t)
       /\ IF u \in seats[t]
          THEN /\ seats' = [seats EXCEPT ![t] = @ \ {u}]
               /\ room' = [room EXCEPT ![n][t] = @ \ {u}]
          ELSE room' = [room EXCEPT ![n][t] = None] /\ UNCHANGED seats
  /\ UNCHANGED <<live, row, process, stale, op, reaper, lost>>

\* A call fails before it takes effect, and the command is refused.
CallFails(w) ==
  /\ op[w].step \in {"store", "reserve"}
  /\ op' = [op EXCEPT ![w] = Idle]
  /\ UNCHANGED <<live, mysql, nodes, reaper, lost>>

-----------------------------------------------------------------------------
NodeStep(n) ==
  \/ StartProcess(n) \/ StartRefund(n) \/ StartServing(n) \/ Heartbeat(n) \/ Crash(n)
  \/ \E u \in Users : LeaveTable(n, u)

WorkerStep(w) ==
  \/ CreateTable(w) \/ StoreTable(w) \/ CallFails(w)
  \/ \E n \in Nodes, u \in Users : SitDown(w, n, u)
  \/ ReserveBuyIn(w) \/ SeatPlayer(w)

SweepStep ==
  \/ SweepLook \/ SweepGivesUp \/ SweepEnds
  \/ \E t \in Tables : SweepRefund(t) \/ SweepRefundFails(t)

Next ==
  \/ \E n \in Nodes : NodeStep(n)
  \/ \E w \in Workers : WorkerStep(w)
  \/ SweepStep \/ KeysExpire \/ Tick

Spec == Init /\ [][Next]_vars

\* The key of a node without a serving process expires.
DeadKeyExpires(n) == process[n] # "up" /\ n \in live /\ KeysExpire /\ n \notin live'

\* Time passes and the sweep timer keeps firing; a call the reaper makes again
\* and again is answered in the end.
Fairness ==
  /\ WF_vars(Tick) /\ SF_vars(SweepLook) /\ WF_vars(SweepEnds)
  /\ \A t \in Tables : SF_vars(SweepRefund(t))
  /\ \A n \in Nodes : WF_vars(DeadKeyExpires(n))

FairSpec == Spec /\ Fairness

-----------------------------------------------------------------------------
(* Properties *)

\* A node that serves has none of the seats an earlier process under its id
\* died with: start-up pays them back before the first heartbeat, so a quick
\* restart cannot hide a hand that was lost (main.cpp:62-76).
RestartHidesNothing ==
  \A s \in lost : process[row[s[1]].node] # "up"

\* A seat whose process died is paid back in the end, by the node's next
\* start-up or by the reaper, whatever restarts, crashes and failing calls come
\* in between (node_failure_reaper.cpp:22-55).
LostSeatsAreRefunded ==
  \A t \in Tables, u \in Users : <<t, u>> \in lost ~> <<t, u>> \notin lost

\* The reaper only takes a table once every sweep of the last grace period has
\* found its node missing (node_failure_reaper.cpp:31-47).
GraceIsKept ==
  \A t \in sweep.due : unseen[row[t].node] >= Grace

\* No chips stay behind at an aborted table: a buy-in racing the refund is
\* either refunded or refused (protocol_service.cpp:798-806).
AbortedTablesAreEmpty ==
  \A t \in Tables : row[t].status # "open" => seats[t] = {}
=============================================================================
