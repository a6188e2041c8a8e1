------------------------------- MODULE Lobby --------------------------------
(***************************************************************************)
(* How the lobby places tables on game nodes and sends players to them:    *)
(* table numbers, room keys and join tickets in Redis, table rows in       *)
(* MySQL.                                                                  *)
(*                                                                         *)
(* Sources: cluster/lobby_router.cpp,                                      *)
(* infrastructure/hiredis_node_registry.cpp, the room keys that a          *)
(* heartbeat of apps/server/main.cpp renews, and CREATE_TABLE, JOIN_TABLE  *)
(* and the first half of SIT_DOWN of apps/server/protocol_service.cpp.     *)
(* What a crash does to the seats is in NodeFailures; here a node that is  *)
(* down is one that takes no steps until it restarts.                      *)
(*                                                                         *)
(* Every call may fail without effect, a write may take effect and lose    *)
(* its reply, keys may expire at any time, and Redis may restart without   *)
(* its data.                                                               *)
(***************************************************************************)
EXTENDS Naturals, FiniteSets

CONSTANTS
  Nodes,       \* ids of the game nodes
  Users,
  Workers,     \* storage threads, of whichever process
  None,
  MaxTable,    \* bound: table numbers
  MaxTickets   \* bound: tickets issued

ASSUME LobbyAssumption == {MaxTable, MaxTickets} \subseteq Nat /\ None \notin Nodes

VARIABLES
  live,      \* Redis: nodes whose heartbeat key exists
  owner,     \* Redis: the room key of each table
  tickets,   \* Redis: join tickets
  counter,   \* Redis: the last table number given out
  row,       \* MySQL: status and node of each table
  active,    \* tables with a room in the memory of each node
  op,        \* the command each worker is executing
  \* Only read by properties:
  issued,    \* number of tickets issued
  paper,     \* tickets that have reached a client
  buys,      \* how often each ticket has been accepted
  reissued   \* numbers given out again after Redis lost its counter

redis == <<live, owner, tickets, counter>>
ghosts == <<issued, paper, buys, reissued>>
vars == <<redis, row, active, op, ghosts>>

Tables == 1 .. MaxTable
Ticket == [user : Users, table : Tables, serial : 1 .. MaxTickets]

Idle == [step |-> "idle"]
NoRow == [status |-> "none", node |-> None]

\* A command in progress, and the ticket that CREATE_TABLE has issued.
Command ==
  {c \in [kind : {"create", "join", "sit"},
          step : {"assign", "owner", "ticket", "store", "find"},
          user : Users, table : Tables, node : Nodes, serial : 0 .. MaxTickets] :
     c.step = "store" => c.serial > 0}

TypeOK ==
  /\ live \subseteq Nodes
  /\ owner \in [Tables -> Nodes \cup {None}]
  /\ tickets \subseteq Ticket /\ paper \subseteq Ticket
  /\ counter \in 0 .. MaxTable
  /\ row \in [Tables -> {NoRow} \cup [status : {"open", "closed"}, node : Nodes]]
  /\ active \in [Nodes -> SUBSET Tables]
  /\ op \in [Workers -> {Idle} \cup Command]
  /\ issued \in 0 .. MaxTickets /\ buys \in [1 .. MaxTickets -> Nat] /\ reissued \subseteq Tables

Init ==
  /\ live = {} /\ owner = [t \in Tables |-> None] /\ tickets = {} /\ counter = 0
  /\ row = [t \in Tables |-> NoRow] /\ active = [n \in Nodes |-> {}]
  /\ op = [w \in Workers |-> Idle]
  /\ issued = 0 /\ paper = {} /\ buys = [k \in 1 .. MaxTickets |-> 0] /\ reissued = {}

-----------------------------------------------------------------------------
(* The registry *)

\* assignRoom's script sets a key that is absent and renews one that already
\* names the node.
MayAssign(t, n) == owner[t] \in {None, n}

\* healthyNodes: a node whose GET fails is left out.
HealthyNodes == SUBSET live

\* heartbeat, with the room keys of the node's rooms; any of the calls may fail.
Heartbeat(n) ==
  /\ live' = live \cup {n}
  /\ \E renewed \in SUBSET {t \in active[n] : MayAssign(t, n)} :
       owner' = [t \in Tables |-> IF t \in renewed THEN n ELSE owner[t]]
  /\ UNCHANGED <<tickets, counter, row, active, op, ghosts>>

KeyExpires ==
  /\ \/ \E n \in live : live' = live \ {n} /\ UNCHANGED <<owner, tickets>>
     \/ \E t \in Tables : /\ owner[t] # None /\ owner' = [owner EXCEPT ![t] = None]
                          /\ UNCHANGED <<live, tickets>>
     \/ \E k \in tickets : tickets' = tickets \ {k} /\ UNCHANGED <<live, owner>>
  /\ UNCHANGED <<counter, row, active, op, ghosts>>

\* Redis restarts without its data.
RedisForgets ==
  /\ counter > 0
  /\ live' = {} /\ owner' = [t \in Tables |-> None] /\ tickets' = {} /\ counter' = 0
  /\ UNCHANGED <<row, active, op, ghosts>>

-----------------------------------------------------------------------------
(* The lobby *)

\* CREATE_TABLE: allocateTableId and assignNewTable's choice of a healthy node.
\* Without one the number is spent.
CreateTable(w, u) ==
  /\ op[w] = Idle /\ counter < MaxTable
  /\ LET t == counter + 1 IN
       /\ counter' = t
       /\ reissued' = IF row[t] # NoRow \/ \E v \in Workers : op[v] # Idle /\ op[v].table = t
                      THEN reissued \cup {t} ELSE reissued
       /\ \/ \E n \in live : op' = [op EXCEPT ![w] = [kind |-> "create", step |-> "assign",
                                                      user |-> u, table |-> t, node |-> n,
                                                      serial |-> 0]]
          \/ UNCHANGED op
  /\ UNCHANGED <<live, owner, tickets, row, active, issued, paper, buys>>

\* JOIN_TABLE: findTable.
JoinTable(w, u) ==
  /\ op[w] = Idle
  /\ \E t \in Tables :
       /\ row[t].status = "open"
       /\ op' = [op EXCEPT ![w] = [kind |-> "join", step |-> "owner",
                                   user |-> u, table |-> t, node |-> row[t].node,
                                   serial |-> 0]]
  /\ UNCHANGED <<redis, row, active, ghosts>>

\* Fault: a missing room key is given to any healthy node.
RouteExistingTable_AnyNode(w) ==
  /\ op[w].step = "owner"
  /\ \E n \in live :
       op' = [op EXCEPT ![w] = CASE owner[op[w].table] = None -> [@ EXCEPT !.step = "assign", !.node = n]
                                 [] owner[op[w].table] = op[w].node -> [@ EXCEPT !.step = "ticket"]
                                 [] OTHER -> Idle]
  /\ UNCHANGED <<redis, row, active, ghosts>>

\* roomOwner and healthyNodes.  Only the node of the table's row will do: a
\* missing room key is set to it, and any other key refuses the player.
RouteExistingTable(w) ==
  /\ op[w].step = "owner"
  /\ \E seen \in {owner[op[w].table], None}, healthy \in HealthyNodes :
       op' = [op EXCEPT ![w] =
                CASE seen = None /\ op[w].node \in healthy -> [@ EXCEPT !.step = "assign"]
                  [] seen = op[w].node /\ seen \in healthy -> [@ EXCEPT !.step = "ticket"]
                  [] OTHER -> Idle]
  /\ UNCHANGED <<redis, row, active, ghosts>>

\* assignRoom; its reply may be lost.
AssignRoom(w) ==
  /\ op[w].step = "assign"
  /\ IF MayAssign(op[w].table, op[w].node)
     THEN /\ owner' = [owner EXCEPT ![op[w].table] = op[w].node]
          /\ \/ op' = [op EXCEPT ![w].step = "ticket"]
             \/ op' = [op EXCEPT ![w] = Idle]
     ELSE op' = [op EXCEPT ![w] = Idle] /\ UNCHANGED owner
  /\ UNCHANGED <<live, tickets, counter, row, active, ghosts>>

TicketOf(command, serial) == [user |-> command.user, table |-> command.table, serial |-> serial]

\* CREATE_TABLE goes on with the ticket it has been given.
Storing(command, serial) ==
  [kind |-> command.kind, step |-> "store", user |-> command.user, table |-> command.table,
   node |-> command.node, serial |-> serial]

\* issue: a ticket under a fresh random key.  It is JOIN_TABLE's answer, which
\* may be lost; CREATE_TABLE goes on to store the table.
IssueTicket(w) ==
  /\ op[w].step = "ticket" /\ issued < MaxTickets
  /\ LET ticket == TicketOf(op[w], issued + 1) IN
       /\ tickets' = tickets \cup {ticket}
       /\ issued' = issued + 1
       /\ IF op[w].kind = "create"
          THEN /\ op' = [op EXCEPT ![w] = Storing(@, issued + 1)]
               /\ UNCHANGED paper
          ELSE /\ op' = [op EXCEPT ![w] = Idle]
               /\ paper' \in {paper, paper \cup {ticket}}
  /\ UNCHANGED <<live, owner, counter, row, active, buys, reissued>>

\* createTable refuses a number that has a row.  A process with both roles that
\* has chosen itself opens the room at once.  The answer may be lost.
StoreTable(w) ==
  /\ op[w].step = "store"
  /\ LET t == op[w].table
         n == op[w].node IN
       IF row[t] = NoRow
       THEN /\ row' = [row EXCEPT ![t] = [status |-> "open", node |-> n]]
            /\ active' \in {active, [active EXCEPT ![n] = @ \cup {t}]}
            /\ paper' \in {paper, paper \cup {TicketOf(op[w], op[w].serial)}}
       ELSE UNCHANGED <<row, active, paper>>
  /\ op' = [op EXCEPT ![w] = Idle]
  /\ UNCHANGED <<redis, issued, buys, reissued>>

\* A call fails before it takes effect, and the command is refused.
CallFails(w) ==
  /\ op[w] # Idle
  /\ op' = [op EXCEPT ![w] = Idle]
  /\ UNCHANGED <<redis, row, active, ghosts>>

-----------------------------------------------------------------------------
(* The game nodes *)

\* consumeJoinTicket: GETDEL.
ConsumeJoinTicket(k) == tickets' = tickets \ {k}

\* SIT_DOWN: whoever shows a ticket uses it up, even if the answer is lost or
\* it was issued for another user.
SitDown(w, n, u) ==
  /\ op[w] = Idle
  /\ \E k \in paper \cap tickets :
       /\ ConsumeJoinTicket(k)
       /\ \/ /\ k.user = u
             /\ op' = [op EXCEPT ![w] = [kind |-> "sit", step |-> "find", user |-> u,
                                         table |-> k.table, node |-> n, serial |-> 0]]
             /\ buys' = [buys EXCEPT ![k.serial] = @ + 1]
          \/ UNCHANGED <<op, buys>>
  /\ UNCHANGED <<live, owner, counter, row, active, issued, paper, reissued>>

\* Fault: the node trusts the ticket.
ActivateRoom_AnyNode(w) ==
  /\ op[w].step = "find"
  /\ IF row[op[w].table].status = "open"
     THEN active' = [active EXCEPT ![op[w].node] = @ \cup {op[w].table}]
     ELSE UNCHANGED active
  /\ op' = [op EXCEPT ![w] = Idle]
  /\ UNCHANGED <<redis, row, ghosts>>

\* findTable: a node only opens a room that MySQL says is its own.
ActivateRoom(w) ==
  /\ op[w].step = "find"
  /\ IF row[op[w].table] = [status |-> "open", node |-> op[w].node]
     THEN active' = [active EXCEPT ![op[w].node] = @ \cup {op[w].table}]
     ELSE UNCHANGED active
  /\ op' = [op EXCEPT ![w] = Idle]
  /\ UNCHANGED <<redis, row, ghosts>>

\* The reaper aborts a table, behind the back of its room.
AbortTable(t) ==
  /\ row[t].status = "open"
  /\ row' = [row EXCEPT ![t].status = "closed"]
  /\ UNCHANGED <<redis, active, op, ghosts>>

\* A node that has died is back: its rooms and commands are gone, and start-up
\* has aborted its tables.
NodeRestarts(n) ==
  /\ n \notin live
  /\ active' = [active EXCEPT ![n] = {}]
  /\ row' = [t \in Tables |-> IF row[t] = [status |-> "open", node |-> n]
                              THEN [row[t] EXCEPT !.status = "closed"] ELSE row[t]]
  /\ op' = [w \in Workers |-> IF op[w] # Idle /\ op[w].kind = "sit" /\ op[w].node = n
                              THEN Idle ELSE op[w]]
  /\ UNCHANGED <<redis, ghosts>>

-----------------------------------------------------------------------------
LobbyStep(w) ==
  \/ \E u \in Users : CreateTable(w, u) \/ JoinTable(w, u)
  \/ RouteExistingTable(w) \/ AssignRoom(w) \/ IssueTicket(w) \/ StoreTable(w)
  \/ CallFails(w)

NodeStep(n) ==
  \/ Heartbeat(n) \/ NodeRestarts(n)
  \/ \E w \in Workers, u \in Users : SitDown(w, n, u)

Next ==
  \/ \E w \in Workers : LobbyStep(w) \/ ActivateRoom(w)
  \/ \E n \in Nodes : NodeStep(n)
  \/ \E t \in Tables : AbortTable(t)
  \/ KeyExpires \/ RedisForgets

Spec == Init /\ [][Next]_vars

-----------------------------------------------------------------------------
(* Properties *)

\* A table is played by one game node: no two nodes hold a room for it, whatever
\* Redis has lost and wherever a stale ticket is shown (protocol_service.cpp:779).
OneNodePlays ==
  \A n, m \in Nodes : n # m => active[n] \cap active[m] = {}

\* As long as its number is not given out again, the room key of an open table
\* names the node that MySQL has recorded, or nobody: a key that was lost is
\* never rebuilt for another node (lobby_router.cpp:36, docs/protocol.md:21).
OwnerFollowsStore ==
  \A t \in Tables \ reissued :
    row[t].status = "open" => owner[t] \in {None, row[t].node}

\* A join ticket lets a player in once, however often it is shown and whichever
\* replies are lost (hiredis_node_registry.cpp:155).
TicketBuysOneSeat ==
  \A k \in 1 .. MaxTickets : buys[k] <= 1
=============================================================================
