---------------------------- MODULE LobbyProofs -----------------------------
(***************************************************************************)
(* The lobby and the connections of a node, which share no state.          *)
(*                                                                         *)
(* For any number of nodes, users, threads, tables and tickets: one node   *)
(* plays a table, a ticket buys one seat, and a room key follows the       *)
(* database, whatever Redis loses.  What makes it so is the row in MySQL:  *)
(* it names a node once and for all, and every command that could          *)
(* contradict it has either read it or is the only one for a table that    *)
(* has none yet.                                                           *)
(*                                                                         *)
(* For any number of users, connections and workers: a connection that     *)
(* speaks for a user does not turn to another one, and a binding is only   *)
(* lost to a later connection or to what its own connection does.  Neither *)
(* is plain from the step alone: a worker that ends an authentication      *)
(* writes the session without looking at it.  AuthInv says that a          *)
(* connection is authenticated by one worker at a time, and speaks for     *)
(* nobody as long as that takes.                                           *)
(***************************************************************************)
EXTENDS Lobby, Connections, TLAPS

-----------------------------------------------------------------------------
(* The lobby *)

\* A room is open only at the node that the table's row names.
Rooms == \A n \in Nodes : \A t \in active[n] : row[t].node = n

\* A player is sent to a table, or has a ticket for it, once it has a row, and a
\* route that is being rebuilt leads to the node of the row.
Rows ==
  /\ \A k \in paper : row[k.table] # NoRow
  /\ \A w \in Workers : op[w] # Idle /\ op[w].kind # "create" =>
       /\ row[op[w].table] # NoRow
       /\ op[w].kind = "join" => row[op[w].table].node = op[w].node
       /\ op[w].kind = "sit" => op[w].step = "find"

\* A table that is being created has no row, and nobody else works on it.
Creating ==
  \A w \in Workers :
    op[w] # Idle /\ op[w].kind = "create" /\ op[w].table \notin reissued =>
      /\ row[op[w].table] = NoRow
      /\ \A v \in Workers : op[v] # Idle /\ op[v].table = op[w].table => v = w
      /\ op[w].step \in {"ticket", "store"} => owner[op[w].table] \in {None, op[w].node}

\* The room key of a table that has a row names the row's node.
Keys == \A t \in Tables \ reissued : row[t] # NoRow => owner[t] \in {None, row[t].node}

\* A ticket in Redis has not been used, and no two have the same number.
Unspent ==
  /\ \A k \in tickets : k.serial <= issued /\ buys[k.serial] = 0
  /\ \A j, k \in tickets : j.serial = k.serial => j = k
  /\ \A i \in 1 .. MaxTickets : i > issued => buys[i] = 0
  /\ TicketBuysOneSeat

LobbyInv == TypeOK /\ Rooms /\ Rows /\ Creating /\ Keys /\ Unspent

\* Nothing is stored and nobody works when the cluster starts.
LEMMA LobbyAtStart == Init => LobbyInv
BY LobbyAssumption
   DEF Init, LobbyInv, TypeOK, Rooms, Rows, Creating, Keys, Unspent, TicketBuysOneSeat,
       Idle, NoRow, Tables, Ticket, Command

\* What is in progress is a command.
LEMMA OpIsCommand ==
  ASSUME TypeOK, NEW w \in Workers, op[w] # Idle
  PROVE  op[w] \in Command
BY DEF TypeOK

\* A command that ends, by a refusal or with its last call.
LEMMA OpEnds ==
  ASSUME LobbyInv, NEW w \in Workers, op' = [op EXCEPT ![w] = Idle],
         UNCHANGED <<redis, row, active, ghosts>>
  PROVE  LobbyInv'
BY DEF LobbyInv, TypeOK, Rooms, Rows, Creating, Keys, Unspent, TicketBuysOneSeat, redis, ghosts

\* A heartbeat renews the keys of rooms that the node has, and so of rows that
\* name it (main.cpp:115).
LEMMA HeartbeatKeeps == ASSUME LobbyInv, NEW n \in Nodes, Heartbeat(n) PROVE LobbyInv'
<1>1. PICK renewed \in SUBSET {t \in active[n] : MayAssign(t, n)} :
        owner' = [t \in Tables |-> IF t \in renewed THEN n ELSE owner[t]]
  BY DEF Heartbeat
<1>2. live' = live \cup {n} /\ UNCHANGED <<tickets, counter, row, active, op, ghosts>>
  BY DEF Heartbeat
<1>3. \A t \in renewed : row[t].node = n /\ row[t] # NoRow
  BY LobbyAssumption DEF LobbyInv, Rooms, NoRow
<1>4. TypeOK'
  BY <1>1, <1>2 DEF LobbyInv, TypeOK, ghosts
<1>5. Creating'
  BY <1>1, <1>2, <1>3 DEF LobbyInv, TypeOK, Creating, Command, ghosts
<1>6. Keys'
  BY <1>1, <1>2, <1>3 DEF LobbyInv, TypeOK, Keys, ghosts
<1>7. QED
  BY <1>2, <1>4, <1>5, <1>6 DEF LobbyInv, Rooms, Rows, Unspent, TicketBuysOneSeat, ghosts

\* Losing keys, tickets or the counter contradicts no row.
LEMMA LossKeeps == ASSUME LobbyInv, KeyExpires \/ RedisForgets PROVE LobbyInv'
<1>1. /\ live' \subseteq live /\ tickets' \subseteq tickets /\ counter' \in {0, counter}
      /\ owner' \in [Tables -> Nodes \cup {None}]
      /\ \A t \in Tables : owner'[t] \in {None, owner[t]}
      /\ UNCHANGED <<row, active, op, ghosts>>
  BY DEF KeyExpires, RedisForgets, LobbyInv, TypeOK
<1>2. TypeOK'
  BY <1>1, LobbyAssumption DEF LobbyInv, TypeOK, ghosts
<1>3. Creating' /\ Keys'
  BY <1>1 DEF LobbyInv, TypeOK, Creating, Keys, Command, ghosts
<1>4. QED
  BY <1>1, <1>2, <1>3 DEF LobbyInv, Rooms, Rows, Unspent, TicketBuysOneSeat, ghosts

\* A number is only shared with a table that had it before (lobby_router.cpp:23).
LEMMA CreateKeeps ==
  ASSUME LobbyInv, NEW w \in Workers, NEW u \in Users, CreateTable(w, u) PROVE LobbyInv'
<1> DEFINE t == counter + 1
<1>1. /\ op[w] = Idle /\ t \in Tables /\ counter' = t
      /\ UNCHANGED <<live, owner, tickets, row, active, issued, paper, buys>>
      /\ reissued' \in {reissued, reissued \cup {t}}
      /\ t \notin reissued' => row[t] = NoRow /\ \A v \in Workers : op[v] # Idle => op[v].table # t
  BY LobbyAssumption DEF CreateTable, LobbyInv, TypeOK, Tables
<1>2. CASE UNCHANGED op
  BY <1>1, <1>2 DEF LobbyInv, TypeOK, Rooms, Rows, Creating, Keys, Unspent, TicketBuysOneSeat, Tables
<1>3. ASSUME NEW n \in live,
             op' = [op EXCEPT ![w] = [kind |-> "create", step |-> "assign", user |-> u,
                                      table |-> t, node |-> n, serial |-> 0]]
      PROVE  LobbyInv'
  <2>1. /\ op'[w] \in Command /\ op'[w].kind = "create" /\ op'[w].table = t
        /\ op'[w].step = "assign"
        /\ \A v \in Workers \ {w} : op'[v] = op[v]
        /\ op' \in [Workers -> {Idle} \cup Command]
    BY <1>1, <1>3, LobbyAssumption DEF LobbyInv, TypeOK, Command
  <2>2. TypeOK'
    BY <1>1, <2>1 DEF LobbyInv, TypeOK, Tables
  <2>3. Rows'
    BY <1>1, <2>1 DEF LobbyInv, Rows
  <2>4. Creating'
    BY <1>1, <2>1 DEF LobbyInv, Creating
  <2>5. QED
    BY <1>1, <2>2, <2>3, <2>4 DEF LobbyInv, Rooms, Keys, Unspent, TicketBuysOneSeat
<1>4. QED
  BY <1>2, <1>3 DEF CreateTable

\* findTable reads the node that JOIN_TABLE will insist on
\* (protocol_service.cpp:727).
LEMMA JoinKeeps ==
  ASSUME LobbyInv, NEW w \in Workers, NEW u \in Users, JoinTable(w, u) PROVE LobbyInv'
<1>1. PICK t \in Tables :
        /\ row[t].status = "open"
        /\ op' = [op EXCEPT ![w] = [kind |-> "join", step |-> "owner", user |-> u, table |-> t,
                                    node |-> row[t].node, serial |-> 0]]
  BY Zenon DEF JoinTable
<1>2. op[w] = Idle /\ UNCHANGED <<redis, row, active, ghosts>>
  BY DEF JoinTable
<1>3. row[t] # NoRow /\ row[t].node \in Nodes
  BY <1>1 DEF LobbyInv, TypeOK, NoRow
<1>4. /\ op'[w] \in Command /\ op'[w].kind = "join" /\ op'[w].table = t /\ op'[w].node = row[t].node
      /\ \A v \in Workers \ {w} : op'[v] = op[v]
      /\ op' \in [Workers -> {Idle} \cup Command]
  BY <1>1, <1>3, LobbyAssumption DEF LobbyInv, TypeOK, Command
<1>5. TypeOK' /\ Rows'
  BY <1>2, <1>3, <1>4 DEF LobbyInv, TypeOK, Rows, redis, ghosts
<1>6. Creating'
  BY <1>2, <1>3, <1>4 DEF LobbyInv, Creating, redis, ghosts
<1>7. QED
  BY <1>2, <1>5, <1>6, Zenon DEF LobbyInv, Rooms, Keys, Unspent, TicketBuysOneSeat,
     redis, ghosts

\* routeExistingTable goes on to a ticket only if it has seen the key of the node
\* that the row names (lobby_router.cpp:47).
LEMMA RouteKeeps ==
  ASSUME LobbyInv, NEW w \in Workers, RouteExistingTable(w) PROVE LobbyInv'
<1>1. op[w] # Idle /\ op[w] \in Command /\ op[w].step = "owner"
  BY DEF RouteExistingTable, LobbyInv, TypeOK, Idle
<1>2. UNCHANGED <<redis, row, active, ghosts>>
  BY DEF RouteExistingTable
<1>3. CASE op' = [op EXCEPT ![w] = Idle]
  BY <1>2, <1>3, OpEnds, Zenon
<1>4. ASSUME NEW s \in {"assign", "ticket"}, op' = [op EXCEPT ![w] = [op[w] EXCEPT !.step = s]],
             s = "ticket" => owner[op[w].table] = op[w].node
      PROVE  LobbyInv'
  <2>1. /\ op'[w] \in Command /\ op'[w].step = s
        /\ op'[w].kind = op[w].kind /\ op'[w].table = op[w].table /\ op'[w].node = op[w].node
        /\ \A v \in Workers \ {w} : op'[v] = op[v]
        /\ op' \in [Workers -> {Idle} \cup Command]
    BY <1>1, <1>4 DEF LobbyInv, TypeOK, Command
  <2>2. TypeOK' /\ Rows'
    BY <1>1, <1>2, <2>1 DEF LobbyInv, TypeOK, Rows, redis, ghosts
  <2>3. Creating'
    BY <1>1, <1>2, <1>4, <2>1 DEF LobbyInv, Creating, redis, ghosts
  <2>4. QED
    BY <1>2, <2>2, <2>3, Zenon DEF LobbyInv, Rooms, Keys, Unspent,
       TicketBuysOneSeat, redis, ghosts
<1>5. \/ op' = [op EXCEPT ![w] = Idle]
      \/ \E s \in {"assign", "ticket"} :
           /\ op' = [op EXCEPT ![w] = [op[w] EXCEPT !.step = s]]
           /\ s = "ticket" => owner[op[w].table] = op[w].node
  <2>1. PICK seen \in {owner[op[w].table], None}, healthy \in HealthyNodes :
          op' = [op EXCEPT ![w] =
                   CASE seen = None /\ op[w].node \in healthy -> [op[w] EXCEPT !.step = "assign"]
                     [] seen = op[w].node /\ seen \in healthy -> [op[w] EXCEPT !.step = "ticket"]
                     [] OTHER -> Idle]
    BY Zenon DEF RouteExistingTable
  <2>2. op[w].node # None
    BY <1>1, LobbyAssumption DEF Command
  <2>3. CASE seen = None /\ op[w].node \in healthy
    BY <2>1, <2>2, <2>3, Zenon
  <2>4. CASE seen = op[w].node /\ seen \in healthy
    BY <2>1, <2>2, <2>4, Zenon
  <2>5. QED
    BY <2>1, <2>3, <2>4, Zenon
<1>6. QED
  BY <1>3, <1>4, <1>5

\* assignRoom writes the key of a table without a row only for the command that
\* creates it, and otherwise the node of the row.
LEMMA AssignKeeps ==
  ASSUME LobbyInv, NEW w \in Workers, AssignRoom(w) PROVE LobbyInv'
<1> DEFINE t == op[w].table
           n == op[w].node
<1>1. op[w] # Idle /\ op[w] \in Command /\ op[w].step = "assign"
  BY DEF AssignRoom, LobbyInv, TypeOK, Idle
<1>2. UNCHANGED <<live, tickets, counter, row, active, ghosts>>
  BY DEF AssignRoom
<1>3. CASE op' = [op EXCEPT ![w] = Idle] /\ UNCHANGED owner
  BY <1>2, <1>3, OpEnds, Zenon DEF redis
<1>4. ASSUME owner' = [owner EXCEPT ![t] = n],
             op' = [op EXCEPT ![w] = Idle] \/ op' = [op EXCEPT ![w].step = "ticket"]
      PROVE  LobbyInv'
  <2>1. /\ \/ op'[w] = Idle
           \/ /\ op'[w] \in Command /\ op'[w].step = "ticket" /\ op'[w].kind = op[w].kind
              /\ op'[w].table = t /\ op'[w].node = n
        /\ \A v \in Workers \ {w} : op'[v] = op[v]
        /\ op' \in [Workers -> {Idle} \cup Command]
    BY <1>1, <1>4 DEF LobbyInv, TypeOK, Command
  <2>2. /\ owner' \in [Tables -> Nodes \cup {None}] /\ t \in Tables /\ n \in Nodes
        /\ owner'[t] = n /\ \A s \in Tables \ {t} : owner'[s] = owner[s]
    BY <1>1, <1>4 DEF LobbyInv, TypeOK, Command
  <2>3. TypeOK'
    BY <1>2, <2>1, <2>2 DEF LobbyInv, TypeOK, ghosts
  <2>4. Rows'
    BY <1>1, <1>2, <2>1 DEF LobbyInv, Rows, ghosts
  <2>5. Creating'
    BY <1>1, <1>2, <2>1, <2>2, SMTT(20) DEF LobbyInv, Creating, Command, ghosts
  <2>6. Keys'
    BY <1>1, <1>2, <2>2 DEF LobbyInv, Keys, Rows, Creating, Command, ghosts
  <2>7. QED
    BY <1>2, <2>3, <2>4, <2>5, <2>6 DEF LobbyInv, Rooms, Unspent, TicketBuysOneSeat, ghosts
<1>5. QED
  BY <1>3, <1>4 DEF AssignRoom

\* issue gives out a number that no ticket has had (lobby_router.cpp:62).
LEMMA IssueKeeps ==
  ASSUME LobbyInv, NEW w \in Workers, IssueTicket(w) PROVE LobbyInv'
<1> DEFINE ticket == TicketOf(op[w], issued + 1)
<1>1. op[w] # Idle /\ op[w] \in Command /\ op[w].step = "ticket"
  BY DEF IssueTicket, LobbyInv, TypeOK, Idle
<1>2. /\ UNCHANGED <<live, owner, counter, row, active, buys, reissued>>
      /\ tickets' = tickets \cup {ticket} /\ issued' = issued + 1
      /\ paper' \in {paper, paper \cup {ticket}} /\ (op[w].kind = "create" => paper' = paper)
      /\ op' = [op EXCEPT ![w] = IF op[w].kind = "create" THEN Storing(op[w], issued + 1) ELSE Idle]
  BY DEF IssueTicket
<1>3. issued \in Nat /\ issued + 1 \in 1 .. MaxTickets
  BY LobbyAssumption DEF IssueTicket, LobbyInv, TypeOK
<1>4. /\ ticket \in Ticket /\ ticket.serial = issued + 1 /\ ticket.table = op[w].table
  BY <1>1, <1>3 DEF TicketOf, Command, Ticket
<1> HIDE DEF ticket
<1>5. /\ \/ op'[w] = Idle
         \/ /\ op'[w] \in Command /\ op'[w].kind = "create" /\ op[w].kind = "create"
            /\ op'[w].step = "store" /\ op'[w].table = op[w].table /\ op'[w].node = op[w].node
      /\ \A v \in Workers \ {w} : op'[v] = op[v]
      /\ op' \in [Workers -> {Idle} \cup Command]
  BY <1>1, <1>2, <1>3 DEF LobbyInv, TypeOK, Command, Storing
<1>6. TypeOK'
  BY <1>2, <1>3, <1>4, <1>5 DEF LobbyInv, TypeOK
<1>7. Rows'
  BY <1>1, <1>2, <1>4, <1>5 DEF LobbyInv, Rows
<1>8. Creating'
  BY <1>1, <1>2, <1>5 DEF LobbyInv, Creating
<1>9. Unspent'
  BY <1>2, <1>3, <1>4 DEF LobbyInv, TypeOK, Unspent, Ticket, TicketBuysOneSeat
<1>10. QED
  BY <1>2, <1>6, <1>7, <1>8, <1>9, Zenon DEF LobbyInv, Rooms, Keys

\* createTable gives a table its node once (mysql_game_store.cpp:447).
LEMMA StoreKeeps ==
  ASSUME LobbyInv, NEW w \in Workers, StoreTable(w) PROVE LobbyInv'
<1> DEFINE t == op[w].table
           n == op[w].node
           ticket == TicketOf(op[w], op[w].serial)
<1>1. op[w] # Idle /\ op[w] \in Command /\ op[w].step = "store"
  BY DEF StoreTable, LobbyInv, TypeOK, Idle
<1>2. op' = [op EXCEPT ![w] = Idle] /\ UNCHANGED <<redis, issued, buys, reissued>>
  BY DEF StoreTable
<1>3. CASE row[t] # NoRow
  BY <1>2, <1>3, OpEnds, Zenon DEF StoreTable, ghosts
<1>4. CASE row[t] = NoRow
  <2>1. /\ row' = [row EXCEPT ![t] = [status |-> "open", node |-> n]]
        /\ active' \in {active, [active EXCEPT ![n] = @ \cup {t}]}
        /\ paper' \in {paper, paper \cup {ticket}}
    BY <1>4, Zenon DEF StoreTable
  <2>2. t \in Tables /\ n \in Nodes /\ op[w].kind = "create"
    BY <1>1, <1>4, Zenon DEF LobbyInv, Rows, Command
  <2>3. /\ row'[t].node = n /\ row'[t] # NoRow /\ \A s \in Tables \ {t} : row'[s] = row[s]
        /\ row' \in [Tables -> {NoRow} \cup [status : {"open", "closed"}, node : Nodes]]
    BY <2>1, <2>2 DEF LobbyInv, TypeOK, NoRow
  <2>4. /\ active' \in [Nodes -> SUBSET Tables]
        /\ \A m \in Nodes : active'[m] = active[m] \/ (m = n /\ active'[m] = active[m] \cup {t})
    BY <2>1, <2>2 DEF LobbyInv, TypeOK
  <2>5. ticket \in Ticket /\ ticket.table = t
    BY <1>1, LobbyAssumption DEF TicketOf, Command, Ticket
  <2> HIDE DEF ticket
  <2>6. /\ op'[w] = Idle /\ \A v \in Workers \ {w} : op'[v] = op[v]
        /\ op' \in [Workers -> {Idle} \cup Command]
    BY <1>2 DEF LobbyInv, TypeOK
  <2>7. TypeOK'
    BY <1>2, <2>1, <2>3, <2>4, <2>5, <2>6, Zenon DEF LobbyInv, TypeOK, redis
  <2>8. Rooms'
    <3>1. \A m \in Nodes : t \notin active[m]
      BY <1>4, LobbyAssumption DEF LobbyInv, Rooms, NoRow
    <3>2. ASSUME NEW m \in Nodes, NEW s \in active'[m] PROVE row'[s].node = m
      <4>1. s \in Tables
        BY <2>4, <3>2
      <4>2. s = t => m = n
        BY <2>4, <3>1, <3>2
      <4>3. s # t => s \in active[m]
        BY <2>4, <3>2
      <4>4. QED
        BY <2>3, <4>1, <4>2, <4>3 DEF LobbyInv, Rooms
    <3>3. QED
      BY <3>2 DEF Rooms
  <2>9. Rows'
    BY <1>4, <2>1, <2>3, <2>5, <2>6 DEF LobbyInv, Rows
  <2>10. Creating'
    BY <1>1, <1>2, <2>2, <2>3, <2>6 DEF LobbyInv, TypeOK, Creating, Command, redis
  <2>11. Keys'
    BY <1>1, <1>2, <2>2, <2>3 DEF LobbyInv, Keys, Creating, redis
  <2>12. QED
    BY <1>2, <2>7, <2>8, <2>9, <2>10, <2>11 DEF LobbyInv, Unspent, TicketBuysOneSeat, redis
<1>5. QED
  BY <1>3, <1>4

\* GETDEL leaves no ticket to be shown again (hiredis_node_registry.cpp:155).
LEMMA SitDownKeeps ==
  ASSUME LobbyInv, NEW w \in Workers, NEW n \in Nodes, NEW u \in Users, SitDown(w, n, u)
  PROVE  LobbyInv'
<1>1. op[w] = Idle /\ UNCHANGED <<live, owner, counter, row, active, issued, paper, reissued>>
  BY DEF SitDown
<1>2. PICK k \in paper \cap tickets :
        /\ tickets' = tickets \ {k}
        /\ \/ /\ op' = [op EXCEPT ![w] = [kind |-> "sit", step |-> "find", user |-> u,
                                          table |-> k.table, node |-> n, serial |-> 0]]
              /\ buys' = [buys EXCEPT ![k.serial] = @ + 1]
           \/ UNCHANGED <<op, buys>>
  BY DEF SitDown, ConsumeJoinTicket
<1>3. k.table \in Tables /\ k.serial \in 1 .. MaxTickets /\ row[k.table] # NoRow
  BY DEF LobbyInv, TypeOK, Rows, Ticket
<1>4. /\ \/ op'[w] = Idle
         \/ /\ op'[w] \in Command /\ op'[w].kind = "sit" /\ op'[w].step = "find"
            /\ op'[w].table = k.table
      /\ \A v \in Workers \ {w} : op'[v] = op[v]
      /\ op' \in [Workers -> {Idle} \cup Command]
  BY <1>1, <1>2, <1>3, LobbyAssumption DEF LobbyInv, TypeOK, Command
<1>5. /\ buys' \in [1 .. MaxTickets -> Nat] /\ buys'[k.serial] \in {0, 1}
      /\ \A i \in 1 .. MaxTickets : i # k.serial => buys'[i] = buys[i]
  <2>1. buys \in [1 .. MaxTickets -> Nat] /\ buys[k.serial] = 0
    BY <1>2, Zenon DEF LobbyInv, TypeOK, Unspent
  <2>2. CASE buys' = [buys EXCEPT ![k.serial] = @ + 1]
    BY <1>3, <2>1, <2>2
  <2>3. QED
    BY <1>2, <2>1, <2>2, Zenon
<1>6. TypeOK' /\ Rows'
  BY <1>1, <1>2, <1>4, SMTT(20) DEF LobbyInv, TypeOK, Rows
<1>7. Creating'
  BY <1>1, <1>3, <1>4 DEF LobbyInv, Creating
<1>8. Unspent'
  BY <1>1, <1>2, <1>3, <1>5 DEF LobbyInv, TypeOK, Unspent, Ticket, TicketBuysOneSeat
<1>9. QED
  BY <1>1, <1>6, <1>7, <1>8, Zenon DEF LobbyInv, Rooms, Keys

\* A room opens only where the row says (protocol_service.cpp:779).
LEMMA ActivateKeeps ==
  ASSUME LobbyInv, NEW w \in Workers, ActivateRoom(w) PROVE LobbyInv'
<1>1. op[w] # Idle /\ op[w] \in Command
  BY DEF ActivateRoom, LobbyInv, TypeOK, Idle
<1>2. op' = [op EXCEPT ![w] = Idle] /\ UNCHANGED <<redis, row, ghosts>>
  BY DEF ActivateRoom
<1>3. CASE UNCHANGED active
  BY <1>2, <1>3, OpEnds, Zenon
<1>4. CASE /\ row[op[w].table].node = op[w].node
           /\ active' = [active EXCEPT ![op[w].node] = @ \cup {op[w].table}]
  <2>1. active' \in [Nodes -> SUBSET Tables] /\ Rooms'
    BY <1>1, <1>2, <1>4 DEF LobbyInv, TypeOK, Rooms, Command
  <2>2. QED
    BY <1>2, <2>1 DEF LobbyInv, TypeOK, Rows, Creating, Keys, Unspent, TicketBuysOneSeat, redis, ghosts
<1>5. QED
  BY <1>3, <1>4 DEF ActivateRoom

\* Closing a table leaves the row and its node.
LEMMA ClosingKeeps ==
  ASSUME LobbyInv, (\E t \in Tables : AbortTable(t)) \/ (\E n \in Nodes : NodeRestarts(n))
  PROVE  LobbyInv'
<1> DEFINE Row == [status : {"open", "closed"}, node : Nodes]
           Closed(t) == [row[t] EXCEPT !.status = "closed"]
<1>1. ASSUME NEW t \in Tables, row[t].status = "open"
      PROVE  Closed(t) \in Row /\ Closed(t).node = row[t].node /\ Closed(t) # NoRow /\ row[t] # NoRow
  BY <1>1 DEF LobbyInv, TypeOK, NoRow
<1>2. /\ row' \in [Tables -> {NoRow} \cup Row]
      /\ \A t \in Tables : row'[t] = row[t] \/ (row[t].status = "open" /\ row'[t] = Closed(t))
      /\ active' \in [Nodes -> SUBSET Tables] /\ \A n \in Nodes : active'[n] \subseteq active[n]
      /\ op' \in [Workers -> {Idle} \cup Command]
      /\ \A w \in Workers : op'[w] = op[w] \/ op'[w] = Idle
      /\ UNCHANGED <<redis, ghosts>>
  <2>1. CASE \E t \in Tables : AbortTable(t)
    BY <1>1, <2>1 DEF AbortTable, LobbyInv, TypeOK
  <2>2. CASE \E n \in Nodes : NodeRestarts(n)
    BY <1>1, <2>2 DEF NodeRestarts, LobbyInv, TypeOK
  <2>3. QED
    BY <2>1, <2>2
<1>3. /\ row' \in [Tables -> {NoRow} \cup Row]
      /\ \A t \in Tables : row'[t].node = row[t].node /\ (row'[t] = NoRow <=> row[t] = NoRow)
      /\ active' \in [Nodes -> SUBSET Tables] /\ \A n \in Nodes : active'[n] \subseteq active[n]
      /\ op' \in [Workers -> {Idle} \cup Command]
      /\ \A w \in Workers : op'[w] = op[w] \/ op'[w] = Idle
      /\ UNCHANGED <<redis, ghosts>>
  BY <1>1, <1>2
<1>4. TypeOK'
  BY <1>3 DEF LobbyInv, TypeOK, redis, ghosts
<1>5. Rooms'
  BY <1>3 DEF LobbyInv, TypeOK, Rooms
<1>6. Rows'
  BY <1>3 DEF LobbyInv, TypeOK, Rows, Command, Ticket, ghosts
<1>7. Creating'
  BY <1>3 DEF LobbyInv, TypeOK, Creating, Command, redis, ghosts
<1>8. QED
  BY <1>3, <1>4, <1>5, <1>6, <1>7, Zenon DEF LobbyInv, Keys, Unspent,
     TicketBuysOneSeat, redis, ghosts

\* Every step of the lobby, of the nodes and of Redis keeps the invariant.
LEMMA LobbyKept == LobbyInv /\ [Next]_vars => LobbyInv'
<1> SUFFICES ASSUME LobbyInv, [Next]_vars PROVE LobbyInv'
  OBVIOUS
<1>1. ASSUME NEW w \in Workers, LobbyStep(w) PROVE LobbyInv'
  <2>1. CASE CallFails(w)
    BY <2>1, OpEnds, Zenon DEF CallFails
  <2>2. QED
    BY <1>1, <2>1, CreateKeeps, JoinKeeps, RouteKeeps, AssignKeeps, IssueKeeps, StoreKeeps
       DEF LobbyStep
<1>2. ASSUME NEW n \in Nodes, NodeStep(n) PROVE LobbyInv'
  BY <1>2, HeartbeatKeeps, ClosingKeeps, SitDownKeeps DEF NodeStep
<1>3. CASE UNCHANGED vars
  BY <1>3, Zenon DEF vars, redis, ghosts, LobbyInv, TypeOK, Rooms, Rows, Creating,
     Keys, Unspent, TicketBuysOneSeat
<1>4. QED
  BY <1>1, <1>2, <1>3, ActivateKeeps, ClosingKeeps, LossKeeps DEF Next

\* However Redis loses keys, counter and tickets, and wherever a stale ticket is
\* shown, no two nodes hold a room for one table (protocol_service.cpp:779).
THEOREM OneNodeAlways == Spec => []OneNodePlays
<1>1. LobbyInv => OneNodePlays
  BY DEF LobbyInv, Rooms, OneNodePlays
<1>2. QED
  BY <1>1, LobbyAtStart, LobbyKept, PTL DEF Spec

\* A room key that was lost is rebuilt for the node in MySQL or for nobody
\* (lobby_router.cpp:35-48, docs/protocol.md:21).
THEOREM OwnerAlwaysFollows == Spec => []OwnerFollowsStore
<1>1. LobbyInv => OwnerFollowsStore
  BY DEF LobbyInv, Keys, OwnerFollowsStore, NoRow
<1>2. QED
  BY <1>1, LobbyAtStart, LobbyKept, PTL DEF Spec

\* A join ticket is accepted at most once, by whatever node it is shown to
\* (hiredis_node_registry.cpp:155).
THEOREM TicketsBuyOnce == Spec => []TicketBuysOneSeat
<1>1. LobbyInv => TicketBuysOneSeat
  BY DEF LobbyInv, Unspent
<1>2. QED
  BY <1>1, LobbyAtStart, LobbyKept, PTL DEF Spec

-----------------------------------------------------------------------------
(* Connections *)

Fields == {"user", "token", "table", "busy"}

Session(s) == DOMAIN s = Fields /\ s.busy \in BOOLEAN

\* Whoever does something does it for a connection.
Job(j) == {"step", "conn"} \subseteq DOMAIN j /\ (j.step # "idle" => j.conn \in Conns)

\* A storage command that will write the user of a session.
Authenticates(j) == j.step \in {"login", "authenticate"}

IsQueue(q) == \E S : q \in Seq(S)

\* The room answers connections, or nobody.
Answerable(q) == IsQueue(q) /\ \A i \in 1 .. Len(q) : q[i].conn \in Conns \cup {Nil}

AuthInv ==
  /\ DOMAIN sess = Conns /\ \A c \in Conns : Session(sess[c])
  /\ DOMAIN at = Threads /\ \A th \in Threads : Job(at[th])
  /\ Answerable(queue) /\ users \in [Players -> Conns \cup {Nil}] /\ load \in Loads
  /\ \A th \in Threads :
       Authenticates(at[th]) => sess[at[th].conn].busy /\ sess[at[th].conn].user = Nil
  /\ \A th, v \in Threads :
       Authenticates(at[th]) /\ Authenticates(at[v]) /\ at[th].conn = at[v].conn => th = v

\* What IdentityIsStable says of a step.
Stable == \A c \in Conns : sess[c].user # Nil => sess'[c].user \in {Nil, sess[c].user}

\* The session s of connection c is that of before, but for its table and token,
\* or is reset.
Tame(c, s) == Session(s) /\ s.busy = sess[c].busy /\ s.user \in {Nil, sess[c].user}

\* The variables of AuthInv that do not matter to sessions.
Rest == Answerable(queue') /\ users' \in [Players -> Conns \cup {Nil}] /\ load' \in Loads

-----------------------------------------------------------------------------
(* Queues and records. *)

\* A task for a connection, or for none, may be posted.
LEMMA PostedAnswers ==
  ASSUME AuthInv, NEW user, NEW on, NEW conn \in Conns \cup {Nil}
  PROVE  Answerable(Posted(user, on, conn))
<1> PICK t : t = [user |-> user, on |-> on, conn |-> conn]
  BY Zenon
<1>1. t.conn = conn
  OBVIOUS
<1>2. PICK S : queue \in Seq(S)
  BY Zenon DEF AuthInv, Answerable, IsQueue
<1>3. queue \in Seq(S \cup {t})
  BY <1>2
<1>4. Append(queue, t) \in Seq(S \cup {t}) /\ Len(Append(queue, t)) = Len(queue) + 1
  BY <1>3
<1>5. \A i \in 1 .. Len(queue) + 1 : Append(queue, t)[i] = IF i <= Len(queue) THEN queue[i] ELSE t
  BY <1>3
<1>6. Answerable(queue) /\ Len(queue) \in Nat
  BY <1>2 DEF AuthInv
<1>7. IsQueue(Append(queue, t))
  BY <1>4, Zenon DEF IsQueue
<1>8. \A i \in 1 .. Len(queue) + 1 : Append(queue, t)[i].conn \in Conns \cup {Nil}
  BY <1>6 DEF Answerable
<1>9. Answerable(Append(queue, t))
  BY <1>4, <1>7, <1>8, Zenon DEF Answerable
<1> QED BY <1>6, <1>9 DEF Posted

\* The room takes the first task.
LEMMA TailAnswers ==
  ASSUME AuthInv, queue # <<>>
  PROVE  Answerable(Tail(queue)) /\ Head(queue).conn \in Conns \cup {Nil}
<1>1. PICK S : queue \in Seq(S)
  BY DEF AuthInv, Answerable, IsQueue
<1>2. /\ Tail(queue) \in Seq(S) /\ Len(queue) \in Nat /\ Len(Tail(queue)) = Len(queue) - 1
      /\ Len(queue) >= 1 /\ Head(queue) = queue[1]
      /\ \A i \in 1 .. Len(queue) - 1 : Tail(queue)[i] = queue[i + 1]
  BY <1>1
<1>3. IsQueue(Tail(queue))
  BY <1>2 DEF IsQueue
<1> QED BY <1>2, <1>3 DEF AuthInv, Answerable

\* bindAuthenticated is a job for the connection, or nothing.
LEMMA BindIsJob ==
  ASSUME NEW c \in Conns, NEW user
  PROVE  Job(Bind(c, user)) /\ ~Authenticates(Bind(c, user))
BY DEF Job, Bind, NoJob, Authenticates

\* No job at all.
LEMMA IdleIsJob == Job(NoJob) /\ ~Authenticates(NoJob)
BY DEF Job, NoJob, Authenticates

\* The ways in which a session is reset or changed.
LEMMA TameSessions ==
  ASSUME AuthInv, NEW c \in Conns
  PROVE  /\ Tame(c, sess[c]) /\ Tame(c, Cleared(c))
         /\ ~sess[c].busy => Tame(c, NoSession)
         /\ \A table : Tame(c, [sess[c] EXCEPT !.table = table])
         /\ \A token : Tame(c, [sess[c] EXCEPT !.token = token])
BY Zenon DEF AuthInv, Tame, Session, Fields, Cleared, NoSession

-----------------------------------------------------------------------------
(* Kinds of steps. *)

\* A thread goes on, and at most resets or touches up a session.
LEMMA TameStep ==
  ASSUME AuthInv, Rest, NEW c \in Conns, NEW s, Tame(c, s), sess' = [sess EXCEPT ![c] = s],
         NEW th \in Threads, NEW j, Job(j), ~Authenticates(j), at' = [at EXCEPT ![th] = j]
  PROVE  AuthInv' /\ Stable
<1>1. sess'[c] = s /\ \A d \in Conns \ {c} : sess'[d] = sess[d]
  BY Zenon DEF AuthInv
<1>2. at'[th] = j /\ \A v \in Threads \ {th} : at'[v] = at[v]
  BY Zenon DEF AuthInv
<1>3. DOMAIN sess' = Conns /\ DOMAIN at' = Threads
  BY Zenon DEF AuthInv
<1>4. \A d \in Conns : /\ Session(sess'[d]) /\ sess'[d].busy = sess[d].busy
                       /\ sess'[d].user \in {Nil, sess[d].user}
  BY <1>1, Zenon DEF AuthInv, Tame
<1>5. \A v \in Threads : Authenticates(at'[v]) => v # th /\ at'[v] = at[v]
  BY <1>2
<1>6. \A v \in Threads : Job(at'[v])
  BY <1>2, Zenon DEF AuthInv
<1>7. \A v \in Threads : Authenticates(at[v]) => at[v].conn \in Conns
  BY Zenon DEF AuthInv, Job, Authenticates
<1>8. \A v \in Threads : Authenticates(at'[v]) => sess'[at'[v].conn].busy /\ sess'[at'[v].conn].user = Nil
  BY <1>4, <1>5, <1>7 DEF AuthInv
<1>9. \A v, w \in Threads :
        Authenticates(at'[v]) /\ Authenticates(at'[w]) /\ at'[v].conn = at'[w].conn => v = w
  BY <1>5, Zenon DEF AuthInv
<1>10. Stable
  BY <1>4 DEF Stable
<1> QED BY <1>3, <1>4, <1>6, <1>8, <1>9, <1>10, Zenon DEF AuthInv, Rest, Job,
           Authenticates

\* A thread goes on, and no session changes.
LEMMA PlainStep ==
  ASSUME AuthInv, Rest, UNCHANGED sess,
         NEW th \in Threads, NEW j, Job(j), ~Authenticates(j), at' = [at EXCEPT ![th] = j]
  PROVE  AuthInv' /\ Stable
<1>1. at'[th] = j /\ \A v \in Threads \ {th} : at'[v] = at[v]
  BY Zenon DEF AuthInv
<1>2. DOMAIN at' = Threads
  BY Zenon DEF AuthInv
<1>3. \A v \in Threads : Authenticates(at'[v]) => at'[v] = at[v]
  BY <1>1
<1>4. \A v \in Threads : Job(at'[v])
  BY <1>1, Zenon DEF AuthInv
<1>5. Stable
  BY DEF Stable
<1> QED BY <1>2, <1>3, <1>4, <1>5, Zenon DEF AuthInv, Rest, Job, Authenticates

\* An authentication ends: nobody else was at it, and there was no user.
LEMMA EndStep ==
  ASSUME AuthInv, Rest, NEW w \in Threads, Authenticates(at[w]), NEW s, Session(s),
         sess' = [sess EXCEPT ![at[w].conn] = s],
         NEW j, Job(j), ~Authenticates(j), at' = [at EXCEPT ![w] = j]
  PROVE  AuthInv' /\ Stable
<1> DEFINE c == at[w].conn
<1>1. c \in Conns
  BY Zenon DEF AuthInv, Job, Authenticates
<1>2. sess'[c] = s /\ \A d \in Conns \ {c} : sess'[d] = sess[d]
  BY <1>1, Zenon DEF AuthInv
<1>3. at'[w] = j /\ \A v \in Threads \ {w} : at'[v] = at[v]
  BY Zenon DEF AuthInv
<1>4. DOMAIN sess' = Conns /\ DOMAIN at' = Threads
  BY Zenon DEF AuthInv
<1>5. \A v \in Threads : Authenticates(at'[v]) => v # w /\ at'[v] = at[v] /\ Authenticates(at[v])
  BY <1>3
<1>6. \A v \in Threads : Authenticates(at'[v]) => at[v].conn \in Conns \ {c}
  BY <1>5, Zenon DEF AuthInv, Job, Authenticates
<1>7. \A v \in Threads : Authenticates(at'[v]) => sess'[at'[v].conn].busy /\ sess'[at'[v].conn].user = Nil
  BY <1>2, <1>5, <1>6, Zenon DEF AuthInv
<1>8. \A v, u \in Threads :
        Authenticates(at'[v]) /\ Authenticates(at'[u]) /\ at'[v].conn = at'[u].conn => v = u
  BY <1>5, Zenon DEF AuthInv
<1>9. (\A v \in Threads : Job(at'[v])) /\ \A d \in Conns : Session(sess'[d])
  BY <1>2, <1>3, Zenon DEF AuthInv
<1>10. Stable
  BY <1>2 DEF Stable, AuthInv
<1> QED BY <1>4, <1>7, <1>8, <1>9, <1>10, Zenon DEF AuthInv, Rest, Job,
           Authenticates

\* An authentication begins on a connection that has none under way.
LEMMA StartStep ==
  ASSUME AuthInv, Rest, NEW c \in Conns, ~sess[c].busy,
         NEW s, Session(s), s.busy, s.user = Nil, sess' = [sess EXCEPT ![c] = s],
         NEW w \in Threads, NEW j, Job(j), j.conn = c, DOMAIN at' = Threads, at'[w] = j,
         \A v \in Threads \ {w} : at'[v] = at[v] \/ (Job(at'[v]) /\ ~Authenticates(at'[v]))
  PROVE  AuthInv' /\ Stable
<1>1. sess'[c] = s /\ \A d \in Conns \ {c} : sess'[d] = sess[d]
  BY Zenon DEF AuthInv
<1>2. DOMAIN sess' = Conns
  BY Zenon DEF AuthInv
<1>3. \A v \in Threads \ {w} : Authenticates(at'[v]) =>
        at'[v] = at[v] /\ Authenticates(at[v]) /\ at[v].conn \in Conns \ {c}
  BY Zenon DEF AuthInv, Job, Authenticates
<1>4. \A v \in Threads : Authenticates(at'[v]) => sess'[at'[v].conn].busy /\ sess'[at'[v].conn].user = Nil
  <2>1. \A v \in Threads : Authenticates(at[v]) => sess[at[v].conn].busy /\ sess[at[v].conn].user = Nil
    BY Zenon DEF AuthInv
  <2> QED BY <1>1, <1>3, <2>1
<1>5. \A v, u \in Threads :
        Authenticates(at'[v]) /\ Authenticates(at'[u]) /\ at'[v].conn = at'[u].conn => v = u
  BY DEF AuthInv
<1>6. (\A v \in Threads : Job(at'[v])) /\ \A d \in Conns : Session(sess'[d])
  BY <1>1, Zenon DEF AuthInv
<1>7. Stable
  BY <1>1, Zenon DEF Stable
<1> QED BY <1>2, <1>4, <1>5, <1>6, <1>7, Zenon DEF AuthInv, Rest, Job, Authenticates

-----------------------------------------------------------------------------
(* The steps. *)

\* LOGIN, AUTHENTICATE_SESSION and RECONNECT set authentication_in_progress before
\* they post, and reset only a session that has run out
\* (protocol_service.cpp:264-283).
LEMMA AuthenticationKeeps ==
  ASSUME AuthInv, load' = load, NEW c \in Conns, NEW job, Job(job), job.conn = c, Authentication(c, job)
  PROVE  AuthInv' /\ Stable
<1>1. Rest /\ c \in Threads
  BY DEF Authentication, AuthInv, Rest, Threads
<1>2. CASE MayAuthenticate(c)
  <2>1. ~sess[c].busy
    BY <1>2 DEF MayAuthenticate
  <2>2. ASSUME NEW w \in load.workers, at' = [at EXCEPT ![c] = Bind(c, Nil), ![w] = job],
               sess' = [sess EXCEPT ![c] = [NoSession EXCEPT !.busy = TRUE]]
        PROVE  AuthInv' /\ Stable
    <3> PICK s : s = [NoSession EXCEPT !.busy = TRUE]
      BY Zenon
    <3>1. Session(s) /\ s.busy /\ s.user = Nil
      BY DEF Session, NoSession, Fields
    <3>2. w \in Threads
      BY ConnectionsAssumption DEF AuthInv, Threads
    <3>3. /\ DOMAIN at' = Threads /\ at'[w] = job
          /\ \A v \in Threads \ {w} : at'[v] = at[v] \/ at'[v] = Bind(c, Nil)
      BY <2>2, <3>2 DEF AuthInv
    <3>4. \A v \in Threads \ {w} : at'[v] = at[v] \/ (Job(at'[v]) /\ ~Authenticates(at'[v]))
      BY <3>3, BindIsJob
    <3>5. sess' = [sess EXCEPT ![c] = s]
      BY <2>2
    <3> QED BY <1>1, <2>1, <3>1, <3>2, <3>3, <3>4, <3>5, StartStep, Zenon
  <2>3. CASE at' = [at EXCEPT ![c] = Bind(c, Nil)] /\ sess' = [sess EXCEPT ![c] = NoSession]
    BY <1>1, <2>1, <2>3, BindIsJob, TameSessions, TameStep, Zenon
  <2> QED BY <1>2, <2>2, <2>3, Zenon DEF Authentication
<1>3. CASE ~MayAuthenticate(c)
  <2>1. PICK kept : /\ kept = sess[c] \/ kept = Cleared(c)
                    /\ at' = [at EXCEPT ![c] = Bind(c, kept.user)] /\ sess' = [sess EXCEPT ![c] = kept]
    BY <1>3, Zenon DEF Authentication
  <2>2. Tame(c, kept)
    BY <2>1, TameSessions
  <2> QED BY <1>1, <2>1, <2>2, BindIsJob, TameStep, Zenon
<1> QED BY <1>2, <1>3

\* RECONNECT of a session that is there marks its table.
LEMMA RejoinKeeps ==
  ASSUME AuthInv, load' = load, NEW c \in Conns, NEW th \in Threads, NEW next, Job(next),
         ~Authenticates(next), Rejoin(c, th, next)
  PROVE  AuthInv' /\ Stable
<1>1. Rest
  BY PostedAnswers, Zenon DEF Rejoin, AuthInv, Rest
<1> PICK s : s = [sess[c] EXCEPT !.table = TRUE]
  BY Zenon
<1>2. Tame(c, s)
  BY TameSessions
<1>3. sess' = [sess EXCEPT ![c] = s] /\ at' = [at EXCEPT ![th] = next]
  BY DEF Rejoin
<1> QED BY <1>1, <1>2, <1>3, TameStep, Zenon

\* What a client asks for.
LEMMA RequestKeeps ==
  ASSUME AuthInv, load' = load, NEW c \in Conns, Request(c)
  PROVE  AuthInv' /\ Stable
<1>1. ASSUME NEW u, LoginRequest(c, u) PROVE AuthInv' /\ Stable
  <2> PICK job : job = [step |-> "login", conn |-> c, user |-> u]
    BY Zenon
  <2>1. Job(job) /\ job.conn = c
    BY Zenon DEF Job
  <2> QED BY <1>1, <2>1, AuthenticationKeeps DEF LoginRequest
<1>2. ASSUME NEW k, NEW again \in BOOLEAN,
             Authentication(c, [step |-> "authenticate", conn |-> c, token |-> k, reconnect |-> again])
      PROVE  AuthInv' /\ Stable
  <2> PICK job : job = [step |-> "authenticate", conn |-> c, token |-> k, reconnect |-> again]
    BY Zenon
  <2>1. Job(job) /\ job.conn = c
    BY Zenon DEF Job
  <2> QED BY <1>2, <2>1, AuthenticationKeeps
<1>3. ASSUME Rejoin(c, c, Bind(c, sess[c].user)) PROVE AuthInv' /\ Stable
  <2>1. c \in Threads
    BY DEF Threads
  <2> QED BY <1>3, <2>1, BindIsJob, RejoinKeeps
<1>4. ASSUME NEW step \in {"logout", "refresh"}, SessionRequest(c, step) PROVE AuthInv' /\ Stable
  <2>1. Rest /\ c \in Threads /\ UNCHANGED sess
    BY <1>4, Zenon DEF SessionRequest, AuthInv, Rest, Threads
  <2> PICK job : job = [step |-> step, conn |-> c, user |-> sess[c].user,
                        token |-> sess[c].token, table |-> sess[c].table]
    BY Zenon
  <2>2. PICK w \in load.workers : at' = [at EXCEPT ![c] = Bind(c, sess[c].user), ![w] = job]
    BY <1>4, Zenon DEF SessionRequest
  <2>3. Job(job) /\ ~Authenticates(job)
    BY <1>4, Zenon DEF Job, Authenticates
  <2>4. w \in Threads
    BY ConnectionsAssumption, Zenon DEF AuthInv, Threads
  <2>5. /\ DOMAIN at' = Threads
        /\ \A v \in Threads : at'[v] = at[v] \/ at'[v] = Bind(c, sess[c].user) \/ at'[v] = job
    BY <2>2, <2>4, Zenon DEF AuthInv
  <2>6. \A v \in Threads : at'[v] = at[v] \/ (Job(at'[v]) /\ ~Authenticates(at'[v]))
    BY <2>3, <2>5, BindIsJob, Zenon
  <2>7. \A v \in Threads : Job(at'[v]) /\ (Authenticates(at'[v]) => at'[v] = at[v])
    BY <2>6, Zenon DEF AuthInv
  <2>8. Stable
    BY <2>1, Zenon DEF Stable
  <2> QED BY <2>1, <2>5, <2>7, <2>8, Zenon DEF AuthInv, Rest, Job, Authenticates
<1> QED
  BY <1>1, <1>2, <1>3, <1>4, Zenon DEF Request, AuthenticateRequest, ReconnectRequest

\* What happens to a connection.
LEMMA ConnectionKeeps ==
  ASSUME AuthInv, load' = load, NEW c \in Conns, ConnectionStep(c)
  PROVE  AuthInv' /\ Stable
<1>1. c \in Threads
  BY DEF Threads
<1>2. CASE Open(c) \/ CloseIdle(c)
  <2>1. UNCHANGED <<sess, users, at, queue>>
    BY <1>2 DEF Open, CloseIdle
  <2>2. Stable
    BY <2>1 DEF Stable
  <2>3. Rest
    BY <2>1, Zenon DEF AuthInv, Rest
  <2> QED BY <2>1, <2>2, <2>3, Zenon DEF AuthInv, Rest
<1>3. CASE SessionExpires(c)
  <2>1. Rest
    BY <1>3, PostedAnswers, Zenon DEF SessionExpires, AuthInv, Rest
  <2>2. sess' = [sess EXCEPT ![c] = Cleared(c)] /\ at' = [at EXCEPT ![c] = Bind(c, Nil)]
    BY <1>3 DEF SessionExpires
  <2> QED BY <1>1, <2>1, <2>2, BindIsJob, TameSessions, TameStep, Zenon
<1>4. CASE HeartbeatRequest(c)
  <2>1. Rest /\ UNCHANGED sess /\ at' = [at EXCEPT ![c] = Bind(c, sess[c].user)]
    BY <1>4, Zenon DEF HeartbeatRequest, AuthInv, Rest
  <2> QED BY <1>1, <2>1, BindIsJob, PlainStep, Zenon
<1>5. CASE Disconnect(c)
  <2>1. Rest /\ UNCHANGED sess
    BY <1>5, Zenon DEF Disconnect, AuthInv, Rest
  <2>2. PICK j : /\ j = NoJob \/ j = [step |-> "gone", conn |-> c]
                 /\ at' = [at EXCEPT ![c] = j]
    BY <1>5, Zenon DEF Disconnect
  <2>3. Job(j) /\ ~Authenticates(j)
    BY <2>2, IdleIsJob DEF Job, Authenticates
  <2> QED BY <1>1, <2>1, <2>2, <2>3, PlainStep, Zenon
<1>6. CASE OnDisconnect(c)
  <2>1. Rest /\ UNCHANGED sess /\ at' = [at EXCEPT ![c] = NoJob]
    BY <1>6, PostedAnswers, Zenon DEF OnDisconnect, AuthInv, Rest
  <2> QED BY <1>1, <2>1, IdleIsJob, PlainStep, Zenon
<1> QED BY <1>2, <1>3, <1>4, <1>5, <1>6 DEF ConnectionStep

\* What a storage thread does: only the one that authenticates a connection
\* writes its user (protocol_service.cpp:285-420).
LEMMA WorkerKeeps ==
  ASSUME AuthInv, load' = load, NEW w \in StorageWorkers, StorageStep(w)
  PROVE  AuthInv' /\ Stable
<1> DEFINE c == at[w].conn
<1>1. w \in Threads /\ Job(at[w])
  BY Zenon DEF AuthInv, Threads
<1>2. at[w].step # "idle" => c \in Conns
  BY <1>1 DEF Job
<1>3. ASSUME UNCHANGED <<users, queue>> PROVE Rest
  BY <1>3, Zenon DEF AuthInv, Rest
<1>4. \A s \in {"adopt", "reconnect", "authenticate"} :
        LET j == [at[w] EXCEPT !.step = s] IN {"step",
        "conn"} \subseteq DOMAIN j /\ j.step = s /\ j.conn = c
  BY <1>1 DEF Job
<1>5. CASE AuthenticationFails(w)
  <2>1. Authenticates(at[w]) /\ c \in Conns /\ Rest
    BY <1>2, <1>3, <1>5 DEF AuthenticationFails, Authenticates
  <2> PICK s : s = [sess[c] EXCEPT !.busy = FALSE]
    BY Zenon
  <2>2. Session(s)
    BY <2>1 DEF AuthInv, Session, Fields
  <2>3. sess' = [sess EXCEPT ![c] = s] /\ at' = [at EXCEPT ![w] = Bind(c, sess[c].user)]
    BY <1>5 DEF AuthenticationFails
  <2> QED BY <1>1, <2>1, <2>2, <2>3, BindIsJob, EndStep, Zenon
<1>6. ASSUME Authenticates(at[w]), c \in Conns, Rest, NEW user, NEW token, Adopts(c, user, token),
             NEW j, Job(j), ~Authenticates(j), at' = [at EXCEPT ![w] = j]
      PROVE  AuthInv' /\ Stable
  <2> PICK s : s = [sess[c] EXCEPT !.user = user, !.token = token, !.busy = FALSE]
    OBVIOUS
  <2>1. Session(s)
    BY <1>6 DEF AuthInv, Session, Fields
  <2>2. sess' = [sess EXCEPT ![c] = s]
    BY <1>6, Zenon DEF Adopts, AuthInv
  <2> QED BY <1>1, <1>6, <2>1, <2>2, EndStep, Zenon
<1>7. CASE Login(w)
  <2>1. Authenticates(at[w]) /\ c \in Conns /\ Rest
    BY <1>2, <1>3, <1>7, Zenon DEF Login, Authenticates
  <2>2. PICK k : Adopts(c, at[w].user, k)
    BY <1>7, Zenon DEF Login
  <2>3. at' = [at EXCEPT ![w] = Bind(c, at[w].user)]
    BY <1>7, Zenon DEF Login
  <2> QED BY <1>6, <2>1, <2>2, <2>3, BindIsJob, Zenon
<1>8. CASE Authenticate(w)
  <2>1. Authenticates(at[w]) /\ c \in Conns /\ Rest
    BY <1>2, <1>3, <1>8 DEF Authenticate, Authenticates
  <2>2. Adopts(c, sessions[at[w].token].user, at[w].token)
    BY <1>8 DEF Authenticate
  <2>3. PICK j : /\ at' = [at EXCEPT ![w] = j]
                 /\ j = [at[w] EXCEPT !.step = "reconnect"] \/ j = Bind(c, sessions[at[w].token].user)
    BY <1>8, Zenon DEF Authenticate
  <2>4. Job(j) /\ ~Authenticates(j)
    BY <1>4, <2>1, <2>3, BindIsJob DEF Job, Authenticates
  <2> QED BY <1>6, <2>1, <2>2, <2>3, <2>4, Zenon
<1>9. CASE Reconnect(w)
  <2>1. c \in Conns /\ at[w].step = "reconnect"
    BY <1>2, <1>9 DEF Reconnect
  <2>2. ASSUME NEW next, next = NoJob \/ next = Bind(c, sess[c].user), Rejoin(c, w, next)
        PROVE  AuthInv' /\ Stable
    BY <1>1, <2>1, <2>2, BindIsJob, IdleIsJob, RejoinKeeps, Zenon
  <2>3. ASSUME at' = [at EXCEPT ![w] = Bind(c, sess[c].user)], UNCHANGED <<sess, users, queue>>
        PROVE  AuthInv' /\ Stable
    BY <1>1, <1>3, <2>1, <2>3, BindIsJob, PlainStep, Zenon
  <2>4. ASSUME NEW again \in BOOLEAN, again => ~sess[c].busy, UNCHANGED <<users, queue>>,
               sess' = [sess EXCEPT ![c] = [NoSession EXCEPT !.busy = sess[c].busy \/ again]],
               at' = [at EXCEPT ![w] = IF again THEN [@ EXCEPT !.step = "authenticate"] ELSE Bind(c, Nil)]
        PROVE  AuthInv' /\ Stable
    <3> PICK s : s = [NoSession EXCEPT !.busy = sess[c].busy \/ again]
      BY Zenon
    <3>1. sess[c].busy \in BOOLEAN /\ s.busy = (sess[c].busy \/ again) /\ s.user = Nil /\ Session(s)
      BY <2>1 DEF AuthInv, NoSession, Session, Fields
    <3>2. sess' = [sess EXCEPT ![c] = s] /\ Rest
      BY <1>3, <2>4
    <3>3. CASE again
      <4> PICK j : j = [at[w] EXCEPT !.step = "authenticate"]
        BY Zenon
      <4>1. Job(j) /\ j.conn = c
        BY <1>4, <2>1 DEF Job
      <4>2. at' = [at EXCEPT ![w] = j]
        BY <2>4, <3>3
      <4>3. DOMAIN at' = Threads /\ at'[w] = j /\ \A v \in Threads \ {w} : at'[v] = at[v]
        BY <1>1, <4>2 DEF AuthInv
      <4>4. \A v \in Threads \ {w} : at'[v] = at[v] \/ (Job(at'[v]) /\ ~Authenticates(at'[v]))
        BY <4>3
      <4>5. ~sess[c].busy /\ s.busy
        BY <2>4, <3>1, <3>3, Zenon
      <4>6. sess' = [sess EXCEPT ![c] = s] /\ Rest /\ Session(s) /\ s.user = Nil
        BY <3>1, <3>2
      <4>7. DOMAIN at' = Threads /\ at'[w] = j
        BY <4>3
      <4> HIDE DEF c
      <4> QED BY <1>1, <2>1, <4>1, <4>4, <4>5, <4>6, <4>7, StartStep, Zenon
    <3>4. CASE ~again
      <4>1. Tame(c, s)
        BY <3>1, <3>4 DEF Tame
      <4>2. at' = [at EXCEPT ![w] = Bind(c, Nil)]
        BY <2>4, <3>4
      <4> QED BY <1>1, <2>1, <3>2, <4>1, <4>2, BindIsJob, TameStep, Zenon
    <3> QED BY <3>3, <3>4
  <2> QED BY <1>9, <2>2, <2>3, <2>4, Zenon DEF Reconnect
<1>10. CASE Logout(w)
  <2>1. c \in Conns
    BY <1>2, <1>10 DEF Logout
  <2>2. Answerable(queue) /\ Answerable(Posted(at[w].user, FALSE, Nil))
    BY PostedAnswers, Zenon DEF AuthInv
  <2>3a. queue' \in {queue, Posted(at[w].user, FALSE, Nil)} /\ UNCHANGED users
    BY <1>10, Zenon DEF Logout
  <2>3b. Rest
    BY <2>2, <2>3a, Zenon DEF AuthInv, Rest
  <2>3. CASE sess' = [sess EXCEPT ![c] = Cleared(c)] /\ at' = [at EXCEPT ![w] = Bind(c, Nil)]
    BY <1>1, <2>1, <2>3b, <2>3, BindIsJob, TameSessions, TameStep, Zenon
  <2>4. CASE UNCHANGED sess /\ at' = [at EXCEPT ![w] = Bind(c, sess[c].user)]
    BY <1>1, <2>1, <2>3b, <2>4, BindIsJob, PlainStep, Zenon
  <2> QED BY <1>10, <2>3, <2>4, Zenon DEF Logout
<1>11. CASE RotateSession(w)
  <2>1. c \in Conns /\ Rest /\ UNCHANGED sess
    BY <1>2, <1>3, <1>11 DEF RotateSession
  <2>2. PICK k : at' = [at EXCEPT ![w] = [step |-> "adopt", conn |-> c, user |-> at[w].user,
                                          token |-> at[w].token, new |-> k]]
    BY <1>11, Zenon DEF RotateSession
  <2> PICK j : j = [step |-> "adopt", conn |-> c, user |-> at[w].user, token |-> at[w].token, new |-> k]
    BY Zenon
  <2>3. Job(j) /\ ~Authenticates(j)
    BY <2>1, Zenon DEF Job, Authenticates
  <2> QED BY <1>1, <2>1, <2>2, <2>3, PlainStep, Zenon
<1>12. CASE AdoptToken(w)
  <2>1. c \in Conns /\ Rest
    BY <1>2, <1>3, <1>12 DEF AdoptToken
  <2>2. at' = [at EXCEPT ![w] = Bind(c, sess[c].user)]
    BY <1>12 DEF AdoptToken
  <2> PICK s : s = [sess[c] EXCEPT !.token = at[w].new]
    BY Zenon
  <2>3. UNCHANGED sess \/ sess' = [sess EXCEPT ![c] = s]
    BY <1>12 DEF AdoptToken
  <2>4. Tame(c, s)
    BY <2>1, TameSessions
  <2> QED BY <1>1, <2>1, <2>2, <2>3, <2>4, BindIsJob, PlainStep, TameStep, Zenon
<1>13. CASE SessionCallFails(w)
  <2>1. c \in Conns /\ Rest /\ UNCHANGED sess /\ at' = [at EXCEPT ![w] = Bind(c, sess[c].user)]
    BY <1>2, <1>3, <1>13 DEF SessionCallFails
  <2> QED BY <1>1, <2>1, BindIsJob, PlainStep, Zenon
<1> QED
  BY <1>5, <1>7, <1>8, <1>9, <1>10, <1>11, <1>12, <1>13 DEF StorageStep

\* Every step keeps to one authentication at a time, and no connection turns to
\* another user.
LEMMA AuthKept == AuthInv /\ [SessionNext]_sessionVars => AuthInv' /\ (Stable \/ UNCHANGED sessionVars)
<1> SUFFICES ASSUME AuthInv, [SessionNext]_sessionVars PROVE AuthInv' /\ (Stable \/ UNCHANGED sessionVars)
  OBVIOUS
<1>1. ASSUME UNCHANGED <<sess, at, queue, load>>, users' \in [Players -> Conns \cup {Nil}]
      PROVE  AuthInv' /\ Stable
  BY <1>1, Zenon DEF AuthInv, Stable, Session, Job, Authenticates, Answerable,
     IsQueue
<1>2. CASE UNCHANGED sessionVars
  BY <1>1, <1>2, Zenon DEF sessionVars, server, AuthInv
<1>3. CASE SessionNext
  <2>1. load' = load
    BY <1>3 DEF SessionNext
  <2>2. ASSUME NEW th \in Threads, BindAuthenticated(th) PROVE AuthInv' /\ Stable
    <3>1. at[th].conn \in Conns
      BY <2>2, Zenon DEF BindAuthenticated, AuthInv, Job
    <3>2. users' \in [Players -> Conns \cup {Nil}]
      <4> PICK released : released = [v \in Players |-> IF v # at[th].user /\ users[v] = at[th].conn
                                                      THEN Nil ELSE users[v]]
        BY Zenon
      <4>1. released \in [Players -> Conns \cup {Nil}]
        BY Zenon DEF AuthInv
      <4>2. users' = released \/ users' = [released EXCEPT ![at[th].user] = at[th].conn]
        BY <2>2, Zenon DEF BindAuthenticated
      <4> QED BY <3>1, <4>1, <4>2, Zenon
    <3>3. Rest /\ UNCHANGED sess /\ at' = [at EXCEPT ![th] = NoJob]
      BY <2>1, <2>2, <3>2, Zenon DEF BindAuthenticated, Rest, AuthInv
    <3> QED BY <2>2, <3>3, IdleIsJob, PlainStep, Zenon
  <2>3. ASSUME NEW u \in Players, PushDrops(u) PROVE AuthInv' /\ Stable
    BY <1>1, <2>1, <2>3, Zenon DEF PushDrops, AuthInv
  <2>4. ASSUME NEW k, TokenExpires(k) PROVE AuthInv' /\ Stable
    BY <1>1, <2>1, <2>4, Zenon DEF TokenExpires, AuthInv
  <2>5. CASE RoomStep
    <3>1. Answerable(Tail(queue)) /\ Head(queue).conn \in Conns \cup {Nil}
      BY <2>5, TailAnswers, Zenon DEF RoomStep
    <3>2. Rest /\ UNCHANGED sess /\ Room \in Threads
      BY <2>1, <2>5, <3>1, Zenon DEF RoomStep, Rest, AuthInv, Threads
    <3>3. PICK j : /\ at' = [at EXCEPT ![Room] = j]
                   /\ j = IF Head(queue).conn = Nil THEN NoJob
                          ELSE Bind(Head(queue).conn, sess[Head(queue).conn].user)
      BY <2>5, Zenon DEF RoomStep
    <3>4. Job(j) /\ ~Authenticates(j)
      BY <3>1, <3>3, BindIsJob, IdleIsJob, Zenon
    <3> QED BY <3>2, <3>3, <3>4, PlainStep, Zenon
  <2> QED
    BY <1>3, <2>1, <2>2, <2>3, <2>4, <2>5, RequestKeeps, ConnectionKeeps,
       WorkerKeeps, Zenon DEF SessionNext, Step
<1> QED BY <1>2, <1>3

\* No connection has a session at the start.
LEMMA AuthAtStart == SessionInit => AuthInv
<1> SUFFICES ASSUME SessionInit PROVE AuthInv
  OBVIOUS
<1>1. DOMAIN sess = Conns /\ \A c \in Conns : Session(sess[c])
  BY Zenon DEF SessionInit, Session, NoSession, Fields
<1>2. DOMAIN at = Threads /\ \A th \in Threads : Job(at[th]) /\ ~Authenticates(at[th])
  BY IdleIsJob DEF SessionInit
<1>3. queue \in Seq({}) /\ Len(queue) = 0
  BY DEF SessionInit
<1>4. Answerable(queue)
  BY <1>3 DEF Answerable, IsQueue
<1>5. users \in [Players -> Conns \cup {Nil}] /\ load \in Loads
  BY DEF SessionInit
<1> QED BY <1>1, <1>2, <1>4, <1>5, Zenon DEF AuthInv

\* However logins, token authentications, reconnects, logouts and expiries of a
\* connection overlap, it never turns from one user to another
\* (docs/ubuntu-migration-learning-plan.md:333, protocol_service.cpp:264-283).
THEOREM IdentitiesStable == SessionSpec => IdentityIsStable
<1>1. AuthInv /\ [SessionNext]_sessionVars => [Stable]_sessionVars
  BY AuthKept
<1>2. [Stable]_sessionVars <=> [\A c \in Conns : sess[c].user # Nil => sess'[c].user \in {Nil, sess[c].user}]_sessionVars
  BY DEF Stable
<1> QED BY <1>1, <1>2, AuthAtStart, AuthKept, PTL DEF SessionSpec, IdentityIsStable

-----------------------------------------------------------------------------
(* Bindings. *)

\* What OnlyLaterTakesOver says of the binding of user u.
TakesOver(u) ==
  users[u] # Nil /\ users'[u] # users[u] =>
    \/ users'[u] # Nil /\ users'[u] > users[u]
    \/ Acts(users[u]) \/ net[users[u]] = "closed"

\* bindAuthenticated releases what its own connection held, and takes over only
\* from an earlier one (poker_tcp_server.cpp:239-274).
LEMMA BindTakesLater ==
  ASSUME AuthInv, NEW th \in Threads, BindAuthenticated(th), NEW u \in Players
  PROVE  TakesOver(u)
<1> DEFINE c == at[th].conn
<1>1. c \in Conns /\ at[th].step = "users"
  BY Zenon DEF BindAuthenticated, AuthInv, Job
<1>2. at'[th] # at[th]
  <2>1. at' = [at EXCEPT ![th] = NoJob]
    BY Zenon DEF BindAuthenticated
  <2>2. at'[th] = NoJob
    BY <2>1, Zenon DEF AuthInv
  <2> QED BY <1>1, <2>2 DEF NoJob
<1>3. users[u] = c => Acts(users[u])
  BY <1>2, Zenon DEF Acts
<1>4. users[u] \in Conns \cup {Nil}
  BY Zenon DEF AuthInv
<1>5. CASE users'[u] = users[u]
  BY <1>5, Zenon DEF TakesOver
<1>6. CASE u = at[th].user /\ users'[u] # users[u]
  <2>1. users'[u] = c /\ MayBind(u, c)
    <3> PICK released : released = [v \in Players |-> IF v # at[th].user /\ users[v] = c
                                                   THEN Nil ELSE users[v]]
      BY Zenon
    <3>1. released[u] = users[u] /\ DOMAIN released = Players
      BY <1>6, Zenon
    <3>2. users' = IF at[th].user # Nil /\ MayBind(at[th].user, c)
                   THEN [released EXCEPT ![at[th].user] = c] ELSE released
      BY Zenon DEF BindAuthenticated
    <3> QED BY <1>6, <3>1, <3>2, Zenon
  <2>2. c # Nil /\ c \in 1 .. MaxConns
    BY <1>1, ConnectionsAssumption, Zenon DEF Conns
  <2>3. users[u] # Nil => users[u] < c
    BY <1>4, <1>6, <2>1, <2>2, ConnectionsAssumption DEF MayBind, Conns
  <2> QED BY <1>4, <2>1, <2>2, <2>3, ConnectionsAssumption, Zenon DEF TakesOver,
             Conns
<1>7. CASE u # at[th].user /\ users'[u] # users[u]
  <2>1. users[u] = c
    <3> PICK released : released = [v \in Players |-> IF v # at[th].user /\ users[v] = c
                                                   THEN Nil ELSE users[v]]
      BY Zenon
    <3>1. users[u] # c => released[u] = users[u]
      BY <1>7, Zenon
    <3>2. users' = released \/ users' = [released EXCEPT ![at[th].user] = c]
      BY Zenon DEF BindAuthenticated
    <3> QED BY <1>7, <3>1, <3>2, Zenon
  <2> QED BY <1>3, <2>1, Zenon DEF TakesOver
<1> QED BY <1>5, <1>6, <1>7, Zenon

\* A connection that goes erases a binding of its own, or one of a connection
\* that no longer exists (poker_tcp_server.cpp:287-311).
LEMMA DisconnectErasesOwn ==
  ASSUME AuthInv, NEW c \in Conns, Disconnect(c), NEW u \in Players
  PROVE  TakesOver(u)
<1>1. PICK owns \in OwnsBinding(c) :
        /\ users' = [v \in Players |-> IF owns /\ v = sess[c].user THEN Nil ELSE users[v]]
        /\ at' = [at EXCEPT ![c] = IF owns THEN [step |-> "gone", conn |-> c] ELSE NoJob]
  BY Zenon DEF Disconnect
<1>2. CASE users'[u] = users[u]
  BY <1>2, Zenon DEF TakesOver
<1>3. CASE users[u] # Nil /\ users'[u] # users[u]
  <2>1. owns /\ u = sess[c].user
    BY <1>1, <1>3, Zenon
  <2>2. u # Nil
    BY ConnectionsAssumption, Zenon
  <2>3. users[u] = c \/ net[users[u]] = "closed"
    BY <1>1, <1>3, <2>1, <2>2, Zenon DEF OwnsBinding
  <2>4. at[c] = NoJob /\ c \in Threads
    BY Zenon DEF Disconnect, Reads, Threads
  <2>5. at'[c] # at[c]
    <3>1. at'[c] = [step |-> "gone", conn |-> c]
      BY <1>1, <2>1, <2>4, Zenon DEF AuthInv
    <3> QED BY <2>4, <3>1 DEF NoJob
  <2>6. Acts(c)
    BY <2>4, <2>5, Zenon DEF Acts
  <2> QED BY <2>3, <2>6, Zenon DEF TakesOver
<1> QED BY <1>2, <1>3, Zenon DEF TakesOver

\* push drops the binding of a connection that is gone.
LEMMA StepTakesLater ==
  ASSUME AuthInv, SessionNext, NEW u \in Players
  PROVE  TakesOver(u)
<1>1. CASE UNCHANGED users
  BY <1>1 DEF TakesOver
<1>2. ASSUME NEW v \in Players, PushDrops(v) PROVE TakesOver(u)
  BY <1>2, Zenon DEF PushDrops, TakesOver, AuthInv
<1>3. ASSUME NEW c \in Conns, Request(c) PROVE UNCHANGED users
  BY <1>3, Zenon DEF Request, LoginRequest, AuthenticateRequest, ReconnectRequest, SessionRequest,
              Authentication, Rejoin
<1>4. ASSUME NEW c \in Conns, ConnectionStep(c) PROVE UNCHANGED users \/ Disconnect(c)
  BY <1>4, Zenon DEF ConnectionStep, Open, SessionExpires, CloseIdle, HeartbeatRequest, OnDisconnect
<1>5. ASSUME NEW w \in StorageWorkers, StorageStep(w) PROVE UNCHANGED users
  BY <1>5, Zenon DEF StorageStep, AuthenticationFails, Login, Authenticate, Reconnect, Rejoin,
       Logout, RotateSession,
              AdoptToken, SessionCallFails
<1>6. ASSUME RoomStep \/ \E k : TokenExpires(k) PROVE UNCHANGED users
  BY <1>6, Zenon DEF RoomStep, TokenExpires
<1> QED
  BY <1>1, <1>2, <1>3, <1>4, <1>5, <1>6, BindTakesLater, DisconnectErasesOwn, Zenon
     DEF SessionNext, Step

\* A binding is lost only to a later connection or to what its own connection
\* does, in whatever order disconnects, pushes and late answers come
\* (poker_tcp_server.cpp:264-270, 303-308).
THEOREM BindingsOnlyGrow == SessionSpec => OnlyLaterTakesOver
<1>1. AuthInv /\ [SessionNext]_sessionVars => [\A u \in Players : TakesOver(u)]_sessionVars
  BY StepTakesLater
<1>2. [\A u \in Players : TakesOver(u)]_sessionVars <=>
        [\A u \in Players : LET c == users[u] IN
           c # Nil /\ users'[u] # c =>
             \/ users'[u] # Nil /\ users'[u] > c
             \/ Acts(c) \/ net[c] = "closed"]_sessionVars
  BY Zenon DEF TakesOver
<1> QED BY <1>1, <1>2, AuthAtStart, AuthKept, PTL DEF SessionSpec, OnlyLaterTakesOver
=============================================================================
