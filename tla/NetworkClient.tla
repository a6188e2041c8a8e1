--------------------------- MODULE NetworkClient ----------------------------
(***************************************************************************)
(* The Qt client of apps/client/network_client.cpp with the two nodes it   *)
(* talks to: routing from the lobby to the game node, authentication of    *)
(* every new connection, the numbering of commands, the reconnect timer    *)
(* and the snapshots it shows.                                             *)
(*                                                                         *)
(* A handler of the client is a function from its state to its state, so   *)
(* that what a handler calls is part of it.  A node answers frames as      *)
(* ProtocolService does; answers that only change the status line are left *)
(* out.  The last connection the client has given up may still have frames *)
(* at its node, which reads them after the client is gone.                 *)
(***************************************************************************)
EXTENDS Naturals, Sequences

CONSTANTS
  MaxTokens,  \* bound: session tokens
  MaxEvents   \* bound: clicks, faults and moves of other players

ASSUME ClientAssumption == MaxTokens \in Nat \ {0} /\ MaxEvents \in Nat

VARIABLES
  client,  \* NetworkClient
  conn,    \* its connection: the node's session, what is on the way to it
  old,     \* the connection given up last: node, session, frames
  srv,     \* the nodes
  events   \* clicks, faults and moves so far

vars == <<client, conn, old, srv, events>>

Nodes == {"lobby", "game"}
None == 0        \* no token, no snapshot
Tokens == 1 .. MaxTokens

Commands == {"logout", "list", "create", "join", "sit", "leave", "play", "reconnect"}
IsCommand(f) == f.kind \in Commands

Fresh ==
  [socket |-> "off", peer |-> "lobby", partial |-> FALSE, batch |-> <<>>, out |-> <<>>,
   token |-> None, routing |-> FALSE, authenticate |-> FALSE, authenticated |-> FALSE,
   seated |-> FALSE, table |-> FALSE, intentional |-> FALSE, resume |-> FALSE,
   timer |-> FALSE, seq |-> 0, lobby_seq |-> 0, game_seq |-> 0, view |-> 0, deaf |-> FALSE]

NoConn == [sess |-> None, down |-> <<>>, part |-> FALSE, asked |-> FALSE, upset |-> FALSE]

\* A client that has logged in, and one that has gone on to create a table and to
\* sit down at it.
AtLobby ==
  [Fresh EXCEPT !.socket = "on", !.token = 1, !.authenticated = TRUE,
                !.seq = 1, !.lobby_seq = 1]

AtTable ==
  [AtLobby EXCEPT !.peer = "game", !.routing = TRUE, !.seated = TRUE, !.table = TRUE,
                  !.lobby_seq = 2, !.game_seq = 1, !.view = 1]

Nobody ==
  [last |-> [n \in Nodes |-> 0], rows |-> {}, expired |-> {}, seat |-> FALSE, version |-> 0,
   fence |-> None, late |-> None, owed |-> FALSE, missed |-> FALSE]

Init ==
  /\ conn = [NoConn EXCEPT !.sess = 1]
  /\ \/ client = AtLobby /\ srv = [Nobody EXCEPT !.rows = {1}, !.last["lobby"] = 1]
     \/ /\ client = AtTable
        /\ srv = [Nobody EXCEPT !.rows = {1}, !.last = [lobby |-> 2, game |-> 1],
                                !.seat = TRUE, !.version = 1]
  /\ old = [node |-> "lobby", sess |-> None, frames |-> <<>>]
  /\ events = 0

-----------------------------------------------------------------------------
(* What the client's handlers do to its state *)

\* envelope and send: a command takes the next number even when it is not sent.
Sequenced(c, kind) ==
  LET n == c.seq + 1
      frame == [kind |-> kind, number |-> n]
  IN [c EXCEPT !.seq = n,
               !.game_seq = IF c.routing THEN n ELSE @,
               !.lobby_seq = IF c.routing THEN @ ELSE n,
               !.out = IF c.socket = "on" THEN Append(@, frame) ELSE @]

\* LOGIN carries no number and AUTHENTICATE_SESSION carries the token instead.
Plain(c, kind) ==
  [c EXCEPT !.out = Append(@, [kind |-> kind,
                               number |-> IF kind = "login" THEN 0 ELSE c.token])]

\* abort and connectToHost.  Aborting a connection that stands runs onDisconnected,
\* which takes intentional_disconnect_ back; aborting one that is being made does not.
Dial(c, node) ==
  [c EXCEPT !.intentional = (c.socket = "connecting"), !.deaf = FALSE,
            !.socket = "connecting", !.peer = node]

ConnectToLobby(c) ==
  Dial([c EXCEPT !.timer = FALSE, !.resume = FALSE,
                 !.game_seq = IF c.routing THEN c.seq ELSE @, !.routing = FALSE,
                 !.seq = c.lobby_seq, !.authenticate = (c.token # None),
                 !.authenticated = FALSE, !.partial = FALSE], "lobby")

RouteToGame(c) ==
  Dial([c EXCEPT !.lobby_seq = c.seq, !.seq = c.game_seq, !.table = TRUE, !.routing = TRUE,
                 !.timer = FALSE, !.resume = FALSE, !.authenticate = TRUE,
                 !.authenticated = FALSE, !.partial = FALSE], "game")

\* onDisconnected and scheduleReconnect, for a connection that was lost.
OnDisconnected(c) ==
  LET d == [c EXCEPT !.socket = "off", !.authenticated = FALSE] IN
  IF c.intentional THEN [d EXCEPT !.intentional = FALSE, !.deaf = TRUE]
  ELSE IF c.routing /\ c.token # None /\ c.table
  THEN [d EXCEPT !.resume = c.seated, !.timer = TRUE]
  ELSE d

\* Fault: a refused connection is not tried again.
OnSocketError_GivesUp(c) == [c EXCEPT !.socket = "off", !.deaf = c.intentional]

\* onSocketError, for a connection that could not be made.
OnSocketError(c) ==
  [c EXCEPT !.socket = "off", !.deaf = c.intentional,
            !.timer = @ \/ (~c.intentional /\ c.routing /\ c.token # None /\ c.table)]

\* The session is over.
Forget(c) ==
  [c EXCEPT !.timer = FALSE, !.token = None, !.authenticate = FALSE, !.resume = FALSE,
            !.authenticated = FALSE, !.seated = FALSE, !.table = FALSE, !.view = 0,
            !.seq = 0, !.lobby_seq = 0, !.game_seq = 0]

\* Fault: the count goes on where it was.
Restart_Continues(c) == [c EXCEPT !.authenticated = TRUE, !.authenticate = FALSE]

\* The new connection is authenticated and its commands are counted from 1.
Restart(c) ==
  [c EXCEPT !.authenticated = TRUE, !.authenticate = FALSE, !.seq = 0,
            !.game_seq = IF c.routing THEN 0 ELSE @,
            !.lobby_seq = IF c.routing THEN @ ELSE 0]

AuthenticateResponse(c) ==
  LET d == Restart(c) IN
  IF c.routing /\ c.resume THEN Sequenced([d EXCEPT !.resume = FALSE], "reconnect")
  ELSE IF c.routing THEN d ELSE Sequenced(d, "list")

LoginResponse(c, token) ==
  Sequenced([c EXCEPT !.token = token, !.seq = 0, !.lobby_seq = 0, !.authenticated = TRUE],
            "list")

\* processSnapshot: whatever arrives is shown.  Snapshots go to seated players.
ProcessSnapshot(c, version) == [c EXCEPT !.table = TRUE, !.view = version, !.seated = TRUE]

LeavesTable(c) == ConnectToLobby([c EXCEPT !.seated = FALSE, !.table = FALSE])

EndsSession(c) == IF c.routing THEN ConnectToLobby(Forget(c)) ELSE Forget(c)

Replaced(c) == [Forget(c) EXCEPT !.routing = FALSE, !.socket = "off", !.intentional = FALSE]

Process(c, m) ==
  CASE m.kind = "logged in" -> LoginResponse(c, m.value)
    [] m.kind = "authenticated" -> AuthenticateResponse(c)
    [] m.kind = "route" -> RouteToGame(c)
    [] m.kind = "snapshot" -> ProcessSnapshot(c, m.value)
    [] m.kind \in {"logged out", "unauthenticated"} -> EndsSession(c)
    [] m.kind \in {"left", "aborted"} -> LeavesTable(c)
    [] m.kind = "replaced" -> Replaced(c)

-----------------------------------------------------------------------------
(* The client's steps *)

\* A connection that is given up leaves its frames behind.
ClientBecomes(c) ==
  /\ client' = IF c.socket = "on" THEN c ELSE [c EXCEPT !.out = <<>>]
  /\ IF client.socket = "on" /\ c.socket # "on"
     THEN /\ conn' = NoConn
          /\ old' = [node |-> client.peer, sess |-> conn.sess, frames |-> c.out]
     ELSE UNCHANGED <<conn, old>>
  /\ UNCHANGED srv

Idle == client.batch = <<>>
Event == events < MaxEvents /\ events' = events + 1
NoEvent == UNCHANGED events

UserConnects ==
  /\ Idle /\ ~client.authenticated /\ client.socket # "on" /\ Event
  /\ ClientBecomes(ConnectToLobby(client))

UserLogsIn ==
  /\ Idle /\ ~client.authenticated /\ client.socket = "on" /\ Event
  /\ ClientBecomes(Plain(client, "login"))

\* What the pages of qml/Main.qml offer.
Offered ==
  {"logout"} \cup
  (IF ~client.table THEN {"list", "create", "join"}
   ELSE IF client.seated THEN {"play", "leave"} ELSE {"sit"})

UserCommands(kind) ==
  /\ Idle /\ client.authenticated /\ kind \in Offered /\ Event
  /\ ClientBecomes(Sequenced([client EXCEPT !.table = @ \/ kind = "join"], kind))

OnConnected ==
  /\ Idle /\ client.socket = "connecting" /\ NoEvent
  /\ LET c == [client EXCEPT !.socket = "on", !.timer = FALSE] IN
       client' = IF c.authenticate /\ c.token # None THEN Plain(c, "authenticate") ELSE c
  /\ conn' = [NoConn EXCEPT !.upset = client.authenticated]
  /\ UNCHANGED <<old, srv>>

ConnectionRefused ==
  /\ Idle /\ client.socket = "connecting" /\ Event
  /\ ClientBecomes(OnSocketError(client))

ConnectionLost ==
  /\ Idle /\ client.socket = "on" /\ Event
  /\ ClientBecomes(OnDisconnected(client))

ReconnectTimer ==
  /\ Idle /\ client.timer /\ NoEvent
  /\ ClientBecomes([client EXCEPT !.timer = FALSE, !.partial = FALSE, !.authenticate = TRUE,
                                  !.socket = "connecting", !.peer = "game"])

\* onReadyRead: the bytes may end within a frame.  A codec that holds the start of
\* another connection's frame cannot make sense of them.
OnReadyRead ==
  /\ Idle /\ client.socket = "on" /\ conn.down # <<>> /\ NoEvent
  /\ IF client.partial # conn.part
     THEN ClientBecomes(OnDisconnected(client))
     ELSE /\ \E k \in 0 .. Len(conn.down), part \in BOOLEAN :
               /\ part => k < Len(conn.down)
               /\ k > 0 \/ (part /\ ~conn.part)
               /\ client' = [client EXCEPT !.batch = SubSeq(conn.down, 1, k), !.partial = part]
               /\ conn' = [conn EXCEPT !.down = SubSeq(@, k + 1, Len(@)), !.part = part]
          /\ UNCHANGED <<old, srv>>

\* The loop goes on with the frames it has decoded, even when one of them makes
\* the client leave the connection they came from.
ProcessNext ==
  /\ ~Idle /\ NoEvent
  /\ ClientBecomes(Process([client EXCEPT !.batch = Tail(@)], Head(client.batch)))

-----------------------------------------------------------------------------
(* The nodes *)

Message(kind, value) == <<[kind |-> kind, value |-> value]>>

\* What a node may make of a frame: its state, the session, the answer, and
\* whether something went wrong.
Outcome(s, sess, answer, fault) == [srv |-> s, sess |-> sess, answer |-> answer, fault |-> fault]

Snapshot(s) == Message("snapshot", s.version)

Refuses(s, sess) == Outcome(s, sess, <<>>, TRUE)

Unauthenticated(s) == Outcome(s, None, Message("unauthenticated", 0), FALSE)

Accepts(s, token) == token \in s.rows \ s.expired

Authenticated(s, node, token, answer) ==
  Outcome([s EXCEPT !.last[node] = 0], token, answer, FALSE)

\* A token's row is written before the client hears of it.
Login(s, node, sess) ==
  IF sess # None /\ sess \notin s.expired THEN {Outcome(s, sess, <<>>, FALSE)}
  ELSE {Authenticated([s EXCEPT !.rows = @ \cup {t}], node, t, Message("logged in", t)) :
          t \in {u \in Tokens : \A v \in u .. MaxTokens : v \notin s.rows \cup s.expired}}
       \cup {Refuses(s, None), [Unauthenticated(s) EXCEPT !.fault = TRUE]}

Authenticate(s, node, sess, token) ==
  IF sess # None /\ sess \notin s.expired THEN {Outcome(s, sess, <<>>, FALSE)}
  ELSE {IF Accepts(s, token)
        THEN Authenticated(s, node, token, Message("authenticated", 0))
        ELSE Unauthenticated(s),
        Refuses(s, None)}

Logout(s, node, sess) ==
  {IF sess \in s.rows
   THEN Outcome([s EXCEPT !.rows = @ \ {sess}, !.last[node] = 0, !.owed = s.seat], None,
                Message("logged out", 0), FALSE)
   ELSE Outcome(s, sess, Message("unauthenticated", 0), FALSE),
   Refuses(s, sess)}

Moves(s) == [s EXCEPT !.version = @ + 1]

\* The commands of a game node, for a player whose seat is s.seat.
GameCommand(s, sess, kind) ==
  CASE kind = "sit" /\ ~s.seat /\ s.fence = None ->
         LET t == [Moves(s) EXCEPT !.seat = TRUE, !.owed = TRUE, !.missed = FALSE]
         IN {Outcome(t, sess, Snapshot(t), FALSE), Refuses(s, sess)}
    [] kind = "play" /\ s.seat /\ s.fence = None ->
         {Outcome([Moves(s) EXCEPT !.fence = s.version + 1], sess, <<>>, FALSE),
          Refuses(s, sess)}
    [] kind = "leave" /\ s.seat /\ s.fence = None ->
         {Outcome([Moves(s) EXCEPT !.seat = FALSE], sess, Message("left", 0), FALSE),
          Refuses(s, sess)}
    [] kind = "reconnect" /\ s.seat ->
         LET t == [Moves(s) EXCEPT !.owed = TRUE, !.missed = FALSE]
         IN {Outcome(t, sess, Snapshot(t), FALSE),
             Refuses([s EXCEPT !.missed = TRUE], sess)}
    [] OTHER -> {Outcome(s, sess, <<>>, FALSE)}

LobbyCommand(s, sess, kind) ==
  IF kind \in {"create", "join"}
  THEN {Outcome(s, sess, Message("route", 0), FALSE), Refuses(s, sess)}
  ELSE {Outcome(s, sess, <<>>, FALSE)}

\* authorize and beginRequest, then the command; a node of the other role
\* answers FORBIDDEN, which counts as a command.
Command(s, node, sess, f) ==
  IF sess = None \/ sess \in s.expired THEN {Unauthenticated(s)}
  ELSE IF f.number # s.last[node] + 1
  THEN {Outcome([s EXCEPT !.missed = @ \/ f.kind = "reconnect"], sess, <<>>, FALSE)}
  ELSE LET t == [s EXCEPT !.last[node] = f.number] IN
       CASE f.kind = "logout" -> Logout(t, node, sess)
         [] f.kind # "logout" /\ node = "game" -> GameCommand(t, sess, f.kind)
         [] OTHER -> LobbyCommand(t, sess, f.kind)

Outcomes(node, sess, f) ==
  CASE f.kind = "login" -> Login(srv, node, sess)
    [] f.kind = "authenticate" -> Authenticate(srv, node, sess, f.number)
    [] OTHER -> Command(srv, node, sess, f)

NodeReads ==
  /\ client.socket = "on" /\ client.out # <<>>
  /\ LET f == Head(client.out) IN
     \E o \in Outcomes(client.peer, conn.sess, f) :
       /\ IF o.fault THEN Event ELSE NoEvent
       /\ srv' = o.srv
       /\ conn' = [conn EXCEPT !.sess = o.sess, !.down = @ \o o.answer,
                               !.asked = @ \/ o.srv.fence # srv.fence,
                               !.upset = @ \/ (conn.sess # None
                                               /\ o.sess \notin {conn.sess, None})]
  /\ client' = [client EXCEPT !.out = Tail(@)]
  /\ UNCHANGED old

\* The limiter drops a frame, though never the first of a connection.
LimiterDrops ==
  /\ client.socket = "on" /\ client.out # <<>> /\ Event
  /\ LET f == Head(client.out) IN
       /\ f.kind # "authenticate"
       /\ conn' = [conn EXCEPT !.upset = @ \/ IsCommand(f)]
       /\ srv' = [srv EXCEPT !.missed = @ \/ f.kind = "reconnect"]
  /\ client' = [client EXCEPT !.out = Tail(@)]
  /\ UNCHANGED old

\* A frame of the connection that was given up; its answer reaches nobody.
OldReads ==
  /\ old.frames # <<>>
  /\ \E o \in Outcomes(old.node, old.sess, Head(old.frames)) :
       /\ IF o.fault THEN Event ELSE NoEvent
       /\ srv' = o.srv
       /\ old' = [old EXCEPT !.sess = o.sess, !.frames = Tail(@)]
       /\ conn' = [conn EXCEPT
                     !.upset = @ \/ (old.node = client.peer /\ conn.sess # None
                                     /\ (o.srv.last # srv.last \/ o.sess # old.sess))]
  /\ UNCHANGED client

AtGame == client.socket = "on" /\ client.peer = "game" /\ conn.sess # None

Pushed(answer) == conn' = IF AtGame THEN [conn EXCEPT !.down = @ \o answer] ELSE conn

\* The move is stored and the fence released; the answer is still to be sent.
Stored ==
  /\ srv.fence # None /\ srv.late = None /\ NoEvent
  /\ srv' = [srv EXCEPT !.fence = None, !.late = srv.fence]
  /\ UNCHANGED <<client, conn, old>>

\* It is the snapshot taken with the move, which may be an old one by now; a
\* broadcast follows.
AnswersMove ==
  /\ srv.late # None /\ NoEvent
  /\ conn' = IF AtGame /\ conn.asked
             THEN [conn EXCEPT !.down = @ \o Message("snapshot", srv.late)] ELSE conn
  /\ srv' = [srv EXCEPT !.late = None, !.owed = TRUE]
  /\ UNCHANGED <<client, old>>

\* Fault: everybody is sent the snapshot that the broadcast was called with.
Broadcast_Stale ==
  /\ srv.owed /\ NoEvent
  /\ Pushed(IF srv.seat THEN Message("snapshot", srv.version - 1) ELSE <<>>)
  /\ srv' = [srv EXCEPT !.owed = FALSE, !.missed = FALSE]
  /\ UNCHANGED <<client, old>>

\* broadcastSnapshot has the room take a new snapshot for each player.
Broadcast ==
  /\ srv.owed /\ NoEvent
  /\ Pushed(IF srv.seat THEN Snapshot(srv) ELSE <<>>)
  /\ srv' = [srv EXCEPT !.owed = FALSE, !.missed = FALSE]
  /\ UNCHANGED <<client, old>>

\* The room's queue is full.
BroadcastRefused ==
  /\ srv.owed /\ Event
  /\ srv' = [srv EXCEPT !.owed = FALSE, !.missed = TRUE]
  /\ UNCHANGED <<client, conn, old>>

\* Another player moves, comes or goes.
OthersMove ==
  /\ srv.seat /\ Event
  /\ srv' = [Moves(srv) EXCEPT !.owed = TRUE]
  /\ UNCHANGED <<client, conn, old>>

\* abortTableAndNotify, from any thread: a snapshot the room is just sending may
\* come after the event.
TableAborts ==
  /\ srv.seat /\ Event
  /\ srv' = [Moves(srv) EXCEPT !.seat = FALSE, !.fence = None, !.late = None, !.owed = FALSE]
  /\ \/ Pushed(Message("aborted", 0))
     \/ srv.owed /\ Pushed(Message("aborted", 0) \o Snapshot(srv))
  /\ UNCHANGED <<client, old>>

\* The user authenticates at this node from another device.
SessionReplaced ==
  /\ client.socket = "on" /\ conn.sess # None /\ Event
  /\ conn' = [conn EXCEPT !.down = @ \o Message("replaced", 0), !.upset = TRUE]
  /\ srv' = [srv EXCEPT !.last[client.peer] = 0]
  /\ UNCHANGED <<client, old>>

SessionExpires ==
  /\ Event
  /\ \E t \in srv.rows \ srv.expired : srv' = [srv EXCEPT !.expired = @ \cup {t}]
  /\ UNCHANGED <<client, conn, old>>

Next ==
  \/ UserConnects \/ UserLogsIn \/ (\E kind \in Commands : UserCommands(kind))
  \/ OnConnected \/ ConnectionRefused \/ ConnectionLost \/ ReconnectTimer
  \/ OnReadyRead \/ ProcessNext
  \/ NodeReads \/ LimiterDrops \/ OldReads \/ Stored \/ AnswersMove
  \/ Broadcast \/ BroadcastRefused \/ OthersMove \/ TableAborts
  \/ SessionReplaced \/ SessionExpires

Spec == Init /\ [][Next]_vars

\* The event loops of the client and of the nodes run, and TCP delivers.
Fairness ==
  /\ WF_vars(OnConnected) /\ WF_vars(ReconnectTimer)
  /\ WF_vars(OnReadyRead) /\ WF_vars(ProcessNext)
  /\ WF_vars(NodeReads) /\ WF_vars(Stored) /\ WF_vars(AnswersMove) /\ WF_vars(Broadcast)

FairSpec == Spec /\ Fairness

-----------------------------------------------------------------------------
(* Properties *)

\* docs/protocol.md:17: after authentication both sides count commands from 1.
\* Through routing, reconnects, logins and logouts the client's number stays what
\* the node has accepted plus what is on the way, unless the limiter dropped one
\* of its frames, another connection of the user got in between, or the user
\* logged in while an earlier answer was still on the way (conn.upset).
NumbersAgree ==
  client.authenticated /\ Idle /\ conn.sess # None /\ ~conn.upset =>
    client.seq = srv.last[client.peer] + Len(SelectSeq(client.out, IsCommand))

Quiet ==
  /\ Idle /\ client.out = <<>> /\ conn.down = <<>>
  /\ srv.fence = None /\ srv.late = None /\ ~srv.owed

\* The client shows snapshots in the order they arrive, and the answer to a move
\* may arrive after newer ones.  Once the table is quiet it shows the newest all
\* the same, because a broadcast follows every such answer.  Two exceptions: a room
\* that refused to make the last snapshot, and a user who came back to the game node
\* with LOGIN, which sends no RECONNECT (client.resume).
ShowsNewest ==
  AtGame /\ client.authenticated /\ client.seated /\ srv.seat
    /\ Quiet /\ ~srv.missed /\ ~client.resume => client.view = srv.version

\* A player's client that has lost the game node.
Lost ==
  /\ client.routing /\ client.token # None /\ client.table /\ client.seated
  /\ ~client.authenticated

\* The node answered the authentication with an error other than UNAUTHENTICATED.
TurnedAway == client.socket = "on" /\ client.out = <<>> /\ conn.down = <<>> /\ Idle

\* docs/protocol.md:15: a client that loses the game node comes back to it.  Two
\* exceptions: the client does not repeat an authentication that was turned away,
\* and it does not see the loss of a connection if the one before was given up
\* while it was being made (client.deaf).
ComesBack == Lost ~> (~Lost \/ TurnedAway \/ client.deaf)
=============================================================================
