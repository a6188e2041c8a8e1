---------------------------- MODULE Connections -----------------------------
(***************************************************************************)
(* Connections, sessions and presence at one node: which connection speaks *)
(* for a user, which one is pushed to, and whether the table believes the  *)
(* player to be there.                                                     *)
(*                                                                         *)
(* Sources: apps/server/poker_tcp_server.cpp, the session commands of      *)
(* apps/server/protocol_service.cpp (LOGIN, AUTHENTICATE_SESSION,          *)
(* RECONNECT, LOGOUT, REFRESH_SESSION, authorize, onDisconnect),           *)
(* security/auth_service.cpp and the sessions table of                     *)
(* infrastructure/mysql_account_store.cpp.                                 *)
(*                                                                         *)
(* A connection is named by its generation.  Threads: the I/O thread of    *)
(* each connection, the storage workers, and the room's thread.  Each      *)
(* critical section is a step.  A posted command is held by a worker until *)
(* it is done; when none is free the storage queue counts as full.  Every  *)
(* user has a seat at the one table, left in an earlier connection.        *)
(***************************************************************************)
EXTENDS Naturals, Sequences, FiniteSets

CONSTANTS
  Players,
  StorageWorkers,  \* storage threads
  Room,        \* the thread of the table's room
  Nil,
  MaxConns,    \* bound: connections
  MaxTokens,   \* bound: session tokens
  RoomQueue,   \* bound: tasks the room's queue holds
  Loads        \* bounds: the users and workers at work, tokens that can be issued,
               \* requests other than heartbeats, whether tokens expire

ASSUME ConnectionsAssumption ==
  /\ MaxConns \in Nat
  /\ Nil \notin Players \cup (1 .. MaxConns)
  /\ \A l \in Loads : l.workers \subseteq StorageWorkers

VARIABLES
  net,       \* TCP state of each connection
  sess,      \* ConnectionSession of each connection
  users,     \* users_: the connection bound to each user
  at,        \* what each thread is doing
  queue,     \* setConnected tasks of the room
  online,    \* the table's connected flag of each user
  sessions,  \* MySQL: the session that each token names
  expired,   \* tokens whose time has run out
  requests,  \* number of requests
  load       \* the one of Loads that this behaviour is bounded by

server == <<net, sess, users, at, queue, online, sessions, expired>>
sessionVars == <<server, requests, load>>

Conns == 1 .. MaxConns
Tokens == 1 .. MaxTokens
Threads == Conns \cup StorageWorkers \cup {Room}

NoJob == [step |-> "idle", conn |-> Nil]
NoSession == [user |-> Nil, token |-> Nil, table |-> FALSE, busy |-> FALSE]
Unused == [user |-> Nil, state |-> "unused"]

SessionInit ==
  /\ net = [c \in Conns |-> "new"] /\ sess = [c \in Conns |-> NoSession]
  /\ users = [u \in Players |-> Nil] /\ at = [th \in Threads |-> NoJob]
  /\ queue = <<>> /\ online = [u \in Players |-> FALSE]
  /\ sessions = [k \in Tokens |-> Unused] /\ expired = {}
  /\ requests = 0 /\ load \in Loads

-----------------------------------------------------------------------------
(* Sessions *)

\* The first half of bindAuthenticated, which follows at once on the step that
\* answers: it reads the session of a connection that is still there.
Bind(c, user) ==
  IF net[c] = "open" THEN [step |-> "users", conn |-> c, user |-> user] ELSE NoJob

Live(c) == sess[c].user # Nil /\ sess[c].token \notin expired

\* A session that is reset keeps only authentication_in_progress.
Cleared(c) == [NoSession EXCEPT !.busy = sess[c].busy]

\* generateSessionToken never repeats a token.
FreshToken ==
  {k \in 1 .. load.tokens : sessions[k] = Unused /\ \A j \in 1 .. k - 1 : sessions[j] # Unused}

\* findSession: neither rotated away, nor revoked, nor out of time.
Accepts(k) == sessions[k].state = "valid" /\ k \notin expired

\* setConnected is posted to the room; a full queue refuses it.
Posted(user, on, conn) ==
  IF Len(queue) < RoomQueue
  THEN Append(queue, [user |-> user, on |-> on, conn |-> conn]) ELSE queue

-----------------------------------------------------------------------------
(* onMessage: the handler runs on the I/O thread, which then binds *)

Reads(c) == net[c] \in {"open", "closing"} /\ at[c] = NoJob

\* Fault: a second authentication may start while one is running.
MayAuthenticate_Twice(c) == ~Live(c)

\* LOGIN, AUTHENTICATE_SESSION and RECONNECT refuse while the connection is
\* authenticated or being so.
MayAuthenticate(c) == ~Live(c) /\ ~sess[c].busy

\* They reset a session that has run out, then post the command or find the
\* queue full.
Authentication(c, job) ==
  /\ Reads(c)
  /\ IF MayAuthenticate(c)
     THEN \/ \E w \in load.workers :
               /\ at[w] = NoJob
               /\ at' = [at EXCEPT ![c] = Bind(c, Nil), ![w] = job]
               /\ sess' = [sess EXCEPT ![c] = [NoSession EXCEPT !.busy = TRUE]]
          \/ /\ at' = [at EXCEPT ![c] = Bind(c, Nil)]
             /\ sess' = [sess EXCEPT ![c] = NoSession]
     ELSE LET kept == IF Live(c) THEN sess[c] ELSE Cleared(c) IN
            /\ at' = [at EXCEPT ![c] = Bind(c, kept.user)]
            /\ sess' = [sess EXCEPT ![c] = kept]
  /\ UNCHANGED <<net, users, queue, online, sessions, expired>>

LoginRequest(c, u) ==
  Authentication(c, [step |-> "login", conn |-> c, user |-> u])

AuthenticateRequest(c, k) ==
  /\ sessions[k] # Unused
  /\ Authentication(c, [step |-> "authenticate", conn |-> c, token |-> k, reconnect |-> FALSE])

\* RECONNECT of an authenticated connection needs no worker.
Rejoin(c, th, next) ==
  /\ sess' = [sess EXCEPT ![c].table = TRUE]
  /\ queue' = Posted(sess[c].user, TRUE, c)
  /\ at' = [at EXCEPT ![th] = next]
  /\ UNCHANGED <<net, users, online, sessions, expired>>

ReconnectRequest(c, k) ==
  /\ sessions[k] # Unused
  /\ IF Live(c)
     THEN Reads(c) /\ Rejoin(c, c, Bind(c, sess[c].user))
     ELSE Authentication(c, [step |-> "authenticate", conn |-> c, token |-> k,
                             reconnect |-> TRUE])

\* authorize: an expired session is reset and its player goes offline.
SessionExpires(c) ==
  /\ Reads(c) /\ sess[c].user # Nil /\ ~Live(c)
  /\ sess' = [sess EXCEPT ![c] = Cleared(c)]
  /\ queue' = IF sess[c].table THEN Posted(sess[c].user, FALSE, Nil) ELSE queue
  /\ at' = [at EXCEPT ![c] = Bind(c, Nil)]
  /\ UNCHANGED <<net, users, online, sessions, expired>>

\* LOGOUT and REFRESH_SESSION take what they need from the session and are
\* posted.
SessionRequest(c, step) ==
  /\ Reads(c) /\ Live(c)
  /\ \E w \in load.workers :
       /\ at[w] = NoJob
       /\ at' = [at EXCEPT ![c] = Bind(c, sess[c].user),
                           ![w] = [step |-> step, conn |-> c, user |-> sess[c].user,
                                   token |-> sess[c].token, table |-> sess[c].table]]
  /\ UNCHANGED <<net, sess, users, queue, online, sessions, expired>>

\* A heartbeat, or a command that is refused.
HeartbeatRequest(c) ==
  /\ Reads(c)
  /\ at' = [at EXCEPT ![c] = Bind(c, sess[c].user)]
  /\ UNCHANGED <<net, sess, users, queue, online, sessions, expired>>

-----------------------------------------------------------------------------
(* The storage workers *)

\* An authentication ends with a session, or without.
Adopts(c, user, token) ==
  sess' = [sess EXCEPT ![c].user = user, ![c].token = token, ![c].busy = FALSE]

AuthenticationFails(w) ==
  /\ at[w].step \in {"login", "authenticate"}
  /\ sess' = [sess EXCEPT ![at[w].conn].busy = FALSE]
  /\ at' = [at EXCEPT ![w] = Bind(at[w].conn, sess[at[w].conn].user)]
  /\ UNCHANGED <<net, users, queue, online, sessions, expired>>

Login(w) ==
  /\ at[w].step = "login"
  /\ \E k \in FreshToken :
       /\ sessions' = [sessions EXCEPT ![k] = [user |-> at[w].user, state |-> "valid"]]
       /\ Adopts(at[w].conn, at[w].user, k)
  /\ at' = [at EXCEPT ![w] = Bind(at[w].conn, at[w].user)]
  /\ UNCHANGED <<net, users, queue, online, expired>>

Authenticate(w) ==
  /\ at[w].step = "authenticate" /\ Accepts(at[w].token)
  /\ Adopts(at[w].conn, sessions[at[w].token].user, at[w].token)
  /\ at' = [at EXCEPT ![w] = IF at[w].reconnect
                             THEN [@ EXCEPT !.step = "reconnect"]
                             ELSE Bind(at[w].conn, sessions[at[w].token].user)]
  /\ UNCHANGED <<net, users, queue, online, sessions, expired>>

\* RECONNECT is handled again, now authenticated.  If the session has gone
\* meanwhile it is authenticated once more, or refused.
Reconnect(w) ==
  /\ at[w].step = "reconnect"
  /\ LET c == at[w].conn
         refused == Bind(c, sess[c].user)
     IN IF Live(c)
        THEN \/ Rejoin(c, w, IF Len(queue) < RoomQueue THEN NoJob ELSE refused)
             \/ /\ at' = [at EXCEPT ![w] = refused]
                /\ UNCHANGED <<net, sess, users, queue, online, sessions, expired>>
        ELSE /\ \E again \in {TRUE, FALSE} :
                  /\ again => ~sess[c].busy
                  /\ sess' = [sess EXCEPT ![c] = [NoSession EXCEPT !.busy = sess[c].busy \/ again]]
                  /\ at' = [at EXCEPT ![w] = IF again THEN [@ EXCEPT !.step = "authenticate"]
                                             ELSE Bind(c, Nil)]
             /\ UNCHANGED <<net, users, queue, online, sessions, expired>>

\* LOGOUT revokes the token it took along and resets the session, whoever has
\* it by then.
Logout(w) ==
  /\ at[w].step = "logout"
  /\ IF sessions[at[w].token].state = "valid"
     THEN /\ sessions' = [sessions EXCEPT ![at[w].token].state = "revoked"]
          /\ sess' = [sess EXCEPT ![at[w].conn] = Cleared(at[w].conn)]
          /\ queue' = IF at[w].table THEN Posted(at[w].user, FALSE, Nil) ELSE queue
          /\ at' = [at EXCEPT ![w] = Bind(at[w].conn, Nil)]
     ELSE /\ at' = [at EXCEPT ![w] = Bind(at[w].conn, sess[at[w].conn].user)]
          /\ UNCHANGED <<sessions, sess, queue>>
  /\ UNCHANGED <<net, users, online, expired>>

\* refresh: rotateSession replaces the token in one statement.
RotateSession(w) ==
  /\ at[w].step = "refresh" /\ Accepts(at[w].token)
  /\ \E k \in FreshToken :
       /\ sessions' = [sessions EXCEPT ![k] = sessions[at[w].token],
                                       ![at[w].token].state = "replaced"]
       /\ at' = [at EXCEPT ![w] = [step |-> "adopt", conn |-> @.conn, user |-> @.user,
                                    token |-> @.token, new |-> k]]
  /\ UNCHANGED <<net, sess, users, queue, online, expired>>

\* The new token is adopted unless the connection's identity has changed.
AdoptToken(w) ==
  /\ at[w].step = "adopt"
  /\ LET c == at[w].conn IN
       /\ sess' = IF sess[c].user = at[w].user /\ sess[c].token = at[w].token
                  THEN [sess EXCEPT ![c].token = at[w].new] ELSE sess
       /\ at' = [at EXCEPT ![w] = Bind(c, sess[c].user)]
  /\ UNCHANGED <<net, users, queue, online, sessions, expired>>

\* A call to MySQL fails, or its reply is lost: the token may be rotated or
\* revoked all the same.
SessionCallFails(w) ==
  /\ at[w].step \in {"logout", "refresh", "adopt"}
  /\ at' = [at EXCEPT ![w] = Bind(at[w].conn, sess[at[w].conn].user)]
  /\ \/ UNCHANGED sessions
     \/ /\ at[w].step = "logout" /\ sessions[at[w].token].state = "valid"
        /\ sessions' = [sessions EXCEPT ![at[w].token].state = "revoked"]
  /\ UNCHANGED <<net, sess, users, queue, online, expired>>

-----------------------------------------------------------------------------
(* Binding: PokerTcpServer *)

\* Fault: a user who is bound stays with the old connection.
MayBind_KeepsOld(u, c) == users[u] \in {Nil, c}

\* A binding to a connection of a later generation stays.
MayBind(u, c) == users[u] = Nil \/ users[u] <= c

\* The second half of bindAuthenticated releases what else the connection is
\* bound to and binds it, unless a later connection is bound.  The connection
\* it displaces is shut down.
BindAuthenticated(th) ==
  /\ at[th].step = "users"
  /\ LET c == at[th].conn
         u == at[th].user
         released == [v \in Players |-> IF v # u /\ users[v] = c THEN Nil ELSE users[v]]
         binds == u # Nil /\ MayBind(u, c)
     IN /\ users' = IF binds THEN [released EXCEPT ![u] = c] ELSE released
        /\ net' = [d \in Conns |-> IF binds /\ users[u] = d /\ d # c /\ net[d] = "open"
                                   THEN "closing" ELSE net[d]]
  /\ at' = [at EXCEPT ![th] = NoJob]
  /\ UNCHANGED <<sess, queue, online, sessions, expired>>

Open(c) ==
  /\ net[c] = "new" /\ \A d \in 1 .. c - 1 : net[d] # "new"
  /\ net' = [net EXCEPT ![c] = "open"]
  /\ UNCHANGED <<sess, users, at, queue, online, sessions, expired>>

\* closeIdleConnections.
CloseIdle(c) ==
  /\ net[c] = "open"
  /\ net' = [net EXCEPT ![c] = "closing"]
  /\ UNCHANGED <<sess, users, at, queue, online, sessions, expired>>

\* Fault: whoever closes erases the binding.
OwnsBinding_Always(c) == {TRUE}

\* unbind: nobody else is bound to the user.  The weak pointer to a connection
\* that is closed may still be valid or not.
OwnsBinding(c) ==
  LET u == sess[c].user IN
    CASE u = Nil -> {TRUE}
      [] users[u] \in {Nil, c} -> {TRUE}
      [] net[users[u]] = "closed" -> {TRUE, FALSE}
      [] OTHER -> {FALSE}

\* The connection is down, by whatever cause: its state is erased and, if it
\* owns it, its binding.
Disconnect(c) ==
  /\ Reads(c)
  /\ net' = [net EXCEPT ![c] = "closed"]
  /\ \E owns \in OwnsBinding(c) :
       /\ users' = [v \in Players |-> IF owns /\ v = sess[c].user THEN Nil ELSE users[v]]
       /\ at' = [at EXCEPT ![c] = IF owns THEN [step |-> "gone", conn |-> c] ELSE NoJob]
  /\ UNCHANGED <<sess, queue, online, sessions, expired>>

\* ProtocolService::onDisconnect.
OnDisconnect(c) ==
  /\ at[c].step = "gone"
  /\ queue' = IF sess[c].user # Nil /\ sess[c].table
              THEN Posted(sess[c].user, FALSE, Nil) ELSE queue
  /\ at' = [at EXCEPT ![c] = NoJob]
  /\ UNCHANGED <<net, sess, users, online, sessions, expired>>

\* push drops a binding whose connection no longer exists.
PushDrops(u) ==
  /\ users[u] # Nil /\ net[users[u]] = "closed"
  /\ users' = [users EXCEPT ![u] = Nil]
  /\ UNCHANGED <<net, sess, at, queue, online, sessions, expired>>

-----------------------------------------------------------------------------
\* The room takes its tasks in order; the answer to a RECONNECT binds.
RoomStep ==
  /\ at[Room] = NoJob /\ queue # <<>>
  /\ online' = [online EXCEPT ![Head(queue).user] = Head(queue).on]
  /\ queue' = Tail(queue)
  /\ LET c == Head(queue).conn IN
       at' = [at EXCEPT ![Room] = IF c = Nil THEN NoJob ELSE Bind(c, sess[c].user)]
  /\ UNCHANGED <<net, sess, users, sessions, expired>>

TokenExpires(k) ==
  /\ load.expiry /\ sessions[k] # Unused /\ k \notin expired
  /\ expired' = expired \cup {k}
  /\ UNCHANGED <<net, sess, users, at, queue, online, sessions>>

\* What a client may ask for, besides heartbeats.
Request(c) ==
  \/ \E u \in load.users : LoginRequest(c, u)
  \/ \E k \in Tokens : AuthenticateRequest(c, k) \/ ReconnectRequest(c, k)
  \/ \E step \in {"logout", "refresh"} : SessionRequest(c, step)

ConnectionStep(c) ==
  \/ Open(c) \/ SessionExpires(c) \/ HeartbeatRequest(c)
  \/ CloseIdle(c) \/ Disconnect(c) \/ OnDisconnect(c)

StorageStep(w) ==
  \/ AuthenticationFails(w) \/ Login(w) \/ Authenticate(w) \/ Reconnect(w)
  \/ Logout(w) \/ RotateSession(w) \/ AdoptToken(w) \/ SessionCallFails(w)

Step ==
  \/ \E c \in Conns : Request(c) /\ requests < load.requests /\ requests' = requests + 1
  \/ /\ \/ \E c \in Conns : ConnectionStep(c)
        \/ \E w \in StorageWorkers : StorageStep(w)
        \/ \E th \in Threads : BindAuthenticated(th)
        \/ \E u \in Players : PushDrops(u)
        \/ \E k \in Tokens : TokenExpires(k)
        \/ RoomStep
     /\ UNCHANGED requests

SessionNext == Step /\ UNCHANGED load

SessionSpec == SessionInit /\ [][SessionNext]_sessionVars

\* Each thread finishes what it has begun, and a client that stays connected sends
\* heartbeats.
SessionFairness ==
  /\ \A w \in StorageWorkers : WF_server(StorageStep(w) \/ BindAuthenticated(w))
  /\ \A c \in Conns : /\ WF_server(OnDisconnect(c) \/ BindAuthenticated(c))
                      /\ SF_server(HeartbeatRequest(c))
  /\ WF_server(RoomStep \/ BindAuthenticated(Room))

FairSessionSpec == SessionSpec /\ SessionFairness

-----------------------------------------------------------------------------
(* Properties *)

\* docs/ubuntu-migration-learning-plan.md:333: concurrent authentications of a
\* connection do not mix users.  A connection that speaks for one user never
\* turns to another without having spoken for nobody in between
\* (protocol_service.cpp:264-283).
IdentityIsStable ==
  [][\A c \in Conns : sess[c].user # Nil => sess'[c].user \in {Nil, sess[c].user}]_sessionVars

\* The step was taken for connection c.
Acts(c) == \E th \in Threads : c \in {th, at[th].conn} /\ at'[th] # at[th]

\* A binding is only lost to a later connection, or to what its own connection
\* does: the late disconnect of an older one, or a late answer to it, leaves it
\* alone (poker_tcp_server.cpp:264-270, 303-308).
OnlyLaterTakesOver ==
  [][\A u \in Players : LET c == users[u] IN
       c # Nil /\ users'[u] # c =>
         \/ users'[u] # Nil /\ users'[u] > c
         \/ Acts(c) \/ net[c] = "closed"]_sessionVars

\* The session of a bound connection may be reset, and a binding erased by a
\* thread that read the session too early.  Both are repaired: if the newest
\* connection stays open and speaks for a user it ends up bound to them, and one
\* that stops speaking for a user ends up not bound to them
\* (poker_tcp_server.cpp:222-274).
BindingSettles ==
  \A c \in Conns, u \in Players :
    /\ <>[](net[c] = "open" /\ sess[c].user = u /\ \A d \in Conns : d > c => net[d] = "new")
         => <>[](users[u] = c)
    /\ <>[](net[c] = "open" /\ sess[c].user # u) => <>[](users[u] # c)
=============================================================================
