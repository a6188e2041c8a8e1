---------------------------- MODULE TableService ----------------------------
(***************************************************************************)
(* How one table of a game node is played: the handlers of                 *)
(* src/apps/server/protocol_service.cpp, the room and the queue of its     *)
(* executor shard (RoomManager, RoomExecutor), the storage threads         *)
(* (BlockingExecutor), the timers, and the store they write to.            *)
(*                                                                         *)
(* A command that changes the table takes the table's fence                *)
(* (active_table_operations_), hops between the room queue and the storage *)
(* threads, and gives the fence back.  One step here is one task of one    *)
(* thread, except that a storage task makes one store call per step.       *)
(*                                                                         *)
(* The hand itself is abstracted to what this layer sees of Table: whose   *)
(* turn it is, when it settles, and stacks that settle to the same total.  *)
(* The store is the contract of GameStore for one table, without wallets.  *)
(***************************************************************************)
EXTENDS Integers, Sequences, FiniteSets, FiniteSetsExt

CONSTANTS
  Users, None,
  Timer,          \* the owner of a command that a timer issues
  Fresh,          \* a request id never used before
  RequestIds,     \* the ids requests carry: Fresh, or ids that may be reused
  BuyIn,          \* the chips every player sits down with
  MaxAttempts,    \* retryRefund's max_attempts
  Setups          \* the surroundings a behaviour may have; see below

ASSUME ServiceAssumption ==
  /\ {BuyIn, MaxAttempts} \subseteq Nat \ {0}
  /\ Setups \subseteq [store_fails : BOOLEAN, queues_fill : BOOLEAN, blinds_settle : BOOLEAN,
                      sequences : Nat, hands : Nat, rooms : Nat, looks : Nat]
  /\ Timer \notin Users /\ None \notin Users

VARIABLES
  room,     \* the open room, or NoRoom
  made,     \* how many rooms were made so far: the number of the newest
  tasks,    \* the queue of the table's executor shard
  fence,    \* the table is in active_table_operations_
  ops,      \* the fenced command of every user and of the timer, or NoOp
  timers,   \* the action timers armed
  latest,   \* latest_timeout_sequences_
  store,    \* the rows of the table
  refunds,  \* refunds not yet made: the room they are for, attempt, where it waits
  setup     \* the one of Setups that this behaviour has

vars == <<room, made, tasks, fence, ops, timers, latest, store, refunds>>

Owners == Users \cup {Timer}

StoreFails == setup.store_fails      \* store calls may fail or lose their reply
QueuesFill == setup.queues_fill      \* a task may find a queue full
BlindsSettle == setup.blinds_settle  \* posting the blinds may put everybody all-in
MaxSequence == setup.sequences       \* bounds on what clients make happen
MaxHands == setup.hands
MaxRooms == setup.rooms
MaxLooks == setup.looks

-----------------------------------------------------------------------------
(* The store, one table of it.  A call yields the rows after it and the    *)
(* StorageError its caller sees; a call may lose the reply to its commit.  *)

Outcomes(accepted, after) ==
  (IF accepted THEN {<<after, "ok">>} ELSE {<<store, "conflict">>})
  \cup (IF StoreFails THEN {<<store, "unavailable">>} ELSE {})
  \cup (IF StoreFails /\ accepted THEN {<<after, "unavailable">>} ELSE {})

Succeeds(result) == result[2] = "ok"

Seated == {u \in Users : store.seats[u] # None}

\* A key that is never reused need not be remembered.
Remember(key) == store.keys \cup (IF key[3] = Fresh THEN {} ELSE {key})

ReserveBuyIn(u, request) ==
  LET key == <<"buy", u, request>> IN
  IF key \in store.keys
  THEN Outcomes(u \in Seated, store)
  ELSE Outcomes(store.status = "waiting" /\ u \notin Seated,
                [store EXCEPT !.seats[u] = BuyIn, !.keys = Remember(key)])

\* kind is "cash" or "rollback".
CashOut(u, kind, request) ==
  LET key == <<kind, u, request>> IN
  IF key \in store.keys
  THEN Outcomes(TRUE, store)
  ELSE Outcomes(store.status = "waiting" /\ u \in Seated,
                [store EXCEPT !.seats[u] = None, !.keys = Remember(key)])

\* A hand that is already there is a duplicate, which counts as success.
BeginHand(hand, start) ==
  IF store.status = "waiting" /\ store.hands[hand] # None
  THEN Outcomes(TRUE, store)
  ELSE Outcomes(/\ store.status = "waiting"
                /\ \A u \in DOMAIN start : store.seats[u] = start[u],
                [store EXCEPT !.status = "playing", !.hands[hand] = "playing"])

AppendAction(row) ==
  IF row \in store.log
  THEN Outcomes(store.hands[row.hand] = "playing", store)
  ELSE Outcomes(/\ store.hands[row.hand] = "playing"
                /\ \A other \in store.log :
                     other.hand = row.hand =>
                       /\ other.sequence # row.sequence
                       /\ other.user = row.user => row.request = Fresh \/ other.request # row.request,
                [store EXCEPT !.log = @ \cup {row}])

SettleHand(hand, start, end) ==
  Outcomes(/\ store.status = "playing" /\ store.hands[hand] = "playing"
           /\ \A u \in DOMAIN start : store.seats[u] = start[u],
           [store EXCEPT !.status = "waiting", !.hands[hand] = "settled",
                         !.seats = [u \in Users |-> IF u \in DOMAIN end THEN end[u] ELSE @[u]]])

AbortTableAndRefund ==
  IF store.status = "aborted"
  THEN Outcomes(TRUE, store)
  ELSE Outcomes(TRUE,
         [store EXCEPT !.status = "aborted", !.seats = [u \in Users |-> None],
                       !.hands = [h \in DOMAIN @ |-> IF @[h] = "playing" THEN "aborted" ELSE @[h]]])

-----------------------------------------------------------------------------
(* The room: what Table does, seen from this layer.                        *)

\* Rooms are numbered from 1.
NoRoom == [id |-> 0]

NewRoom(id) ==
  [id |-> id, seats |-> [u \in Users |-> None], ready |-> {}, sequence |-> 0,
   hand |-> 0, start |-> <<>>, actor |-> None, accepted |-> {}]

Running(r) == r.actor # None

Sitting(r) == {u \in Users : r.seats[u] # None}

\* The stacks a hand between these players may end with.
Endings(start) ==
  LET Total(stacks) == MapThenSumSet(LAMBDA u : stacks[u], DOMAIN stacks)
  IN {end \in [DOMAIN start -> 0 .. Total(start)] : Total(end) = Total(start)}

Dealt(r) == {u \in r.ready \cap Sitting(r) : r.seats[u] > 0}

Settled(r, end) ==
  [r EXCEPT !.seats = [u \in Users |-> IF u \in DOMAIN end THEN end[u] ELSE @[u]],
            !.actor = None, !.ready = {}, !.sequence = @ + 1]

\* The hand begins with somebody to act, or is over once the blinds are posted.
StartedHands(r) ==
  LET start == [u \in Dealt(r) |-> r.seats[u]]
      begun == [r EXCEPT !.hand = @ + 1, !.sequence = @ + 1, !.start = start]
  IN {[begun EXCEPT !.actor = u] : u \in Dealt(r)}
     \cup (IF BlindsSettle THEN {Settled(begun, end) : end \in Endings(start)} ELSE {})

\* The room after its actor acts: the turn passes, or the hand settles (bound: it
\* does settle once the room has counted to MaxSequence).
ActedRooms(r) ==
  LET acted == [r EXCEPT !.sequence = @ + 1]
      next == IF r.sequence < MaxSequence THEN DOMAIN r.start \ {r.actor} ELSE {}
  IN {[acted EXCEPT !.actor = u] : u \in next}
     \cup {Settled(acted, end) : end \in Endings(r.start)}

\* handStart reports stack + hand_commitment for every player dealt in.  That is
\* the stack the hand began with, unless the hand is over: the stack of a winner
\* then holds the winnings as well.
HandStarts(r) ==
  IF Running(r) THEN {r.start} ELSE {[r.start EXCEPT ![u] = @ + 1] : u \in DOMAIN r.start}

-----------------------------------------------------------------------------
(* The fence, the queues and the timers.                                   *)

NoOp == [step |-> "none"]
Busy(x) == ops[x].step # "none"

\* Fault: a command does not wait for the one before it.
BeginTableOperation_Unfenced(x, op) ==
  /\ fence' = TRUE
  /\ ops' = [ops EXCEPT ![x] = op]

\* beginTableOperation and finishTableOperation.
BeginTableOperation(x, op) ==
  /\ ~fence
  /\ fence' = TRUE
  /\ ops' = [ops EXCEPT ![x] = op]

Finish(x) ==
  /\ fence' = FALSE
  /\ ops' = [ops EXCEPT ![x] = NoOp]

Goto(x, op) ==
  /\ ops' = [ops EXCEPT ![x] = op]
  /\ UNCHANGED fence

\* RoomManager finds the room and posts; the task keeps the room it found.
MayPost == room # NoRoom
Task(step, x) == [step |-> step, owner |-> x, room |-> room.id]

\* scheduleTimeout, for a snapshot with this sequence and acting player.
ScheduleTimeout(sequence, actor) ==
  IF sequence < latest
  THEN UNCHANGED <<latest, timers>>
  ELSE /\ latest' = sequence
       /\ timers' = timers \cup (IF actor = None THEN {} ELSE {[sequence |-> sequence, actor |-> actor]})

\* Fault: the room is closed and its chips forgotten.
AbortTableAndNotify_NoRefund(attempt_refund) == room' = NoRoom /\ UNCHANGED <<store, refunds>>

\* abortTableAndNotify: close the room, refund now or later.
AbortTableAndNotify(attempt_refund) ==
  /\ room' = NoRoom
  /\ \E result \in (IF attempt_refund THEN AbortTableAndRefund ELSE {<<store, "unavailable">>}) :
       /\ store' = result[1]
       /\ refunds' = refunds \cup (IF Succeeds(result) THEN {}
                                   ELSE {[room |-> made, attempt |-> 1, at |-> "timer"]})

-----------------------------------------------------------------------------
(* Commands, as the network thread receives them.                          *)

Init ==
  /\ setup \in Setups
  /\ room = NoRoom
  /\ made = 0
  /\ tasks = <<>>
  /\ fence = FALSE
  /\ ops = [x \in Owners |-> NoOp]
  /\ timers = {}
  /\ latest = 0
  /\ store = [status |-> "waiting", seats |-> [u \in Users |-> None],
              hands |-> [h \in 1 .. MaxHands |-> None], log |-> {}, keys |-> {}]
  /\ refunds = {}

\* Bound: clients do nothing more once the room has counted this far.
MayAsk == IF room = NoRoom THEN made < MaxRooms ELSE room.sequence < MaxSequence

Op(step, request) == [step |-> step, room |-> made, request |-> request]

\* SIT_DOWN goes to a storage thread first; a full storage queue ends it there.
SitDown(u, request) ==
  /\ MayAsk
  /\ ~Busy(u)
  /\ BeginTableOperation(u, Op("reserve", request))
  /\ UNCHANGED <<room, made, tasks, timers, latest, store, refunds>>

\* READY, ACTION and LEAVE_TABLE begin in the room.
AskRoom(u, step, request) ==
  /\ MayAsk /\ MayPost
  /\ ~Busy(u)
  /\ BeginTableOperation(u, Op(step, request))
  /\ tasks' = Append(tasks, Task(step, u))
  /\ UNCHANGED <<room, made, timers, latest, store, refunds>>

Ready(u) == room # NoRoom /\ room.hand < MaxHands /\ AskRoom(u, "ready", Fresh)
Unready(u) == AskRoom(u, "unready", Fresh)
Action(u, request) == AskRoom(u, "act", request)
LeaveTable(u, request) == AskRoom(u, "unready_to_leave", request)

\* SNAPSHOT, RECONNECT, a lost connection, and the logout or expiry of a session
\* do not take the fence.  The last two do not arm the timer.
Look(u, step) ==
  /\ MayAsk /\ MayPost
  /\ step \in {"snapshot", "connect_and_arm", "connect"}
  /\ Len(tasks) < MaxLooks
  /\ tasks' = Append(tasks, Task(step, u))
  /\ UNCHANGED <<room, made, fence, ops, timers, latest, store, refunds>>

-----------------------------------------------------------------------------
(* Tasks of the room.  A task that finds its room closed reports an error. *)

Due(step) == tasks # <<>> /\ Head(tasks).step = step
Who == Head(tasks).owner
Open == room # NoRoom /\ room.id = Head(tasks).room

\* The error paths that only reply to the client.
Fails(x) ==
  /\ Finish(x)
  /\ tasks' = Tail(tasks)
  /\ UNCHANGED <<room, made, timers, latest, store, refunds>>

\* Fault: a refused post never calls back.
ThenRoom_NoCallback(x, step) ==
  \/ /\ Goto(x, [ops[x] EXCEPT !.step = step])
     /\ tasks' = Append(Tail(tasks), Task(step, x))
  \/ /\ QueuesFill
     /\ tasks' = Tail(tasks)
     /\ UNCHANGED <<fence, ops>>

\* Hand over to the next task of the command, which may be refused.
ThenRoom(x, step) ==
  \/ /\ Goto(x, [ops[x] EXCEPT !.step = step])
     /\ tasks' = Append(Tail(tasks), Task(step, x))
  \/ /\ QueuesFill
     /\ Finish(x)
     /\ tasks' = Tail(tasks)

\* replyWithCurrentSnapshot posts a task of its own, after the fence is released.
ThenSnapshot(x, step, queue) ==
  /\ Finish(x)
  /\ \/ tasks' = Append(queue, Task(step, x))
     \/ QueuesFill /\ tasks' = queue

\* A seat that the room refuses is cashed out again by a storage thread.
RollBackSeat(x) ==
  \/ /\ Goto(x, [ops[x] EXCEPT !.step = "rollback"])
     /\ UNCHANGED <<room, store, refunds>>
  \/ /\ QueuesFill
     /\ AbortTableAndNotify(FALSE)
     /\ Finish(x)

SeatPlayer ==
  /\ Due("seat")
  /\ IF Open /\ ~Running(room) /\ Who \notin Sitting(room)
     THEN /\ room' = [room EXCEPT !.seats[Who] = BuyIn, !.sequence = @ + 1]
          /\ ThenRoom(Who, "seated")
          /\ UNCHANGED <<store, refunds>>
     ELSE /\ RollBackSeat(Who)
          /\ tasks' = Tail(tasks)
  /\ UNCHANGED <<made, timers, latest>>

ReplySeated == Due("seated") /\ Fails(Who)

MaySetReady(ready) ==
  Open /\ ~Running(room) /\ Who \in Sitting(room) /\ (ready => room.seats[Who] > 0)

SetReady(ready) ==
  /\ room' = [room EXCEPT !.ready = IF ready THEN @ \cup {Who} ELSE @ \ {Who}, !.sequence = @ + 1]
  /\ UNCHANGED <<made, timers, latest, store, refunds>>

ReadyTask ==
  /\ Due("ready")
  /\ IF MaySetReady(TRUE) THEN SetReady(TRUE) /\ ThenRoom(Who, "start") ELSE Fails(Who)

UnreadyTask ==
  /\ Due("unready")
  /\ IF MaySetReady(FALSE)
     THEN SetReady(FALSE) /\ ThenSnapshot(Who, "snapshot", Tail(tasks))
     ELSE Fails(Who)

StartHand ==
  /\ Due("start")
  /\ IF ~Open THEN Fails(Who)
     ELSE /\ IF Running(room) \/ Cardinality(Dealt(room)) < 2
             THEN ThenSnapshot(Who, "snapshot_and_arm", Tail(tasks)) /\ UNCHANGED room
             ELSE room' \in StartedHands(room) /\ ThenRoom(Who, "audit")
          /\ UNCHANGED <<made, timers, latest, store, refunds>>

\* Where the hand cannot be handed to storage the code calls abortHand with an
\* empty callback, and RoomManager then leaves the hand alone.
AuditStart ==
  /\ Due("audit")
  /\ \/ /\ Open
        /\ \E start \in HandStarts(room) :
             Goto(Who, [step |-> "begin", room |-> room.id, hand |-> room.hand, start |-> start])
        /\ tasks' = Tail(tasks)
        /\ UNCHANGED <<room, made, timers, latest, store, refunds>>
     \/ (~Open \/ QueuesFill) /\ Fails(Who)

\* The actor's move is accepted: the row to append, and the stacks if it settles.
Accept(x, u, request) ==
  /\ \E acted \in ActedRooms(room) :
       LET row == [hand |-> room.hand, sequence |-> acted.sequence, user |-> u, request |-> request]
           ends == IF Running(acted) THEN <<>> ELSE [v \in DOMAIN room.start |-> acted.seats[v]]
       IN \/ /\ room' = [acted EXCEPT !.accepted = @ \cup {row}]
             /\ Goto(x, [step |-> "append", room |-> room.id, row |-> row, actor |-> acted.actor,
                         start |-> room.start, ends |-> ends])
             /\ UNCHANGED <<store, refunds>>
          \/ /\ QueuesFill
             /\ AbortTableAndNotify(FALSE)
             /\ Finish(x)
  /\ tasks' = Tail(tasks)
  /\ UNCHANGED <<made, timers, latest>>

\* act may refuse any move: an illegal bet, the hand of another snapshot.
ActTask ==
  /\ Due("act")
  /\ \/ Open /\ Running(room) /\ room.actor = Who /\ Accept(Who, Who, ops[Who].request)
     \/ Fails(Who)

UnreadyToLeave ==
  /\ Due("unready_to_leave")
  /\ IF MaySetReady(FALSE)
     THEN /\ SetReady(FALSE)
          /\ Goto(Who, [ops[Who] EXCEPT !.step = "cash"]) \/ (QueuesFill /\ Finish(Who))
          /\ tasks' = Tail(tasks)
     ELSE Fails(Who)

\* Fault: the player who has been paid stays at the table.
RemovePlayer_KeepsSeat == Due("remove") /\ Fails(Who)

RemovePlayer ==
  /\ Due("remove")
  /\ IF Open /\ Who \in Sitting(room) /\ ~(Running(room) /\ Who \in DOMAIN room.start)
     THEN /\ room' = [room EXCEPT !.seats[Who] = None, !.ready = @ \ {Who}, !.sequence = @ + 1]
          /\ Finish(Who)
          /\ tasks' = Tail(tasks)
          /\ UNCHANGED <<made, timers, latest, store, refunds>>
     ELSE Fails(Who)

\* snapshot and setConnected, for the commands that do not take the fence.
LookTask ==
  /\ tasks # <<>>
  /\ Head(tasks).step \in {"snapshot", "snapshot_and_arm", "connect", "connect_and_arm"}
  /\ LET step == Head(tasks).step
         connects == step \in {"connect", "connect_and_arm"}
         answered == Open /\ (connects => Who \in Sitting(room))
     IN /\ room' = IF connects /\ answered THEN [room EXCEPT !.sequence = @ + 1] ELSE room
        /\ IF answered /\ step \in {"snapshot_and_arm", "connect_and_arm"}
           THEN ScheduleTimeout(room'.sequence, room.actor)
           ELSE UNCHANGED <<latest, timers>>
  /\ tasks' = Tail(tasks)
  /\ UNCHANGED <<made, fence, ops, store, refunds>>

\* A timer that fires asks the room whether it is still due.
CheckTimer ==
  /\ Due("check_timer")
  /\ LET timer == Head(tasks)
         due == /\ Open /\ Running(room)
                /\ room.sequence = timer.sequence /\ room.actor = timer.owner
     IN \/ /\ due
           /\ BeginTableOperation(Timer, [step |-> "timeout", room |-> room.id,
                                          actor |-> timer.owner, sequence |-> timer.sequence])
           /\ tasks' = Append(Tail(tasks), Task("timeout", Timer))
        \/ /\ ~due \/ fence \/ QueuesFill
           /\ tasks' = Tail(tasks)
           /\ UNCHANGED <<fence, ops>>
  /\ UNCHANGED <<room, made, timers, latest, store, refunds>>

OnActionTimeout ==
  /\ Due("timeout")
  /\ IF /\ Open /\ Running(room)
        /\ room.sequence = ops[Who].sequence /\ room.actor = ops[Who].actor
     THEN Accept(Who, room.actor, Fresh)
     ELSE Fails(Who)

RoomTask ==
  \/ SeatPlayer \/ ReplySeated \/ ReadyTask \/ UnreadyTask \/ StartHand \/ AuditStart
  \/ ActTask \/ UnreadyToLeave \/ RemovePlayer \/ LookTask \/ CheckTimer \/ OnActionTimeout

-----------------------------------------------------------------------------
(* Steps of the storage threads.                                           *)

InStorage(x, step) == ops[x].step = step

\* The join ticket, the table's row, the room, the buy-in.
Reserve(x) ==
  /\ InStorage(x, "reserve")
  /\ \/ Finish(x) /\ UNCHANGED <<room, made, tasks, store>>
     \/ /\ store.status # "aborted"
        /\ made' = IF room = NoRoom THEN made + 1 ELSE made
        /\ room' = IF room = NoRoom THEN NewRoom(made + 1) ELSE room
        /\ \E result \in ReserveBuyIn(x, ops[x].request) :
             /\ store' = result[1]
             /\ \/ /\ Succeeds(result)
                   /\ Goto(x, [ops[x] EXCEPT !.step = "seat"])
                   /\ tasks' = Append(tasks, [step |-> "seat", owner |-> x, room |-> made'])
                \/ /\ Succeeds(result) /\ QueuesFill
                   /\ Goto(x, [ops[x] EXCEPT !.step = "refused"])
                   /\ UNCHANGED tasks
                \/ ~Succeeds(result) /\ Finish(x) /\ UNCHANGED tasks
  /\ UNCHANGED <<timers, latest, refunds>>

SeatRefused(x) ==
  /\ InStorage(x, "refused")
  /\ RollBackSeat(x)
  /\ UNCHANGED <<made, tasks, timers, latest>>

\* A store call of x: what follows success, and what follows an error.
Call(x, results, then(_), else(_)) ==
  /\ \E result \in results :
       /\ store' = result[1]
       /\ IF Succeeds(result) THEN then(x) ELSE else(x)
  /\ UNCHANGED <<room, made, refunds>>

Stay == UNCHANGED <<tasks, timers, latest>>
Done(x) == Finish(x) /\ Stay
Abort(x) == Goto(x, [step |-> "abort", room |-> made]) /\ Stay

RollBack(x) ==
  InStorage(x, "rollback") /\ Call(x, CashOut(x, "rollback", ops[x].request), Done, Abort)

\* A hand the store refuses is left running: see AuditStart.
PersistStart(x) ==
  /\ InStorage(x, "begin")
  /\ Call(x, BeginHand(ops[x].hand, ops[x].start),
          LAMBDA y : ThenSnapshot(y, "snapshot_and_arm", tasks) /\ UNCHANGED <<timers, latest>>, Done)

Played(x) ==
  /\ ScheduleTimeout(ops[x].row.sequence, ops[x].actor)
  /\ Finish(x)
  /\ UNCHANGED tasks

\* Fault: an action that is not stored is reported and then forgotten.
PersistAction_KeepsTable(x) ==
  /\ InStorage(x, "append")
  /\ Call(x, AppendAction(ops[x].row),
          LAMBDA y : IF ops[y].ends = <<>> THEN Played(y)
                     ELSE Goto(y, [ops[y] EXCEPT !.step = "settle"]) /\ Stay,
          Done)

PersistAction(x) ==
  /\ InStorage(x, "append")
  /\ Call(x, AppendAction(ops[x].row),
          LAMBDA y : IF ops[y].ends = <<>> THEN Played(y)
                     ELSE Goto(y, [ops[y] EXCEPT !.step = "settle"]) /\ Stay,
          Abort)

\* Fault: the answer of settleHand is ignored.
PersistSettlement_IgnoresFailure(x) ==
  /\ InStorage(x, "settle")
  /\ Call(x, SettleHand(ops[x].row.hand, ops[x].start, ops[x].ends), Played, Played)

PersistSettlement(x) ==
  /\ InStorage(x, "settle")
  /\ Call(x, SettleHand(ops[x].row.hand, ops[x].start, ops[x].ends), Played, Abort)

AbortTable(x) ==
  /\ InStorage(x, "abort")
  /\ AbortTableAndNotify(TRUE)
  /\ Finish(x)
  /\ UNCHANGED <<made, tasks, timers, latest>>

PersistLeave(x) ==
  /\ InStorage(x, "cash")
  /\ Call(x, CashOut(x, "cash", ops[x].request),
          LAMBDA y : \/ /\ Goto(y, [ops[y] EXCEPT !.step = "remove"])
                        /\ tasks' = Append(tasks, Task("remove", y))
                        /\ UNCHANGED <<timers, latest>>
                     \/ QueuesFill /\ Done(y),
          Done)

StorageTask(x) ==
  \/ Reserve(x) \/ SeatRefused(x) \/ RollBack(x) \/ PersistStart(x)
  \/ PersistAction(x) \/ PersistSettlement(x) \/ AbortTable(x) \/ PersistLeave(x)

-----------------------------------------------------------------------------
(* Timers of the network loop, and the refunds they retry.                 *)

TimerFires(t) ==
  /\ t \in timers
  /\ timers' = timers \ {t}
  /\ \/ /\ latest = t.sequence /\ MayPost
        /\ tasks' = Append(tasks, [step |-> "check_timer", owner |-> t.actor,
                                   room |-> room.id, sequence |-> t.sequence])
     \/ /\ latest # t.sequence \/ ~MayPost \/ QueuesFill
        /\ UNCHANGED tasks
  /\ UNCHANGED <<room, made, fence, ops, latest, store, refunds>>

\* retryRefund again, until the attempts are used up.
Later(r) ==
  IF r.attempt = MaxAttempts THEN [r EXCEPT !.at = "operator"]
  ELSE [r EXCEPT !.attempt = @ + 1, !.at = "timer"]

\* Fault: a full storage queue ends the retries.
RefundTimer_GivesUp(r) ==
  /\ r \in refunds /\ r.at = "timer"
  /\ \/ refunds' = (refunds \ {r}) \cup {[r EXCEPT !.at = "storage"]}
     \/ QueuesFill /\ refunds' = refunds \ {r}
  /\ UNCHANGED <<room, made, tasks, fence, ops, timers, latest, store>>

RefundTimer(r) ==
  /\ r \in refunds /\ r.at = "timer"
  /\ \/ refunds' = (refunds \ {r}) \cup {[r EXCEPT !.at = "storage"]}
     \/ QueuesFill /\ refunds' = (refunds \ {r}) \cup {Later(r)}
  /\ UNCHANGED <<room, made, tasks, fence, ops, timers, latest, store>>

RetryRefund(r) ==
  /\ r \in refunds /\ r.at = "storage"
  /\ \E result \in AbortTableAndRefund :
       /\ store' = result[1]
       /\ refunds' = (refunds \ {r}) \cup (IF Succeeds(result) THEN {} ELSE {Later(r)})
  /\ UNCHANGED <<room, made, tasks, fence, ops, timers, latest>>

-----------------------------------------------------------------------------
Command ==
  \E u \in Users :
    \/ Ready(u) \/ Unready(u)
    \/ \E step \in {"snapshot", "connect_and_arm", "connect"} : Look(u, step)
    \/ \E request \in RequestIds : SitDown(u, request) \/ Action(u, request) \/ LeaveTable(u, request)

Next ==
  /\ \/ Command
     \/ RoomTask
     \/ \E x \in Owners : StorageTask(x)
     \/ \E t \in timers : TimerFires(t)
     \/ \E r \in refunds : RefundTimer(r) \/ RetryRefund(r)
  /\ UNCHANGED setup

Spec == Init /\ [][Next]_<<vars, setup>>

\* The threads of both executors and the timers of the loop keep running;
\* clients need not send anything.
Fairness ==
  /\ WF_vars(RoomTask)
  /\ \A x \in Owners : WF_vars(StorageTask(x))
  /\ WF_vars(\E t \in timers : TimerFires(t))
  /\ WF_vars(\E r \in refunds : RefundTimer(r) \/ RetryRefund(r))

FairSpec == Spec /\ Fairness

-----------------------------------------------------------------------------
(* What the table promises.                                                *)

\* The fence stands exactly while one command owns it: no path of any handler
\* leaves it up, and no two commands share it (beginTableOperation, finish).
FenceHasOneOwner ==
  LET holders == {x \in Owners : Busy(x)}
  IN IF fence THEN \E x \in Owners : holders = {x} ELSE holders = {}

\* docs/consistency.md:17: action N+1 enters the state machine only once action N
\* is stored.  At most the newest action of an open room is missing from the
\* log, and only while its command holds the fence.
FenceGuardsLog ==
  room # NoRoom =>
    \A row \in room.accepted \ store.log :
      /\ fence
      /\ \A other \in room.accepted : other.sequence <= row.sequence

\* Between commands the room and the database agree on who sits with how many
\* chips and on whether a hand is played, as long as no call fails.
RoomMatchesStore ==
  ~(fence \/ StoreFails \/ QueuesFill \/ BlindsSettle) =>
    /\ room # NoRoom => room.seats = store.seats
    /\ (room # NoRoom /\ Running(room)) <=> store.status = "playing"
    /\ (room # NoRoom /\ Running(room)) => store.hands[room.hand] = "playing"

\* docs/consistency.md:23: a room that a failure closed has its table refunded, or
\* its refund still on the way or with the operator: no failure path forgets it.
ClosedRoomIsRefunded ==
  (room = NoRoom /\ made > 0) => store.status = "aborted" \/ \E r \in refunds : r.room = made

\* A hand the database has open is one that the room still plays, or that a
\* command is settling, or whose table is being refunded: none is forgotten,
\* whatever fails.  The exception are hands that are over with the blinds: the
\* room then drifts away from the database, and the stacks that handStart reports
\* for a later one may be those of the database by accident, which opens a hand
\* that nobody plays.
StoredHandIsPlayed ==
  (store.status = "playing" /\ ~BlindsSettle) =>
    fence \/ refunds # {} \/ (room # NoRoom /\ Running(room))

\* A command always gives the fence back, so a table never stays locked.
OperationEnds == fence ~> ~fence

\* docs/consistency.md:25: a table closed with its refund pending is refunded in
\* the end, or handed to an operator after the last attempt.
RefundEnds ==
  \A n \in 1 .. Max({s.rooms : s \in Setups}) :
    (\E r \in refunds : r.room = n)
      ~> (store.status = "aborted" \/ \E r \in refunds : r.room = n /\ r.at = "operator")

\* README.md:13: an actor who does nothing is checked or folded by the timeout.
TurnEnds ==
  \A u \in Users :
    (room # NoRoom /\ room.actor = u) ~> ~(room # NoRoom /\ room.actor = u)
=============================================================================
