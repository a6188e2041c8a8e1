----------------------------- MODULE RoomProofs -----------------------------
(***************************************************************************)
(* For any number of users, hands and sequences: at a table where nothing  *)
(* fails, the room of the process and the rows of the database agree       *)
(* whenever no command is under way.                                       *)
(*                                                                         *)
(* The two are changed by different threads, the one before the other or   *)
(* after it, so RoomMatchesStore breaks and is restored within each        *)
(* command.  QuietInv says by how much they differ while a command holds   *)
(* the fence: Stage gives, for every step a command can have come to, what *)
(* the room has done that the rows do not show, or the other way round.    *)
(* That the holder is alone, and that its task is the only one which       *)
(* touches the room, is OwnerInv of ServiceProofs.                         *)
(***************************************************************************)
EXTENDS ServiceProofs

\* Nothing fails, and no hand is over before anybody acts.
Quiet == ~(StoreFails \/ QueuesFill \/ BlindsSettle)

IsRow(f, S) == f = [i \in S |-> f[i]]

\* What holds of the rows and of an open room whoever has the fence.
Shape ==
  /\ refunds = {} /\ made \in Nat /\ MaxHands \in Nat
  /\ IsRow(store.seats, Users) /\ IsRow(store.hands, 1 .. MaxHands)
  /\ room # NoRoom =>
       /\ room.id = made /\ made # 0
       /\ IsRow(room.seats, Users)
       /\ room.hand \in 0 .. MaxHands
       /\ \A h \in 1 .. MaxHands : h > room.hand => store.hands[h] = None
       /\ Running(room) => /\ room.actor \in DOMAIN room.start /\ DOMAIN room.start \subseteq Users
                           /\ room.hand > 0
                           /\ \A u \in DOMAIN room.start : room.seats[u] = room.start[u]

\* A command with the fence finds its room open.
QueueIsOpen ==
  \A i \in 1 .. Len(tasks) : Fenced(tasks[i]) => room # NoRoom /\ tasks[i].room = made

\* Between commands.
Idle == room # NoRoom /\ ~Running(room) /\ room.seats = store.seats /\ store.status = "waiting"

Playing ==
  /\ room # NoRoom /\ Running(room) /\ room.seats = store.seats
  /\ store.status = "playing" /\ store.hands[room.hand] = "playing"

Unused ==
  /\ room = NoRoom /\ store.status = "waiting"
  /\ \A u \in Users : store.seats[u] = None
  /\ \A h \in 1 .. MaxHands : store.hands[h] = None

Gone == room = NoRoom /\ store.status = "aborted"

Agreed == Idle \/ Playing \/ Unused \/ Gone

\* A player whose seat is in the database and not in the room.
Paid(x, chips) ==
  /\ room # NoRoom /\ ~Running(room) /\ store.status = "waiting" /\ x \in Users
  /\ store.seats = [room.seats EXCEPT ![x] = chips]

\* A hand that the room has begun and the database has not.
Begun ==
  /\ room # NoRoom /\ Running(room) /\ room.seats = store.seats
  /\ store.status = "waiting" /\ store.hands[room.hand] = None

\* A hand that the room has settled and the database has not.
Ended(op) ==
  /\ {"step", "row", "start", "ends", "actor"} \subseteq DOMAIN op
  /\ room # NoRoom /\ ~Running(room) /\ room.hand > 0
  /\ store.status = "playing" /\ store.hands[room.hand] = "playing" /\ op.row.hand = room.hand
  /\ DOMAIN op.start \subseteq Users /\ op.ends = [u \in DOMAIN op.start |-> room.seats[u]]
  /\ \A u \in Users : store.seats[u] = IF u \in DOMAIN op.start THEN op.start[u] ELSE room.seats[u]

\* The command of a client, as it was asked for.
Asked(step, op) == op = [step |-> step, room |-> op.room, request |-> Fresh]

\* Where the room and the rows are while the command of x is at this step.
Stage(x, op) ==
  /\ op.step \in {"reserve", "ready", "unready", "start", "act", "unready_to_leave", "seated",
                  "timeout", "seat", "cash", "remove", "audit", "begin", "append", "settle", "abort"}
  /\ op.step \in {"reserve", "ready", "unready", "start", "act", "unready_to_leave", "seated", "timeout"}
       => Agreed
  /\ op.step \in {"ready", "start"} => room.hand < MaxHands
  /\ op.step = "reserve" => x \in Users /\ Asked("reserve", op)
  /\ op.step = "unready_to_leave" => Asked("unready_to_leave", op)
  /\ op.step = "seat" => Paid(x, BuyIn) /\ room.seats[x] = None
  /\ op.step = "cash" => Idle /\ x \in Users /\ Asked("cash", op)
  /\ op.step = "remove" => Paid(x, None) /\ room.seats[x] # None
  /\ op.step = "audit" => Begun
  /\ op.step = "begin" => Begun /\ op.hand = room.hand /\ op.start = room.start
  /\ op.step = "append" => IF op.ends = <<>> THEN Playing ELSE Ended(op)
  /\ op.step = "settle" => Ended(op)

QuietInv ==
  /\ GuardInv /\ Shape /\ QueueIsOpen
  /\ store.keys = {}
  /\ ~fence => Agreed
  /\ \A x \in Owners : Busy(x) => Stage(x, ops[x])

\* The same game with these stacks, though the room counts on.
SameGame(r, after, seats) ==
  /\ after.id = r.id /\ after.hand = r.hand /\ after.start = r.start /\ after.actor = r.actor
  /\ after.seats = seats

\* Every command here has a request id of its own.
LEMMA AskedFresh ==
  ASSUME NEW step, NEW op, Asked(step, op)
  PROVE  op.request = Fresh
<1> PICK r : r = [step |-> step, room |-> op.room, request |-> Fresh]
  BY Zenon
<1>1. r.request = Fresh
  OBVIOUS
<1>2. op = r
  BY DEF Asked
<1>3. QED
  BY <1>1, <1>2

\* A seat or a sequence that changes leaves the rest of the game alone.
LEMMA GameFields ==
  ASSUME NEW r, Numbered(r)
  PROVE  /\ \A u, chips : SameGame(r, [r EXCEPT !.seats[u] = chips, !.sequence = @ + 1],
                                   [r.seats EXCEPT ![u] = chips])
         /\ \A ready : SameGame(r, [r EXCEPT !.ready = ready, !.sequence = @ + 1], r.seats)
         /\ \A u, ready : SameGame(r, [r EXCEPT !.seats[u] = None, !.ready = ready, !.sequence = @ + 1],
                                   [r.seats EXCEPT ![u] = None])
         /\ SameGame(r, [r EXCEPT !.sequence = @ + 1], r.seats)
BY DEF Numbered, RoomFields, SameGame

\* The command with the fence decides what holds next.
LEMMA NextStage ==
  ASSUME GuardInv', Shape', QueueIsOpen', store'.keys = {},
         NEW x \in Owners, (~fence' /\ Agreed') \/ (Busy(x)' /\ Stage(x, ops[x])')
  PROVE  QuietInv'
<1>1. \A y, z \in Owners : Busy(y)' /\ Busy(z)' => y = z
  BY DEF GuardInv, OwnerInv
<1>2. fence' <=> \E y \in Owners : Busy(y)'
  BY DEF GuardInv, OwnerInv
<1>3. CASE ~fence' /\ Agreed'
  BY <1>2, <1>3 DEF QuietInv
<1>4. CASE Busy(x)' /\ Stage(x, ops[x])'
  <2>1. \A y \in Owners : Busy(y)' => Stage(y, ops[y])'
    BY <1>1, <1>4
  <2>2. fence'
    BY <1>2, <1>4
  <2>3. QED
    BY <2>1, <2>2 DEF QuietInv
<1>5. QED
  BY <1>3, <1>4

\* A queue with at most one task of a command, which will find its room open.
LEMMA PostedOpen ==
  ASSUME NEW q, IsQueue(q), Free(q),
         \/ tasks' = q
         \/ \E t : tasks' = Append(q, t) /\ (~Fenced(t) \/ (room' # NoRoom /\ t.room = made'))
  PROVE  QueueIsOpen'
<1>1. CASE tasks' = q
  BY <1>1 DEF Free, QueueIsOpen
<1>2. ASSUME NEW t, tasks' = Append(q, t), ~Fenced(t) \/ (room' # NoRoom /\ t.room = made')
      PROVE  QueueIsOpen'
  BY <1>2, QueueAppend DEF Free, QueueIsOpen
<1>3. QED
  BY <1>1, <1>2

\* The rest of the invariant when the room and the rows stay what they were.
LEMMA SameShape ==
  ASSUME QuietInv, UNCHANGED <<store, refunds, made, setup>>,
         \/ UNCHANGED room
         \/ room # NoRoom /\ room' # NoRoom /\ SameGame(room, room', room.seats)
  PROVE  /\ Shape' /\ store'.keys = {} /\ (Agreed => Agreed') /\ (Idle => Idle') /\ (Begun => Begun')
         /\ \A x : Stage(x, ops[x]) /\ UNCHANGED ops => Stage(x, ops[x])'
<1>1. Shape' /\ store'.keys = {}
  BY DEF QuietInv, Shape, SameGame, Running, MaxHands
<1>2. /\ (Idle <=> Idle') /\ (Playing <=> Playing') /\ (Begun <=> Begun')
      /\ (Unused <=> Unused') /\ (Gone <=> Gone')
      /\ \A x, chips : Paid(x, chips) <=> Paid(x, chips)'
      /\ \A op : Ended(op) <=> Ended(op)'
  BY DEF Idle, Playing, Begun, Unused, Gone, Paid, Ended, SameGame, Running, MaxHands
<1>3. Agreed <=> Agreed'
  BY <1>2 DEF Agreed
<1>4. ASSUME NEW x, Stage(x, ops[x]), UNCHANGED ops PROVE Stage(x, ops[x])'
  <2>1. /\ room'.hand = room.hand /\ room'.seats = room.seats /\ room'.start = room.start
        /\ MaxHands' = MaxHands /\ ops'[x] = ops[x]
    BY <1>4 DEF SameGame, MaxHands
  <2> DEFINE op == ops[x]
  <2>2. op' = op
    BY <2>1
  <2> HIDE DEF op
  <2>3. QED
    BY <1>2, <1>3, <1>4, <2>1, <2>2, Zenon DEF Stage, Asked, op
<1>5. QED
  BY <1>1, <1>2, <1>3, <1>4

\* A step that leaves the commands alone.
LEMMA AsideQuiet ==
  ASSUME QuietInv, GuardInv', UNCHANGED <<store, refunds, made, setup, fence, ops>>,
         \/ UNCHANGED room
         \/ room # NoRoom /\ room' # NoRoom /\ SameGame(room, room', room.seats),
         \/ tasks' = tasks
         \/ tasks # <<>> /\ tasks' = Tail(tasks)
         \/ \E t : tasks' = Append(tasks, t) /\ ~Fenced(t)
  PROVE  QuietInv'
<1>1. /\ Shape' /\ store'.keys = {} /\ (Agreed => Agreed')
      /\ \A x : Stage(x, ops[x]) => Stage(x, ops[x])'
  BY SameShape
<1>2. IsQueue(tasks)
  BY DEF QuietInv, GuardInv, OwnerInv
<1>3. QueueIsOpen'
  <2>1. CASE tasks' = tasks
    BY <2>1 DEF QuietInv, QueueIsOpen
  <2>2. CASE tasks # <<>> /\ tasks' = Tail(tasks)
    BY <1>2, <2>2, QueueTail DEF QuietInv, QueueIsOpen
  <2>3. CASE \E t : tasks' = Append(tasks, t) /\ ~Fenced(t)
    BY <1>2, <2>3, QueueAppend DEF QuietInv, QueueIsOpen
  <2>4. QED
    BY <2>1, <2>2, <2>3
<1>4. \A x \in Owners : Busy(x)' => Stage(x, ops[x])'
  BY <1>1 DEF QuietInv, Busy
<1>5. QED
  BY <1>1, <1>3, <1>4 DEF QuietInv

\* The first task of the queue, if it is a command's, finds its room open.
LEMMA HeadIsOpen ==
  ASSUME QuietInv, NEW step \in RoomSteps, Due(step)
  PROVE  /\ Who \in Owners /\ ops[Who].step = step /\ fence /\ Stage(Who, ops[Who])
         /\ IsQueue(Tail(tasks)) /\ Free(Tail(tasks))
         /\ Open /\ Numbered(room) /\ room.id = made
<1>1. /\ Who \in Owners /\ ops[Who].step = step /\ Busy(Who) /\ fence
      /\ IsQueue(Tail(tasks)) /\ Free(Tail(tasks))
  BY AtHead DEF QuietInv, GuardInv
<1>2. tasks # <<>> /\ Head(tasks).step = step
  BY DEF Due
<1>3. Head(tasks) = tasks[1] /\ 1 \in 1 .. Len(tasks)
  BY <1>2, QueueTail DEF QuietInv, GuardInv, OwnerInv
<1>4. room # NoRoom /\ Head(tasks).room = made
  BY <1>2, <1>3 DEF QuietInv, QueueIsOpen, Fenced
<1>5. Numbered(room) /\ room.id = made
  BY <1>4 DEF QuietInv, GuardInv, Shape
<1>6. QED
  BY <1>1, <1>4, <1>5 DEF QuietInv, Open

\* A command that goes on.
LEMMA GoesOnQuiet ==
  ASSUME GuardInv, GuardInv', Shape', store'.keys = {}, NEW x \in Owners, NEW op, op.step # "none",
         ops' = [ops EXCEPT ![x] = op], Stage(x, op)', NEW q, IsQueue(q), Free(q),
         \/ tasks' = q
         \/ \E t : tasks' = Append(q, t) /\ (~Fenced(t) \/ (room' # NoRoom /\ t.room = made'))
  PROVE  QuietInv'
<1>1. ops'[x] = op
  BY DEF GuardInv, OwnerInv
<1>2. Busy(x)' /\ Stage(x, ops[x])'
  BY <1>1 DEF Busy
<1>3. QED
  BY <1>2, NextStage, PostedOpen

\* A command that ends.
LEMMA EndsQuiet ==
  ASSUME GuardInv', Shape', store'.keys = {}, NEW x \in Owners, Finish(x), Agreed',
         NEW q, IsQueue(q), Free(q), tasks' = q \/ \E t : tasks' = Append(q, t) /\ ~Fenced(t)
  PROVE  QuietInv'
<1>1. ~fence'
  BY DEF Finish
<1>2. QED
  BY <1>1, NextStage, PostedOpen

\* Steps at which the room and the rows agree.
LEMMA PlainStage ==
  ASSUME NEW x, NEW op, Agreed',
         \/ op.step \in {"unready", "act", "seated", "timeout"}
         \/ op.step \in {"ready", "start"} /\ room'.hand < MaxHands'
         \/ op.step = "reserve" /\ x \in Users /\ Asked("reserve", op)
         \/ op.step = "unready_to_leave" /\ Asked("unready_to_leave", op)
  PROVE  Stage(x, op)'
BY DEF Stage, Asked

\* The task of a command that only replies, or only touches who is ready.
LEMMA TaskEnds ==
  ASSUME QuietInv, GuardInv', UNCHANGED <<store, refunds, made, setup>>,
         NEW step \in RoomSteps, Due(step), Agreed, Finish(Who),
         \/ UNCHANGED room
         \/ room # NoRoom /\ room' # NoRoom /\ SameGame(room, room', room.seats),
         tasks' = Tail(tasks) \/ \E t : tasks' = Append(Tail(tasks), t) /\ ~Fenced(t)
  PROVE  QuietInv'
<1>1. Shape' /\ store'.keys = {} /\ Agreed'
  BY SameShape
<1>2. Who \in Owners /\ IsQueue(Tail(tasks)) /\ Free(Tail(tasks))
  BY HeadIsOpen
<1>3. QED
  BY <1>1, <1>2, EndsQuiet, Zenon

\* A task posted for the next step of the command finds the room that is open now.
LEMMA TaskGoesOn ==
  ASSUME QuietInv, GuardInv', Shape', store'.keys = {}, UNCHANGED <<made, setup>>, room' # NoRoom,
         NEW step \in RoomSteps, Due(step), NEW x, x = Who, NEW op, Goto(x, op), op.step # "none",
         Stage(x, op)', tasks' = Tail(tasks) \/ \E next : tasks' = Append(Tail(tasks), Task(next, Who))
  PROVE  QuietInv'
<1>1. x \in Owners /\ IsQueue(Tail(tasks)) /\ Free(Tail(tasks)) /\ room.id = made
  BY HeadIsOpen
<1>2. \A next : Task(next, Who).room = made'
  BY <1>1 DEF Task
<1>3. ops' = [ops EXCEPT ![x] = op]
  BY DEF Goto
<1>4. QED
  BY <1>1, <1>2, <1>3, GoesOnQuiet, Zenon DEF QuietInv

\* seatPlayer puts the player where the store already has them.
LEMMA SeatQuiet ==
  ASSUME Quiet, QuietInv, GuardInv', UNCHANGED setup, SeatPlayer
  PROVE  QuietInv'
<1> PICK x : x = Who
  OBVIOUS
<1>1. Due("seat") /\ "seat" \in RoomSteps
  BY SMTT(20) DEF SeatPlayer, RoomSteps
<1>2. /\ Paid(x, BuyIn) /\ room.seats[x] = None /\ Open /\ Numbered(room) /\ room.id = made
      /\ x \in Owners /\ "step" \in DOMAIN ops[x]
  <2>1. /\ x \in Owners /\ ops[x].step = "seat" /\ Stage(x, ops[x])
        /\ Open /\ Numbered(room) /\ room.id = made
    BY <1>1, HeadIsOpen
  <2>2. QED
    BY <2>1, Zenon DEF Stage, QuietInv, GuardInv, OwnerInv
<1>3. /\ room' = [room EXCEPT !.seats[x] = BuyIn, !.sequence = @ + 1]
      /\ ThenRoom(x, "seated") /\ UNCHANGED <<store, refunds, made>>
  BY <1>2 DEF SeatPlayer, Paid, Sitting
<1>4. room' # NoRoom /\ SameGame(room, room', [room.seats EXCEPT ![x] = BuyIn])
  <2>1. Replayed(room, room')
    BY <1>2, <1>3, RoomReplays, ZenonT(30)
  <2>2. SameGame(room, room', [room.seats EXCEPT ![x] = BuyIn])
    BY <1>2, <1>3, GameFields, Zenon
  <2>3. QED
    BY <2>1, <2>2, OpenRoom, SMTT(20) DEF Replayed
<1>5. Idle'
  BY <1>2, <1>3, <1>4 DEF Paid, Idle, SameGame, Running
<1>6. Shape' /\ store'.keys = {}
  BY <1>2, <1>3, <1>4, <1>5 DEF QuietInv, Shape, SameGame, Idle, Paid, MaxHands
<1> DEFINE op == [ops[x] EXCEPT !.step = "seated"]
<1>7. op.step = "seated" /\ Goto(x, op) /\ tasks' = Append(Tail(tasks), Task("seated", Who))
  BY <1>2, <1>3 DEF ThenRoom, Quiet
<1> HIDE DEF op
<1>8. QED
  <2> PICK new : new = op
    OBVIOUS
  <2>1. Stage(x, new)'
    BY <1>5, <1>7, PlainStage DEF Agreed
  <2>2. QED
    BY <1>1, <1>3, <1>4, <1>6, <1>7, <2>1, TaskGoesOn

\* setReady changes only who is ready.
LEMMA ReadyKeepsGame ==
  ASSUME QuietInv, NEW ready \in BOOLEAN, NEW step \in RoomSteps, Due(step), SetReady(ready)
  PROVE  /\ UNCHANGED <<store, refunds, made>> /\ room # NoRoom /\ room' # NoRoom
         /\ SameGame(room, room', room.seats)
<1>1. room # NoRoom /\ Numbered(room)
  BY HeadIsOpen, SMTT(20) DEF Open
<1>2. \E who : room' = [room EXCEPT !.ready = who, !.sequence = @ + 1]
  BY Zenon DEF SetReady
<1>3. QED
  <2>1. Replayed(room, room')
    BY <1>1, <1>2, RoomReplays, ZenonT(30)
  <2>2. SameGame(room, room', room.seats)
    BY <1>1, <1>2, GameFields, Zenon
  <2>3. QED
    BY <1>1, <2>1, <2>2, OpenRoom, SMTT(20) DEF SetReady, Replayed

\* setReady in the room keeps the invariant.
LEMMA ReadyQuiet ==
  ASSUME Quiet, QuietInv, GuardInv', UNCHANGED setup, ReadyTask \/ UnreadyTask \/ ReplySeated
  PROVE  QuietInv'
<1> PICK x : x = Who
  BY SMTT(20)
<1>1. ASSUME NEW step \in {"ready", "unready", "seated"}, Due(step)
      PROVE  /\ step \in RoomSteps /\ x \in Owners /\ Agreed /\ ops[x].step = step
             /\ "step" \in DOMAIN ops[x] /\ (step = "ready" => room.hand < MaxHands)
  <2>1. step \in RoomSteps
    BY DEF RoomSteps
  <2>2. x \in Owners /\ ops[x].step = step /\ Stage(x, ops[x])
    BY <1>1, <2>1, HeadIsOpen
  <2>3. QED
    BY <2>1, <2>2, Zenon DEF Stage, QuietInv, GuardInv, OwnerInv
<1>2. ASSUME NEW step \in {"ready", "unready", "seated"}, Due(step), Fails(Who) PROVE QuietInv'
  BY <1>1, <1>2, TaskEnds DEF Fails
<1>3. CASE ReplySeated
  BY <1>2, <1>3 DEF ReplySeated
<1>4. CASE UnreadyTask
  <2>1. CASE SetReady(FALSE) /\ ThenSnapshot(Who, "snapshot", Tail(tasks))
    <3>1. ~Fenced(Task("snapshot", Who))
      BY DEF Fenced, Task, RoomSteps
    <3>2. Finish(Who) /\ (tasks' = Tail(tasks) \/ \E t : tasks' = Append(Tail(tasks), t) /\ ~Fenced(t))
      BY <2>1, <3>1 DEF ThenSnapshot
    <3>3. Due("unready")
      BY <1>4 DEF UnreadyTask
    <3>4. QED
      BY <1>1, <2>1, <3>2, <3>3, ReadyKeepsGame, TaskEnds, Zenon
  <2>2. QED
    BY <1>2, <1>4, <2>1, Zenon DEF UnreadyTask
<1>5. CASE ReadyTask
  <2>0. Due("ready")
    BY <1>5 DEF ReadyTask
  <2>1. CASE SetReady(TRUE) /\ ThenRoom(Who, "start")
    <3>1. /\ UNCHANGED <<store, refunds, made>> /\ room # NoRoom /\ room' # NoRoom
          /\ SameGame(room, room', room.seats)
      BY <1>1, <2>0, <2>1, ReadyKeepsGame, ZenonT(30)
    <3>2. Shape' /\ store'.keys = {} /\ Agreed'
      BY <1>1, <2>0, <3>1, SameShape
    <3> DEFINE op == [ops[x] EXCEPT !.step = "start"]
    <3>3. op.step = "start" /\ Goto(x, op) /\ tasks' = Append(Tail(tasks), Task("start", Who))
      BY <1>1, <2>0, <2>1 DEF ThenRoom, Quiet
    <3>4. room'.hand < MaxHands'
      BY <1>1, <2>0, <3>1 DEF SameGame, MaxHands
    <3> HIDE DEF op
    <3> PICK new : new = op
      OBVIOUS
    <3>5. Stage(x, new)'
      BY <3>2, <3>3, <3>4, PlainStage
    <3>6. QED
      BY <1>1, <2>0, <3>1, <3>2, <3>3, <3>5, TaskGoesOn, SMTT(20)
  <2>2. QED
    BY <1>2, <1>5, <2>0, <2>1, ZenonT(30) DEF ReadyTask
<1>6. QED
  BY <1>3, <1>4, <1>5

\* The room after startHand, unless the blinds end the hand.
LEMMA StartedFields ==
  ASSUME Quiet, NEW r, Numbered(r), NEW after \in StartedHands(r)
  PROVE  /\ after.id = r.id /\ after.seats = r.seats /\ after.hand = r.hand + 1
         /\ after.start = [u \in Dealt(r) |-> r.seats[u]] /\ after.actor \in Dealt(r)
<1> DEFINE start == [u \in Dealt(r) |-> r.seats[u]]
           begun == [r EXCEPT !.hand = @ + 1, !.sequence = @ + 1, !.start = start]
<1>1. \E u \in Dealt(r) : after = [begun EXCEPT !.actor = u]
  BY Zenon DEF StartedHands, Quiet
<1> HIDE DEF start
<1>2. /\ DOMAIN begun = RoomFields /\ begun.id = r.id /\ begun.seats = r.seats
      /\ begun.hand = r.hand + 1 /\ begun.start = start
  BY DEF Numbered, RoomFields
<1> HIDE DEF begun
<1>3. QED
  BY <1>1, <1>2, SMTT(20) DEF RoomFields, start

\* startHand: the room is one hand ahead of the store until it is audited.
LEMMA StartQuiet ==
  ASSUME Quiet, QuietInv, GuardInv', UNCHANGED setup, StartHand
  PROVE  QuietInv'
<1> PICK x : x = Who
  OBVIOUS
<1>1. Due("start") /\ "start" \in RoomSteps
  BY SMTT(20) DEF StartHand, RoomSteps
<1>2. /\ x \in Owners /\ Agreed /\ room.hand < MaxHands /\ Open /\ Numbered(room)
      /\ "step" \in DOMAIN ops[x] /\ UNCHANGED <<made, store, refunds>>
  <2>1. x \in Owners /\ ops[x].step = "start" /\ Stage(x, ops[x]) /\ Open /\ Numbered(room)
    BY <1>1, HeadIsOpen
  <2>2. QED
    BY <2>1, Zenon DEF Stage, QuietInv, GuardInv, OwnerInv, StartHand
<1>3. CASE ThenSnapshot(Who, "snapshot_and_arm", Tail(tasks)) /\ UNCHANGED room
  <2>1. ~Fenced(Task("snapshot_and_arm", Who))
    BY DEF Fenced, Task, RoomSteps
  <2>2. Finish(Who) /\ (tasks' = Tail(tasks) \/ \E t : tasks' = Append(Tail(tasks), t) /\ ~Fenced(t))
    BY <1>3, <2>1 DEF ThenSnapshot
  <2>3. QED
    BY <1>1, <1>2, <1>3, <2>2, TaskEnds
<1>4. CASE ~Running(room) /\ room' \in StartedHands(room) /\ ThenRoom(Who, "audit")
  <2>1. Idle
    BY <1>2, <1>4 DEF Agreed, Playing, Unused, Gone, Open
  <2>2. /\ room'.id = room.id /\ room'.seats = room.seats /\ room'.hand = room.hand + 1
        /\ room'.start = [u \in Dealt(room) |-> room.seats[u]] /\ room'.actor \in Dealt(room)
    BY <1>2, <1>4, StartedFields
  <2>3. Dealt(room) \subseteq Users
    BY DEF Dealt, Sitting
  <2>4. room' # NoRoom /\ Running(room') /\ room # NoRoom
    BY <1>2, <1>4, <2>2, <2>3, StartReplays, OpenRoom, ServiceAssumption DEF Replayed, Running, Open
  <2>5. room.hand \in Nat /\ MaxHands \in Nat /\ MaxHands' = MaxHands
    BY <2>4 DEF QuietInv, Shape, MaxHands
  <2>6. \A h \in 1 .. MaxHands : h > room.hand => store.hands[h] = None
    BY <2>4 DEF QuietInv, Shape
  <2>7. Begun'
    BY <1>2, <2>1, <2>2, <2>4, <2>5, <2>6, SMTT(20) DEF Idle, Begun
  <2>8. Shape' /\ store'.keys = {}
    <3>1. /\ room'.id = made' /\ made' # 0 /\ IsRow(room'.seats, Users) /\ room'.hand \in 0 .. MaxHands'
          /\ room'.hand > 0
      BY <1>2, <2>2, <2>4, <2>5 DEF QuietInv, Shape
    <3>2. \A h \in 1 .. MaxHands' : h > room'.hand => store'.hands[h] = None
      BY <1>2, <2>2, <2>5, <2>6
    <3>3. /\ room'.actor \in DOMAIN room'.start /\ DOMAIN room'.start \subseteq Users
          /\ \A u \in DOMAIN room'.start : room'.seats[u] = room'.start[u]
      BY <2>2, <2>3
    <3>4. QED
      BY <1>2, <2>5, <3>1, <3>2, <3>3, SMTT(20) DEF QuietInv, Shape
  <2> DEFINE op == [ops[x] EXCEPT !.step = "audit"]
  <2>9. op.step = "audit" /\ Goto(x, op) /\ tasks' = Append(Tail(tasks), Task("audit", Who))
    BY <1>2, <1>4 DEF ThenRoom, Quiet
  <2> HIDE DEF op
  <2> PICK new : new = op
    OBVIOUS
  <2>10. Stage(x, new)'
    BY <2>7, <2>9, SMTT(20) DEF Stage
  <2>11. QED
    BY <1>1, <1>2, <2>4, <2>8, <2>9, <2>10, TaskGoesOn
<1>5. QED
  BY <1>2, <1>3, <1>4 DEF StartHand

\* auditStart hands the hand that just began to storage.
LEMMA AuditQuiet ==
  ASSUME Quiet, QuietInv, GuardInv', UNCHANGED setup, AuditStart
  PROVE  QuietInv'
<1> PICK x : x = Who
  OBVIOUS
<1>1. Due("audit") /\ "audit" \in RoomSteps
  BY DEF AuditStart, RoomSteps
<1>2. x \in Owners /\ Begun /\ Open
  <2>1. x \in Owners /\ ops[x].step = "audit" /\ Stage(x, ops[x]) /\ Open
    BY <1>1, HeadIsOpen
  <2>2. QED
    BY <2>1, Zenon DEF Stage
<1> DEFINE op == [step |-> "begin", room |-> room.id, hand |-> room.hand, start |-> room.start]
<1>3. Goto(x, op) /\ tasks' = Tail(tasks) /\ UNCHANGED <<room, made, store, refunds>>
  <2>1. HandStarts(room) = {room.start}
    BY <1>2, Zenon DEF HandStarts, Begun
  <2>2. QED
    BY <1>2, <2>1, SMTT(20) DEF AuditStart, Quiet
<1>4. op.step = "begin" /\ op.hand = room.hand /\ op.start = room.start
  OBVIOUS
<1> HIDE DEF op
<1>5. Shape' /\ store'.keys = {} /\ Begun' /\ room' # NoRoom
  BY <1>2, <1>3, SameShape, SMTT(20) DEF Begun
<1> PICK new : new = op
  OBVIOUS
<1>6. Stage(x, new)'
  BY <1>3, <1>4, <1>5, Zenon DEF Stage
<1>7. QED
  BY <1>1, <1>3, <1>4, <1>5, <1>6, TaskGoesOn, SMTT(20)

\* The room after an action: the turn passes, or the stacks are settled.
LEMMA ActedFields ==
  ASSUME NEW r, Numbered(r), NEW acted \in ActedRooms(r)
  PROVE  /\ acted.id = r.id /\ acted.hand = r.hand /\ acted.start = r.start
         /\ \/ acted.seats = r.seats /\ acted.actor \in DOMAIN r.start
            \/ /\ acted.actor = None
               /\ \E end : /\ DOMAIN end = DOMAIN r.start
                           /\ acted.seats = [u \in Users |-> IF u \in DOMAIN end THEN end[u] ELSE r.seats[u]]
<1> DEFINE counted == [r EXCEPT !.sequence = @ + 1]
<1>1. /\ DOMAIN counted = RoomFields /\ counted.id = r.id /\ counted.hand = r.hand
      /\ counted.start = r.start /\ counted.seats = r.seats
  BY DEF Numbered, RoomFields
<1>2. \/ \E u \in DOMAIN r.start : acted = [counted EXCEPT !.actor = u]
      \/ \E end \in Endings(r.start) : acted = Settled(counted, end)
  BY Zenon DEF ActedRooms
<1> HIDE DEF counted
<1>3. ASSUME NEW u \in DOMAIN r.start, acted = [counted EXCEPT !.actor = u]
      PROVE  /\ acted.id = r.id /\ acted.hand = r.hand /\ acted.start = r.start
             /\ acted.seats = r.seats /\ acted.actor \in DOMAIN r.start
  BY <1>1, <1>3 DEF RoomFields
<1>4. ASSUME NEW end \in Endings(r.start), acted = Settled(counted, end)
      PROVE  /\ acted.id = r.id /\ acted.hand = r.hand /\ acted.start = r.start /\ acted.actor = None
             /\ DOMAIN end = DOMAIN r.start
             /\ acted.seats = [u \in Users |-> IF u \in DOMAIN end THEN end[u] ELSE r.seats[u]]
  <2>1. DOMAIN end = DOMAIN r.start
    BY DEF Endings
  <2> DEFINE seats == [u \in Users |-> IF u \in DOMAIN end THEN end[u] ELSE counted.seats[u]]
  <2>2. acted = [counted EXCEPT !.seats = seats, !.actor = None, !.ready = {}, !.sequence = @ + 1]
    BY <1>4 DEF Settled
  <2>3. seats = [u \in Users |-> IF u \in DOMAIN end THEN end[u] ELSE r.seats[u]]
    BY <1>1
  <2> HIDE DEF seats
  <2>4. QED
    BY <1>1, <2>1, <2>2, <2>3 DEF RoomFields
<1>5. QED
  BY <1>2, <1>3, <1>4, Zenon

\* The actor's move: the store is one action behind, or one settlement.
LEMMA AcceptQuiet ==
  ASSUME Quiet, QuietInv, GuardInv', UNCHANGED setup, NEW step \in RoomSteps, Due(step), Agreed,
         Running(room), NEW x, x = Who, NEW u, NEW request, Accept(x, u, request)
  PROVE  QuietInv'
<1>1. x \in Owners /\ Open /\ Numbered(room) /\ room.id = made /\ room # NoRoom
  BY HeadIsOpen DEF Open
<1>2. Playing
  BY <1>1 DEF Agreed, Idle, Unused, Gone
<1>3. PICK acted \in ActedRooms(room) :
        LET row == [hand |-> room.hand, sequence |-> acted.sequence, user |-> u, request |-> request]
            ends == IF Running(acted) THEN <<>> ELSE [v \in DOMAIN room.start |-> acted.seats[v]]
        IN /\ room' = [acted EXCEPT !.accepted = @ \cup {row}]
           /\ Goto(x, [step |-> "append", room |-> room.id, row |-> row, actor |-> acted.actor,
                       start |-> room.start, ends |-> ends])
           /\ UNCHANGED <<store, refunds>>
  BY ZenonT(30) DEF Accept, Quiet
<1> DEFINE row == [hand |-> room.hand, sequence |-> acted.sequence, user |-> u, request |-> request]
           ends == IF Running(acted) THEN <<>> ELSE [v \in DOMAIN room.start |-> acted.seats[v]]
           op == [step |-> "append", room |-> room.id, row |-> row, actor |-> acted.actor,
                  start |-> room.start, ends |-> ends]
<1>4. /\ room' = [acted EXCEPT !.accepted = @ \cup {row}] /\ Goto(x, op)
      /\ UNCHANGED <<store, refunds, made>> /\ tasks' = Tail(tasks)
  BY <1>3 DEF Accept
<1>5. row.hand = room.hand
  OBVIOUS
<1> HIDE DEF row, ends
<1>6. /\ op.step = "append" /\ op.row.hand = room.hand /\ op.start = room.start /\ op.ends = ends
      /\ {"step", "row", "start", "ends", "actor"} \subseteq DOMAIN op
  BY <1>5, Zenon
<1> HIDE DEF op
<1>7. /\ DOMAIN acted = RoomFields /\ Numbered(acted)
      /\ acted.id = room.id /\ acted.hand = room.hand /\ acted.start = room.start
  BY <1>1, ActedFields, ActionCounts, Zenon DEF Replayed, Numbered
<1>8. /\ DOMAIN room' = RoomFields /\ room'.id = room.id /\ room'.hand = room.hand
      /\ room'.start = room.start /\ room'.seats = acted.seats /\ room'.actor = acted.actor
  BY <1>4, <1>7 DEF RoomFields
<1>9. room' # NoRoom
  BY <1>8, SMTT(20) DEF RoomFields, NoRoom
<1>10. /\ room.actor \in DOMAIN room.start /\ DOMAIN room.start \subseteq Users /\ room.hand > 0
       /\ \A v \in DOMAIN room.start : room.seats[v] = room.start[v]
       /\ IsRow(room.seats, Users) /\ IsRow(store.seats, Users)
  BY <1>1, Zenon DEF QuietInv, Shape
<1> PICK new : new = op
  OBVIOUS
<1>11. CASE acted.seats = room.seats /\ acted.actor \in DOMAIN room.start
  <2>1. Running(room') /\ Running(acted)
    BY <1>8, <1>10, <1>11, ServiceAssumption, SMTT(20) DEF Running
  <2>2. Playing'
    BY <1>2, <1>4, <1>8, <1>9, <1>11, <2>1 DEF Playing
  <2>3. Shape' /\ store'.keys = {}
    BY <1>1, <1>4, <1>8, <1>9, <1>10, <1>11 DEF QuietInv, Shape, Running, MaxHands
  <2>4. op.ends = <<>>
    BY <1>6, <2>1, SMTT(20) DEF ends
  <2>5. Stage(x, new)'
    BY <1>6, <2>2, <2>4, Zenon DEF Stage
  <2>6. QED
    BY <1>4, <1>6, <1>9, <2>3, <2>5, TaskGoesOn, SMTT(20)
<1>12. ASSUME NEW end, DOMAIN end = DOMAIN room.start, acted.actor = None,
              acted.seats = [v \in Users |-> IF v \in DOMAIN end THEN end[v] ELSE room.seats[v]]
       PROVE  QuietInv'
  <2>1. ~Running(room') /\ ~Running(acted)
    BY <1>8, <1>12, Zenon DEF Running
  <2>2. ends = [v \in DOMAIN room.start |-> room'.seats[v]]
    BY <1>8, <2>1 DEF ends
  <2>3. ends # <<>>
    <3>1. room.actor \in DOMAIN ends
      BY <1>10, <2>2
    <3>2. QED
      BY <3>1
  <2>4. \A v \in Users : store'.seats[v] = IF v \in DOMAIN room.start THEN room.start[v] ELSE room'.seats[v]
    BY <1>2, <1>4, <1>8, <1>10, <1>12, SMTT(20) DEF Playing
  <2>5. Ended(new)'
    BY <1>2, <1>4, <1>6, <1>8, <1>9, <1>10, <2>1, <2>2, <2>4 DEF Ended, Playing
  <2>6. IsRow(room'.seats, Users)
    BY <1>8, <1>12 DEF IsRow
  <2>7. Shape' /\ store'.keys = {}
    BY <1>1, <1>4, <1>8, <1>9, <2>1, <2>6, Zenon DEF QuietInv, Shape, MaxHands
  <2>8. Stage(x, new)'
    BY <1>6, <2>3, <2>5, Zenon DEF Stage
  <2>9. QED
    BY <1>4, <1>6, <1>9, <2>7, <2>8, TaskGoesOn
<1>13. QED
  <2>1. \/ acted.seats = room.seats /\ acted.actor \in DOMAIN room.start
        \/ /\ acted.actor = None
           /\ \E end : /\ DOMAIN end = DOMAIN room.start
                       /\ acted.seats = [v \in Users |-> IF v \in DOMAIN end THEN end[v] ELSE room.seats[v]]
    BY <1>1, ActedFields, Zenon
  <2>2. QED
    BY <1>11, <1>12, <2>1, ZenonT(30)

\* So does an action in the room.
LEMMA ActQuiet ==
  ASSUME Quiet, QuietInv, GuardInv', UNCHANGED setup, ActTask \/ OnActionTimeout
  PROVE  QuietInv'
<1> PICK x : x = Who
  OBVIOUS
<1>1. ASSUME NEW step \in {"act", "timeout"}, Due(step)
      PROVE  step \in RoomSteps /\ Agreed /\ Open
  <2>1. step \in RoomSteps
    BY DEF RoomSteps
  <2>2. ops[x].step = step /\ Stage(x, ops[x]) /\ Open
    BY <1>1, <2>1, HeadIsOpen, Zenon
  <2>3. QED
    BY <2>1, <2>2, Zenon DEF Stage
<1>2. ASSUME NEW step \in {"act", "timeout"}, Due(step), Fails(Who) PROVE QuietInv'
  BY <1>1, <1>2, TaskEnds DEF Fails
<1>3. CASE ActTask
  <2>1. Due("act")
    BY <1>3, Zenon DEF ActTask
  <2>2. ASSUME Running(room), NEW request, Accept(Who, Who, request) PROVE QuietInv'
    BY <1>1, <2>1, <2>2, AcceptQuiet, SMTT(20)
  <2>3. QED
    BY <1>2, <1>3, <2>1, <2>2, Zenon DEF ActTask
<1>4. CASE OnActionTimeout
  <2>1. Due("timeout")
    BY <1>4, Zenon DEF OnActionTimeout
  <2>2. CASE Running(room) /\ Accept(Who, room.actor, Fresh)
    BY <1>1, <2>1, <2>2, AcceptQuiet
  <2>3. QED
    BY <1>2, <1>4, <2>1, <2>2, SMTT(20) DEF OnActionTimeout
<1>5. QED
  BY <1>3, <1>4

\* A player who leaves is first paid, then removed.
LEMMA LeaveQuiet ==
  ASSUME Quiet, QuietInv, GuardInv', UNCHANGED setup, UnreadyToLeave
  PROVE  QuietInv'
<1> PICK x : x = Who
  OBVIOUS
<1>1. Due("unready_to_leave") /\ "unready_to_leave" \in RoomSteps
  BY DEF UnreadyToLeave, RoomSteps
<1>2. x \in Owners /\ Agreed /\ Asked("unready_to_leave", ops[x]) /\ Open
  <2>1. x \in Owners /\ ops[x].step = "unready_to_leave" /\ Stage(x, ops[x]) /\ Open
    BY <1>1, HeadIsOpen, Zenon
  <2>2. QED
    BY <2>1, Zenon DEF Stage
<1>3. CASE Fails(Who)
  BY <1>1, <1>2, <1>3, TaskEnds DEF Fails
<1>4. CASE /\ MaySetReady(FALSE) /\ SetReady(FALSE) /\ tasks' = Tail(tasks)
           /\ Goto(Who, [ops[Who] EXCEPT !.step = "cash"])
  <2>1. Idle /\ x \in Users
    BY <1>2, <1>4 DEF MaySetReady, Sitting, Agreed, Playing, Unused, Gone, Open
  <2>2. /\ UNCHANGED <<store, refunds, made>> /\ room # NoRoom /\ room' # NoRoom
        /\ SameGame(room, room', room.seats)
    BY <1>1, <1>4, ReadyKeepsGame, Zenon
  <2>3. Shape' /\ store'.keys = {} /\ Idle'
    BY <2>1, <2>2, SameShape
  <2> DEFINE op == [ops[x] EXCEPT !.step = "cash"]
  <2>4. Goto(x, op)
    BY <1>4
  <2>5. op.step = "cash" /\ Asked("cash", op)
    BY <1>2 DEF Asked
  <2> HIDE DEF op
  <2> PICK new : new = op
    OBVIOUS
  <2>6. Stage(x, new)'
    BY <2>1, <2>3, <2>5 DEF Stage, Asked
  <2>7. QED
    BY <1>1, <1>4, <2>2, <2>3, <2>4, <2>5, <2>6, TaskGoesOn
<1>5. QED
  BY <1>3, <1>4, ZenonT(30) DEF UnreadyToLeave, Quiet

\* So does taking a player who has been paid out of the room.
LEMMA RemoveQuiet ==
  ASSUME Quiet, QuietInv, GuardInv', UNCHANGED setup, RemovePlayer
  PROVE  QuietInv'
<1> PICK x : x = Who
  OBVIOUS
<1>1. Due("remove") /\ "remove" \in RoomSteps
  BY DEF RemovePlayer, RoomSteps
<1>2. /\ x \in Owners /\ Paid(x, None) /\ room.seats[x] # None /\ Open /\ Numbered(room)
      /\ IsQueue(Tail(tasks)) /\ Free(Tail(tasks))
  <2>1. /\ x \in Owners /\ ops[x].step = "remove" /\ Stage(x, ops[x]) /\ Open /\ Numbered(room)
        /\ IsQueue(Tail(tasks)) /\ Free(Tail(tasks))
    BY <1>1, HeadIsOpen, Zenon
  <2>2. QED
    BY <2>1, Zenon DEF Stage
<1>3. /\ room' = [room EXCEPT !.seats[x] = None, !.ready = @ \ {x}, !.sequence = @ + 1]
      /\ Finish(x) /\ tasks' = Tail(tasks) /\ UNCHANGED <<store, refunds, made>>
  BY <1>2, SMTT(20) DEF RemovePlayer, Paid, Sitting
<1>4. PICK ready : room' = [room EXCEPT !.seats[x] = None, !.ready = ready, !.sequence = @ + 1]
  BY <1>3, ZenonT(30)
<1>5. room' # NoRoom /\ SameGame(room, room', [room.seats EXCEPT ![x] = None])
  <2>1. Replayed(room, room')
    BY <1>2, <1>4, RoomReplays, ZenonT(30)
  <2>2. SameGame(room, room', [room.seats EXCEPT ![x] = None])
    BY <1>2, <1>4, GameFields, ZenonT(30)
  <2>3. QED
    BY <2>1, <2>2, OpenRoom DEF Replayed
<1>6. Idle'
  BY <1>2, <1>3, <1>5 DEF Paid, Idle, SameGame, Running
<1>7. Shape' /\ store'.keys = {}
  BY <1>2, <1>3, <1>5, <1>6 DEF QuietInv, Shape, SameGame, Idle, Paid, MaxHands
<1>8. QED
  BY <1>2, <1>3, <1>6, <1>7, EndsQuiet, ZenonT(30) DEF Agreed

\* snapshot and setConnected do not touch the game.
LEMMA LookQuiet ==
  ASSUME QuietInv, GuardInv', UNCHANGED setup, LookTask
  PROVE  QuietInv'
<1>1. \/ UNCHANGED room
      \/ room # NoRoom /\ room' = [room EXCEPT !.sequence = @ + 1]
  BY DEF LookTask, Open
<1>2. UNCHANGED <<store, refunds, made, fence, ops>> /\ tasks # <<>> /\ tasks' = Tail(tasks)
  BY DEF LookTask
<1>3. room # NoRoom => Numbered(room)
  BY SMTT(20) DEF QuietInv, GuardInv
<1>4. \/ UNCHANGED room
      \/ room # NoRoom /\ room' # NoRoom /\ SameGame(room, room', room.seats)
  BY <1>1, <1>3, RoomReplays, GameFields, OpenRoom, ZenonT(30) DEF Replayed
<1>5. QED
  BY <1>2, <1>4, AsideQuiet

\* A timer takes the fence only while it is free.
LEMMA TimerQuiet ==
  ASSUME QuietInv, GuardInv', UNCHANGED setup, CheckTimer
  PROVE  QuietInv'
<1>1. tasks # <<>> /\ UNCHANGED <<room, made, store, refunds>>
  BY Zenon DEF CheckTimer, Due
<1>2. CASE UNCHANGED <<fence, ops>> /\ tasks' = Tail(tasks)
  BY <1>1, <1>2, AsideQuiet, SMTT(20)
<1>3. ASSUME NEW op, op.step = "timeout", BeginTableOperation(Timer, op), Open,
             tasks' = Append(Tail(tasks), Task("timeout", Timer))
      PROVE  QuietInv'
  <2>1. ~fence /\ ops' = [ops EXCEPT ![Timer] = op] /\ Timer \in Owners
    BY <1>3 DEF BeginTableOperation, Owners
  <2>2. Free(tasks) /\ IsQueue(tasks) /\ Agreed
    BY <2>1, Unowned, Zenon DEF QuietInv, GuardInv, OwnerInv
  <2>3. IsQueue(Tail(tasks)) /\ Free(Tail(tasks))
    BY <1>1, <2>2, QueueTail DEF Free
  <2>4. Shape' /\ store'.keys = {} /\ Agreed'
    BY <1>1, <2>2, SameShape, SMTT(20)
  <2>5. room' # NoRoom /\ Task("timeout", Timer).room = made'
    BY <1>1, <1>3, Zenon DEF Open, Task, QuietInv, Shape
  <2>6. Stage(Timer, op)'
    BY <1>3, <2>4, PlainStage
  <2>7. QED
    BY <1>3, <2>1, <2>3, <2>4, <2>5, <2>6, GoesOnQuiet, ZenonT(30) DEF QuietInv
<1>4. QED
  <2>1. \A id, actor, sequence :
          [step |-> "timeout", room |-> id, actor |-> actor, sequence |-> sequence].step = "timeout"
    OBVIOUS
  <2>2. QED
    BY <1>2, <1>3, <2>1, Zenon DEF CheckTimer

\* When nothing fails a call does what it should or is refused.
LEMMA QuietOutcome ==
  ASSUME Quiet, NEW accepted, NEW after, NEW result \in Outcomes(accepted, after)
  PROVE  \/ accepted /\ result[1] = after /\ Succeeds(result)
         \/ ~accepted /\ result[1] = store /\ ~Succeeds(result)
<1>1. (accepted /\ result = <<after, "ok">>) \/ (~accepted /\ result = <<store, "conflict">>)
  BY SMTT(20) DEF Outcomes, Quiet
<1>2. QED
  BY <1>1 DEF Succeeds

\* The command a storage thread works on.
LEMMA InStorageQuiet ==
  ASSUME QuietInv, NEW x \in Owners, NEW step, InStorage(x, step), step \notin RoomSteps \cup {"none"}
  PROVE  /\ IsQueue(tasks) /\ Free(tasks) /\ ops[x].step = step /\ Stage(x, ops[x])
         /\ "step" \in DOMAIN ops[x] /\ DOMAIN store = StoreFields /\ store.keys = {}
<1>1. Busy(x) /\ IsQueue(tasks) /\ Free(tasks)
  BY AtStorage, SMTT(20) DEF QuietInv, GuardInv
<1>2. QED
  BY <1>1, Zenon DEF QuietInv, GuardInv, OwnerInv, InStorage

\* The room in which a seat is reserved is the open one, or a new one.
LEMMA RoomForSeat ==
  ASSUME QuietInv, Agreed, store.status # "aborted",
         made' = IF room = NoRoom THEN made + 1 ELSE made,
         room' = IF room = NoRoom THEN NewRoom(made + 1) ELSE room
  PROVE  /\ room' # NoRoom /\ room'.seats = store.seats /\ IsRow(room'.seats, Users)
         /\ room'.id = made' /\ made' # 0 /\ made' \in Nat /\ room'.hand \in 0 .. MaxHands
         /\ \A h \in 1 .. MaxHands : h > room'.hand => store.hands[h] = None
         /\ Running(room') => /\ room'.actor \in DOMAIN room'.start /\ DOMAIN room'.start \subseteq Users
                              /\ room'.hand > 0 /\ store.status = "playing"
                              /\ \A u \in DOMAIN room'.start : room'.seats[u] = room'.start[u]
                              /\ store.hands[room'.hand] = "playing"
         /\ ~Running(room') => store.status = "waiting"
<1>1. CASE room = NoRoom
  <2>1. Unused /\ made \in Nat /\ MaxHands \in Nat /\ IsRow(store.seats, Users)
    BY <1>1, ZenonT(30) DEF Agreed, Idle, Playing, Gone, QuietInv, Shape
  <2>2. /\ room'.id = made + 1 /\ room'.seats = [u \in Users |-> None] /\ room'.hand = 0
        /\ room'.actor = None /\ Numbered(room') /\ made' = made + 1
    BY <1>1, Zenon DEF NewRoom, Numbered, RoomFields
  <2>3. room'.seats = store.seats /\ IsRow(room'.seats, Users)
    BY <2>1, <2>2, SMTT(20) DEF Unused, IsRow
  <2>4. QED
    BY <2>1, <2>2, <2>3, OpenRoom, SMTT(20) DEF Unused, Running
<1>2. CASE room # NoRoom
  <2>1. Idle \/ Playing
    BY <1>2 DEF Agreed, Unused, Gone
  <2>2. QED
    BY <1>2, <2>1, Zenon DEF Idle, Playing, QuietInv, Shape
<1>3. QED
  BY <1>1, <1>2, ZenonT(30)

\* reserveBuyIn puts the seat in the store, and the command goes on to the room.
LEMMA ReserveQuiet ==
  ASSUME Quiet, QuietInv, GuardInv', UNCHANGED setup, NEW x \in Owners, Reserve(x)
  PROVE  QuietInv'
<1>1. /\ IsQueue(tasks) /\ Free(tasks) /\ ops[x].step = "reserve" /\ Stage(x, ops[x])
      /\ "step" \in DOMAIN ops[x] /\ DOMAIN store = StoreFields /\ store.keys = {}
  BY InStorageQuiet DEF Reserve, RoomSteps
<1>2. Agreed /\ x \in Users /\ ops[x].request = Fresh /\ UNCHANGED refunds
  BY <1>1, SMTT(20) DEF Stage, Asked, Reserve
<1>3. CASE Finish(x) /\ UNCHANGED <<room, made, tasks, store>>
  BY <1>1, <1>2, <1>3, SameShape, EndsQuiet, SMTT(20)
<1>4. ASSUME store.status # "aborted",
             made' = IF room = NoRoom THEN made + 1 ELSE made,
             room' = IF room = NoRoom THEN NewRoom(made + 1) ELSE room,
             NEW result \in ReserveBuyIn(x, ops[x].request), store' = result[1],
             \/ /\ Succeeds(result) /\ Goto(x, [ops[x] EXCEPT !.step = "seat"])
                /\ tasks' = Append(tasks, [step |-> "seat", owner |-> x, room |-> made'])
             \/ ~Succeeds(result) /\ Finish(x) /\ UNCHANGED tasks
      PROVE  QuietInv'
  <2>1. /\ room' # NoRoom /\ room'.seats = store.seats /\ IsRow(room'.seats, Users)
        /\ room'.id = made' /\ made' # 0 /\ made' \in Nat /\ room'.hand \in 0 .. MaxHands
        /\ \A h \in 1 .. MaxHands : h > room'.hand => store.hands[h] = None
        /\ Running(room') => /\ room'.actor \in DOMAIN room'.start /\ DOMAIN room'.start \subseteq Users
                             /\ room'.hand > 0 /\ store.status = "playing"
                             /\ \A u \in DOMAIN room'.start : room'.seats[u] = room'.start[u]
                             /\ store.hands[room'.hand] = "playing"
        /\ ~Running(room') => store.status = "waiting"
    BY <1>2, <1>4, RoomForSeat, Zenon
  <2>2. MaxHands' = MaxHands
    BY DEF MaxHands
  <2> DEFINE key == <<"buy", x, Fresh>>
             after == [store EXCEPT !.seats[x] = BuyIn, !.keys = Remember(key)]
  <2>3. Remember(key) = {}
    BY <1>1 DEF Remember
  <2>4. /\ after.seats = [store.seats EXCEPT ![x] = BuyIn] /\ after.keys = {}
        /\ after.hands = store.hands /\ after.status = store.status
    BY <1>1, <2>3 DEF StoreFields
  <2>5. result \in Outcomes(store.status = "waiting" /\ x \notin Seated, after)
    BY <1>1, <1>2, <1>4, SMTT(20) DEF ReserveBuyIn
  <2> HIDE DEF after
  <2>6. CASE store.status = "waiting" /\ x \notin Seated /\ result[1] = after /\ Succeeds(result)
    <3>1. store.seats[x] = None /\ ~Running(room')
      BY <1>2, <2>1, <2>6, ZenonT(30) DEF Seated
    <3>2. IsRow(store.seats, Users)' /\ IsRow(store.hands, 1 .. MaxHands)'
      BY <1>2, <1>4, <2>2, <2>4, <2>6, ZenonT(30) DEF IsRow, QuietInv, Shape
    <3>3. Shape' /\ store'.keys = {}
      BY <1>2, <1>4, <2>1, <2>2, <2>4, <2>6, <3>1, <3>2, Zenon DEF QuietInv, Shape
    <3> DEFINE op == [ops[x] EXCEPT !.step = "seat"]
    <3>4. op.step = "seat"
      BY <1>1
    <3>5. /\ ops' = [ops EXCEPT ![x] = op]
          /\ tasks' = Append(tasks, [step |-> "seat", owner |-> x, room |-> made'])
      BY <1>4, <2>6 DEF Goto
    <3> HIDE DEF op
    <3> PICK new : new = op
      OBVIOUS
    <3>6. Paid(x, BuyIn)' /\ room'.seats[x] = None
      BY <1>2, <1>4, <2>1, <2>4, <2>6, <3>1, Zenon DEF Paid
    <3>7. Stage(x, new)'
      BY <3>4, <3>6, Zenon DEF Stage
    <3>8. [step |-> "seat", owner |-> x, room |-> made'].room = made'
      BY Zenon
    <3>9. QED
      BY <1>1, <2>1, <3>3, <3>4, <3>5, <3>7, <3>8, GoesOnQuiet, ZenonT(30) DEF QuietInv
  <2>7. CASE result[1] = store /\ ~Succeeds(result)
    <3>1. Agreed'
      BY <1>4, <2>1, <2>7, SMTT(20) DEF Agreed, Idle, Playing
    <3>2. Shape' /\ store'.keys = {}
      BY <1>1, <1>2, <1>4, <2>1, <2>2, <2>7, Zenon DEF QuietInv, Shape
    <3>3. QED
      BY <1>1, <1>4, <2>7, <3>1, <3>2, EndsQuiet
  <2>8. QED
    BY <2>5, <2>6, <2>7, QuietOutcome, ZenonT(30)
<1>5. QED
  BY <1>3, <1>4, SMTT(20) DEF Reserve, Quiet

\* beginHand: the store catches up with the hand the room began.
LEMMA BeginQuiet ==
  ASSUME Quiet, QuietInv, GuardInv', UNCHANGED setup, NEW x \in Owners, PersistStart(x)
  PROVE  QuietInv'
<1>1. /\ IsQueue(tasks) /\ Free(tasks) /\ ops[x].step = "begin" /\ Stage(x, ops[x])
      /\ DOMAIN store = StoreFields /\ store.keys = {}
  BY InStorageQuiet, SMTT(20) DEF PersistStart, RoomSteps
<1>2. Begun /\ ops[x].hand = room.hand /\ ops[x].start = room.start /\ UNCHANGED <<room, made, refunds>>
  BY <1>1, ZenonT(30) DEF Stage, PersistStart, Call
<1>3. PICK result \in BeginHand(room.hand, room.start) :
        /\ store' = result[1]
        /\ Succeeds(result) => ThenSnapshot(x, "snapshot_and_arm", tasks)
  BY <1>2, SMTT(20) DEF PersistStart, Call
<1> DEFINE after == [store EXCEPT !.status = "playing", !.hands[room.hand] = "playing"]
<1>4. /\ room.hand \in 1 .. MaxHands /\ IsRow(store.hands, 1 .. MaxHands)
      /\ \A u \in DOMAIN room.start : store.seats[u] = room.start[u]
  <2>1. room # NoRoom /\ Running(room) /\ room.seats = store.seats
    BY <1>2 DEF Begun
  <2>2. Shape
    BY Zenon DEF QuietInv
  <2>3. IsRow(store.hands, 1 .. MaxHands) /\ MaxHands \in Nat
    BY <2>2, Zenon DEF Shape
  <2>4. /\ room.hand \in 0 .. MaxHands /\ room.hand > 0
        /\ \A u \in DOMAIN room.start : room.seats[u] = room.start[u]
    BY <2>1, <2>2, Zenon DEF Shape
  <2>5. QED
    BY <2>1, <2>3, <2>4
<1>5. /\ after.status = "playing" /\ after.hands = [store.hands EXCEPT ![room.hand] = "playing"]
      /\ after.seats = store.seats /\ after.keys = {}
  BY <1>1 DEF StoreFields
<1>6. result \in Outcomes(TRUE, after)
  BY <1>2, <1>4, Zenon DEF BeginHand, Begun
<1> HIDE DEF after
<1>7. store' = after /\ Succeeds(result)
  BY <1>3, <1>6, QuietOutcome, Zenon
<1>8. /\ store'.hands[room.hand] = "playing" /\ IsRow(store'.hands, 1 .. MaxHands)
      /\ \A h \in 1 .. MaxHands : h # room.hand => store'.hands[h] = store.hands[h]
  BY <1>4, <1>5, <1>7, ZenonT(30) DEF IsRow
<1>9. Playing'
  BY <1>2, <1>5, <1>7, <1>8, Zenon DEF Begun, Playing
<1>10. Shape' /\ store'.keys = {}
  <2>1. MaxHands' = MaxHands
    BY SMTT(20) DEF MaxHands
  <2>2. IsRow(store'.seats, Users)
    BY <1>5, <1>7, ZenonT(30) DEF QuietInv, Shape
  <2>3. \A h \in 1 .. MaxHands : h > room.hand => store'.hands[h] = None
    BY <1>2, <1>8 DEF Begun, QuietInv, Shape
  <2>4. QED
    BY <1>2, <1>5, <1>7, <1>8, <2>1, <2>2, <2>3, ZenonT(30) DEF QuietInv, Shape
<1>11. ~Fenced(Task("snapshot_and_arm", x))
  BY DEF Fenced, Task, RoomSteps
<1>12. Finish(x) /\ (tasks' = tasks \/ \E t : tasks' = Append(tasks, t) /\ ~Fenced(t))
  BY <1>3, <1>7, <1>11, SMTT(20) DEF ThenSnapshot
<1>13. QED
  BY <1>1, <1>9, <1>10, <1>12, EndsQuiet, SMTT(20) DEF Agreed

\* A command that goes on to close the table.
LEMMA AbortsNext ==
  ASSUME QuietInv, GuardInv', NEW x \in Owners, IsQueue(tasks), Free(tasks), Abort(x),
         UNCHANGED <<room, made, refunds, store, setup>>
  PROVE  QuietInv'
<1> DEFINE op == [step |-> "abort", room |-> made]
<1>1. op.step = "abort" /\ ops' = [ops EXCEPT ![x] = op] /\ tasks' = tasks
  BY Zenon DEF Abort, Goto, Stay
<1> HIDE DEF op
<1> PICK new : new = op
  OBVIOUS
<1>2. Stage(x, new)'
  BY <1>1, Zenon DEF Stage
<1>3. Shape' /\ store'.keys = {}
  BY SameShape, Zenon
<1>4. QED
  BY <1>1, <1>2, <1>3, GoesOnQuiet, ZenonT(30) DEF QuietInv

\* The rows with one more action are in the same place.
LEMMA AppendedRows ==
  ASSUME Quiet, DOMAIN store = StoreFields, NEW row, NEW result \in AppendAction(row)
  PROVE  /\ result[1].status = store.status /\ result[1].seats = store.seats
         /\ result[1].hands = store.hands /\ result[1].keys = store.keys
         /\ Succeeds(result) \/ result[1] = store
<1> DEFINE after == [store EXCEPT !.log = @ \cup {row}]
<1>1. /\ after.status = store.status /\ after.seats = store.seats
      /\ after.hands = store.hands /\ after.keys = store.keys
  BY DEF StoreFields
<1> HIDE DEF after
<1>2. \E accepted : result \in Outcomes(accepted, store) \/ result \in Outcomes(accepted, after)
  BY Zenon DEF AppendAction, after
<1>3. QED
  BY <1>1, <1>2, QuietOutcome

\* appendAction: the turn has passed, or the stacks are still to be settled.
LEMMA AppendQuiet ==
  ASSUME Quiet, QuietInv, GuardInv', UNCHANGED setup, NEW x \in Owners, PersistAction(x)
  PROVE  QuietInv'
<1>1. /\ IsQueue(tasks) /\ Free(tasks) /\ ops[x].step = "append" /\ Stage(x, ops[x])
      /\ DOMAIN store = StoreFields /\ store.keys = {} /\ UNCHANGED <<room, made, refunds>>
  BY InStorageQuiet DEF PersistAction, RoomSteps, Call
<1>2. IF ops[x].ends = <<>> THEN Playing ELSE Ended(ops[x])
  BY <1>1, Zenon DEF Stage
<1>3. PICK result \in AppendAction(ops[x].row) :
        /\ store' = result[1]
        /\ IF Succeeds(result)
           THEN IF ops[x].ends = <<>> THEN Played(x)
                ELSE Goto(x, [ops[x] EXCEPT !.step = "settle"]) /\ Stay
           ELSE Abort(x)
  BY DEF PersistAction, Call
<1>4. /\ store'.status = store.status /\ store'.seats = store.seats
      /\ store'.hands = store.hands /\ store'.keys = store.keys
      /\ Succeeds(result) \/ store' = store
  BY <1>1, <1>3, AppendedRows, SMTT(20)
<1>5. Shape' /\ store'.keys = {}
  BY <1>1, <1>4, ZenonT(30) DEF QuietInv, Shape, MaxHands
<1>6. CASE Succeeds(result) /\ ops[x].ends = <<>>
  <2>1. Playing'
    BY <1>1, <1>2, <1>4, <1>6, ZenonT(30) DEF Playing
  <2>2. Finish(x) /\ tasks' = tasks
    BY <1>3, <1>6, SMTT(20) DEF Played
  <2>3. QED
    BY <1>1, <1>5, <2>1, <2>2, EndsQuiet, ZenonT(30) DEF Agreed
<1>7. CASE Succeeds(result) /\ ops[x].ends # <<>>
  <2> DEFINE op == [ops[x] EXCEPT !.step = "settle"]
  <2>1. ops' = [ops EXCEPT ![x] = op] /\ tasks' = tasks
    BY <1>3, <1>7, SMTT(20) DEF Goto, Stay
  <2>2. {"step", "row", "start", "ends", "actor"} \subseteq DOMAIN ops[x]
    BY <1>2, <1>7, Zenon DEF Ended
  <2>3. /\ op.step = "settle" /\ op.row = ops[x].row /\ op.start = ops[x].start
        /\ op.ends = ops[x].ends /\ DOMAIN op = DOMAIN ops[x]
    BY <2>2
  <2> HIDE DEF op
  <2> PICK new : new = op
    BY SMTT(20)
  <2>4. Ended(new)'
    BY <1>1, <1>2, <1>4, <1>7, <2>3, ZenonT(30) DEF Ended
  <2>5. Stage(x, new)'
    BY <2>3, <2>4, Zenon DEF Stage
  <2>6. QED
    BY <1>1, <1>5, <2>1, <2>3, <2>5, GoesOnQuiet, ZenonT(30) DEF QuietInv
<1>8. CASE ~Succeeds(result)
  BY <1>1, <1>3, <1>4, <1>8, AbortsNext, SMTT(20)
<1>9. QED
  BY <1>6, <1>7, <1>8

\* settleHand: the store takes the stacks the room has settled.
LEMMA SettleQuiet ==
  ASSUME Quiet, QuietInv, GuardInv', UNCHANGED setup, NEW x \in Owners, PersistSettlement(x)
  PROVE  QuietInv'
<1> DEFINE op == ops[x]
           seats == [u \in Users |-> IF u \in DOMAIN op.ends THEN op.ends[u] ELSE store.seats[u]]
           after == [store EXCEPT !.status = "waiting", !.hands[op.row.hand] = "settled",
           !.seats = seats]
<1>1. /\ IsQueue(tasks) /\ Free(tasks) /\ op.step = "settle" /\ Stage(x, op)
      /\ DOMAIN store = StoreFields /\ store.keys = {} /\ UNCHANGED <<room, made, refunds>>
  BY InStorageQuiet, ZenonT(30) DEF PersistSettlement, RoomSteps, Call
<1>2. Ended(op)
  BY <1>1, Zenon DEF Stage
<1>3. PICK result \in SettleHand(op.row.hand, op.start, op.ends) :
        store' = result[1] /\ (IF Succeeds(result) THEN Played(x) ELSE Abort(x))
  BY SMTT(20) DEF PersistSettlement, Call
<1>4. \E accepted : result \in Outcomes(accepted, after)
  BY <1>3, ZenonT(30) DEF SettleHand
<1>5. seats = room.seats
  BY <1>2, Zenon DEF Ended, QuietInv, Shape, IsRow
<1> HIDE DEF seats
<1>6. /\ after.status = "waiting" /\ after.seats = seats /\ after.keys = {}
      /\ after.hands = [store.hands EXCEPT ![op.row.hand] = "settled"]
  BY <1>1, SMTT(20) DEF StoreFields
<1> HIDE DEF after
<1>7. CASE store' = after /\ Succeeds(result)
  <2>1. Idle'
    BY <1>1, <1>2, <1>5, <1>6, <1>7, ZenonT(30) DEF Idle, Ended
  <2>2. /\ IsRow(store'.hands, 1 .. MaxHands)
        /\ \A h \in 1 .. MaxHands : h > room.hand => store'.hands[h] = store.hands[h]
    <3>1. store'.hands = [store.hands EXCEPT ![room.hand] = "settled"] /\ room # NoRoom /\ room.hand > 0
      BY <1>2, <1>6, <1>7, SMTT(20) DEF Ended
    <3>2. MaxHands \in Nat /\ room.hand \in 0 .. MaxHands /\ IsRow(store.hands, 1 .. MaxHands)
      BY <3>1, Zenon DEF QuietInv, Shape
    <3>3. room.hand \in 1 .. MaxHands
      BY <3>1, <3>2
    <3>4. /\ IsRow(store'.hands, 1 .. MaxHands)
          /\ \A h \in 1 .. MaxHands : h # room.hand => store'.hands[h] = store.hands[h]
      <4> PICK S, f, g, n : S = 1 .. MaxHands /\ f = store.hands /\ g = store'.hands /\ n = room.hand
        OBVIOUS
      <4>1. IsRow(f, S) /\ n \in S /\ g = [f EXCEPT ![n] = "settled"]
        BY <3>1, <3>2, <3>3, Zenon
      <4>2. IsRow(g, S) /\ \A h \in S : h # n => g[h] = f[h]
        BY <4>1, Zenon DEF IsRow
      <4>3. QED
        BY <4>2, Zenon
    <3>5. QED
      BY <3>3, <3>4, SMTT(20)
  <2>3. Shape' /\ store'.keys = {}
    <3>1. MaxHands' = MaxHands
      BY DEF MaxHands
    <3>2. QED
      BY <1>1, <1>2, <1>5, <1>6, <1>7, <2>2, <3>1, ZenonT(30) DEF QuietInv, Shape, Ended
  <2>4. Finish(x) /\ tasks' = tasks
    BY <1>3, <1>7, SMTT(20) DEF Played
  <2>5. QED
    BY <1>1, <2>1, <2>3, <2>4, EndsQuiet, ZenonT(30) DEF Agreed
<1>8. CASE store' = store /\ ~Succeeds(result)
  BY <1>1, <1>3, <1>8, AbortsNext, SMTT(20)
<1>9. QED
  BY <1>3, <1>4, <1>7, <1>8, QuietOutcome, SMTT(20)

\* A table that is closed is refunded at once.
LEMMA AbortQuiet ==
  ASSUME Quiet, QuietInv, GuardInv', UNCHANGED setup, NEW x \in Owners, AbortTable(x)
  PROVE  QuietInv'
<1>1. /\ IsQueue(tasks) /\ Free(tasks) /\ DOMAIN store = StoreFields /\ store.keys = {}
      /\ Finish(x) /\ tasks' = tasks /\ UNCHANGED made
  BY InStorageQuiet, Zenon DEF AbortTable, RoomSteps
<1>2. PICK result \in AbortTableAndRefund :
        /\ store' = result[1] /\ room' = NoRoom
        /\ refunds' = refunds \cup (IF Succeeds(result) THEN {}
                                    ELSE {[room |-> made, attempt |-> 1, at |-> "timer"]})
  BY Zenon DEF AbortTable, AbortTableAndNotify
<1> DEFINE seats == [u \in Users |-> None]
           hands == [h \in DOMAIN store.hands |-> IF store.hands[h] = "playing" THEN "aborted"
                                                  ELSE store.hands[h]]
           after == [store EXCEPT !.status = "aborted", !.seats = seats, !.hands = hands]
<1>3. \/ store.status = "aborted" /\ result \in Outcomes(TRUE, store)
      \/ result \in Outcomes(TRUE, after)
  BY <1>2, Zenon DEF AbortTableAndRefund
<1>4. IsRow(seats, Users) /\ IsRow(hands, 1 .. MaxHands)
  BY Zenon DEF IsRow, QuietInv, Shape
<1> HIDE DEF seats, hands
<1>5. after.status = "aborted" /\ after.seats = seats /\ after.hands = hands /\ after.keys = {}
  BY <1>1 DEF StoreFields
<1> HIDE DEF after
<1>6. Succeeds(result) /\ ((store.status = "aborted" /\ store' = store) \/ store' = after)
  BY <1>2, <1>3, QuietOutcome, ZenonT(30)
<1>7. /\ store'.status = "aborted" /\ store'.keys = {}
      /\ IsRow(store'.seats, Users) /\ IsRow(store'.hands, 1 .. MaxHands)
  BY <1>1, <1>4, <1>5, <1>6, Zenon DEF QuietInv, Shape
<1>8. Gone'
  BY <1>2, <1>7, SMTT(20) DEF Gone
<1>9. Shape'
  <2>1. MaxHands' = MaxHands /\ refunds' = {}
    BY <1>2, <1>6, ZenonT(30) DEF MaxHands, QuietInv, Shape
  <2>2. QED
    BY <1>1, <1>2, <1>7, <2>1, ZenonT(30) DEF QuietInv, Shape
<1>10. QED
  BY <1>1, <1>7, <1>8, <1>9, EndsQuiet, Zenon DEF Agreed

\* cashOut pays a player whom the room then removes.
LEMMA CashQuiet ==
  ASSUME Quiet, QuietInv, GuardInv', UNCHANGED setup, NEW x \in Owners, PersistLeave(x)
  PROVE  QuietInv'
<1>1. /\ IsQueue(tasks) /\ Free(tasks) /\ ops[x].step = "cash" /\ Stage(x, ops[x])
      /\ "step" \in DOMAIN ops[x] /\ DOMAIN store = StoreFields /\ store.keys = {}
      /\ UNCHANGED <<room, made, refunds>>
  BY InStorageQuiet DEF PersistLeave, RoomSteps, Call
<1>2. Idle /\ x \in Users /\ ops[x].request = Fresh
  <2>1. Idle /\ x \in Users /\ Asked("cash", ops[x])
    BY <1>1, Zenon DEF Stage
  <2>2. QED
    BY <2>1, AskedFresh
<1>3. PICK result \in CashOut(x, "cash", Fresh) :
        /\ store' = result[1]
        /\ IF Succeeds(result)
           THEN /\ Goto(x, [ops[x] EXCEPT !.step = "remove"])
                /\ tasks' = Append(tasks, Task("remove", x))
           ELSE Done(x)
  BY <1>2, SMTT(20) DEF PersistLeave, Call, Quiet
<1> DEFINE key == <<"cash", x, Fresh>>
           after == [store EXCEPT !.seats[x] = None, !.keys = Remember(key)]
<1>4. Remember(key) = {}
  BY <1>1, Zenon DEF Remember
<1>5. /\ after.seats = [store.seats EXCEPT ![x] = None] /\ after.keys = {}
      /\ after.hands = store.hands /\ after.status = store.status
  BY <1>1, <1>4 DEF StoreFields
<1>6. result \in Outcomes(store.status = "waiting" /\ x \in Seated, after)
  BY <1>1, <1>3, SMTT(20) DEF CashOut
<1> HIDE DEF after
<1>7. CASE x \in Seated /\ store' = after /\ Succeeds(result)
  <2>1. Paid(x, None)' /\ room'.seats[x] # None /\ room' # NoRoom
    BY <1>1, <1>2, <1>5, <1>7, ZenonT(30) DEF Idle, Paid, Seated
  <2>2. IsRow(store'.seats, Users)
    BY <1>2, <1>5, <1>7, ZenonT(30) DEF IsRow, QuietInv, Shape
  <2>3. Shape' /\ store'.keys = {}
    BY <1>1, <1>5, <1>7, <2>2, ZenonT(30) DEF QuietInv, Shape, MaxHands
  <2> DEFINE op == [ops[x] EXCEPT !.step = "remove"]
  <2>4. op.step = "remove" /\ ops' = [ops EXCEPT ![x] = op] /\ tasks' = Append(tasks, Task("remove", x))
    BY <1>1, <1>3, <1>7 DEF Goto
  <2> HIDE DEF op
  <2> PICK new : new = op
    BY SMTT(20)
  <2>5. Stage(x, new)'
    BY <2>1, <2>4, SMTT(20) DEF Stage
  <2>6. Task("remove", x).room = made'
    BY <1>1, <1>2, ZenonT(30) DEF Task, Idle, QuietInv, Shape
  <2>7. QED
    BY <1>1, <2>1, <2>3, <2>4, <2>5, <2>6, GoesOnQuiet, ZenonT(30) DEF QuietInv
<1>8. CASE store' = store /\ ~Succeeds(result)
  <2>1. Finish(x) /\ tasks' = tasks
    BY <1>3, <1>8, SMTT(20) DEF Done, Stay
  <2>2. Shape' /\ store'.keys = {} /\ Agreed'
    BY <1>1, <1>2, <1>8, SameShape, ZenonT(30) DEF Agreed
  <2>3. QED
    BY <1>1, <2>1, <2>2, EndsQuiet, Zenon
<1>9. QED
  BY <1>3, <1>6, <1>7, <1>8, QuietOutcome, ZenonT(30)

\* A command of a client starts where the room and the rows agree.
LEMMA CommandQuiet ==
  ASSUME RequestIds = {Fresh}, QuietInv, GuardInv', UNCHANGED setup, Command
  PROVE  QuietInv'
<1>1. PICK u \in Users :
        \/ Ready(u) \/ Unready(u)
        \/ \E step \in {"snapshot", "connect_and_arm", "connect"} : Look(u, step)
        \/ \E request \in RequestIds : SitDown(u, request) \/ Action(u, request) \/ LeaveTable(u, request)
  BY DEF Command
<1>2. ASSUME NEW step, Look(u, step) PROVE QuietInv'
  <2>1. ~Fenced(Task(step, u))
    BY <1>2, SMTT(20) DEF Look, Fenced, Task, RoomSteps
  <2>2. QED
    BY <1>2, <2>1, AsideQuiet, SMTT(20) DEF Look
<1>3. ASSUME NEW step \in {"reserve", "ready", "unready", "act", "unready_to_leave"},
             BeginTableOperation(u, Op(step, Fresh)), UNCHANGED <<room, made, store, refunds>>,
             step = "ready" => room.hand < MaxHands,
             \/ UNCHANGED tasks
             \/ room # NoRoom /\ tasks' = Append(tasks, Task(step, u))
      PROVE  QuietInv'
  <2> DEFINE op == Op(step, Fresh)
  <2>1. op.step = step /\ Asked(step, op)
    BY DEF Op, Asked
  <2>2. ~fence /\ ops' = [ops EXCEPT ![u] = op] /\ u \in Owners
    BY <1>3, SMTT(20) DEF BeginTableOperation, Owners
  <2> HIDE DEF op
  <2>3. Free(tasks) /\ IsQueue(tasks) /\ Agreed
    BY <2>2, Unowned, ZenonT(30) DEF QuietInv, GuardInv, OwnerInv
  <2>4. Shape' /\ store'.keys = {} /\ Agreed'
    BY <1>3, <2>3, SameShape, ZenonT(30)
  <2>5. room # NoRoom => Task(step, u).room = made'
    BY <1>3, Zenon DEF Task, QuietInv, Shape
  <2> PICK new : new = op
    BY SMTT(20)
  <2>6. Stage(u, new)'
    BY <1>3, <2>1, <2>4, PlainStage, SMTT(20) DEF MaxHands
  <2>7. QED
    BY <1>3, <2>1, <2>2, <2>3, <2>4, <2>5, <2>6, GoesOnQuiet, ZenonT(30) DEF QuietInv
<1>4. ASSUME NEW step \in {"ready", "unready", "act", "unready_to_leave"}, AskRoom(u, step, Fresh),
             step = "ready" => room.hand < MaxHands
      PROVE  QuietInv'
  BY <1>3, <1>4 DEF AskRoom, MayPost
<1>5. ASSUME SitDown(u, Fresh) PROVE QuietInv'
  BY <1>3, <1>5 DEF SitDown
<1>6. QED
  BY <1>1, <1>2, <1>4, <1>5, SMTT(20) DEF Ready, Unready, Action, LeaveTable

\* Every step of a quiet table keeps the invariant.
LEMMA QuietKept ==
  ASSUME RequestIds = {Fresh}, Quiet, QuietInv, [Next]_<<vars, setup>>
  PROVE  QuietInv'
<1>1. GuardInv'
  BY GuardKept DEF QuietInv
<1>2. CASE UNCHANGED <<vars, setup>>
  BY <1>1, <1>2, AsideQuiet, SMTT(20) DEF vars
<1>3. ASSUME NEW t \in timers, TimerFires(t), UNCHANGED setup PROVE QuietInv'
  <2>1. UNCHANGED <<room, made, store, refunds, fence, ops>>
    BY <1>3, Zenon DEF TimerFires
  <2>2. ASSUME NEW actor, NEW id, NEW sequence
        PROVE  ~Fenced([step |-> "check_timer", owner |-> actor, room |-> id, sequence |-> sequence])
    BY DEF Fenced, RoomSteps
  <2>3. tasks' = tasks \/ \E task : tasks' = Append(tasks, task) /\ ~Fenced(task)
    BY <1>3, <2>2, SMTT(20) DEF TimerFires
  <2>4. QED
    BY <1>1, <1>3, <2>1, <2>3, AsideQuiet, SMTT(20)
<1>4. ASSUME NEW x \in Owners, StorageTask(x), UNCHANGED setup PROVE QuietInv'
  <2>1. ~InStorage(x, "refused") /\ ~InStorage(x, "rollback")
    <3>1. ASSUME NEW step \in {"refused", "rollback"}, InStorage(x, step) PROVE FALSE
      BY <3>1, InStorageQuiet, ZenonT(30) DEF RoomSteps, Stage
    <3>2. QED
      BY <3>1, SMTT(20)
  <2>2. QED
    BY <1>1, <1>4, <2>1, ReserveQuiet, BeginQuiet, AppendQuiet, SettleQuiet,
       AbortQuiet, CashQuiet, Zenon DEF StorageTask, SeatRefused, RollBack
<1>5. ASSUME RoomTask, UNCHANGED setup PROVE QuietInv'
  BY <1>1, <1>5, SeatQuiet, ReadyQuiet, StartQuiet, AuditQuiet, ActQuiet, LeaveQuiet, RemoveQuiet,
     LookQuiet, TimerQuiet DEF RoomTask
<1>6. refunds = {}
  BY Zenon DEF QuietInv, Shape
<1>7. QED
  BY <1>1, <1>2, <1>3, <1>4, <1>5, <1>6, CommandQuiet DEF Next

\* No room is open at the start, and nothing is stored.
LEMMA QuietAtStart == Init => QuietInv
<1> SUFFICES ASSUME Init PROVE QuietInv
  BY SMTT(20)
<1>1. GuardInv /\ ~fence /\ \A x \in Owners : ~Busy(x)
  BY GuardAtStart, ZenonT(30) DEF Init, Busy, NoOp
<1>2. MaxHands \in Nat
  BY ServiceAssumption, SMTT(20) DEF Init, MaxHands
<1>3. Shape /\ store.keys = {} /\ Unused
  BY <1>2, ZenonT(30) DEF Init, Shape, Unused, IsRow
<1>4. QueueIsOpen
  BY DEF Init, QueueIsOpen
<1>5. QED
  BY <1>1, <1>3, <1>4, Zenon DEF QuietInv, Agreed

\* At a table where nothing fails and requests are new, the room and the database
\* agree whenever no command is under way, for any number of users, hands and
\* sequences and any interleaving of commands, timers and storage threads
\* (protocol_service.cpp:757-1134).
THEOREM RoomAlwaysMatches ==
  ASSUME RequestIds = {Fresh} PROVE Spec => []RoomMatchesStore
<1> DEFINE Inv == Quiet => QuietInv
<1>1. Init => Inv
  BY QuietAtStart, SMTT(20)
<1>2. Inv /\ [Next]_<<vars, setup>> => Inv'
  <2>1. [Next]_<<vars, setup>> => UNCHANGED setup
    BY DEF Next
  <2>2. UNCHANGED setup => (Quiet' <=> Quiet)
    BY SMTT(20) DEF Quiet, StoreFails, QueuesFill, BlindsSettle
  <2>3. QED
    BY <2>1, <2>2, QuietKept, SMTT(20)
<1>3. Inv => RoomMatchesStore
  <2> SUFFICES ASSUME Inv, ~(fence \/ StoreFails \/ QueuesFill \/ BlindsSettle)
               PROVE  /\ room # NoRoom => room.seats = store.seats
                      /\ (room # NoRoom /\ Running(room)) <=> store.status = "playing"
                      /\ (room # NoRoom /\ Running(room)) => store.hands[room.hand] = "playing"
    BY DEF RoomMatchesStore
  <2>1. Agreed
    BY Zenon DEF Quiet, QuietInv
  <2>2. QED
    BY <2>1, ZenonT(30) DEF Agreed, Idle, Playing, Unused, Gone
<1> HIDE DEF Inv
<1>4. QED
  BY <1>1, <1>2, <1>3, PTL DEF Spec
=============================================================================
