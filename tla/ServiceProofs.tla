--------------------------- MODULE ServiceProofs ----------------------------
(***************************************************************************)
(* For any number of users and any failures: the fence of a table stands   *)
(* exactly while one command owns it, and no more than the newest action   *)
(* is missing from the log, while its command holds the fence; a room that *)
(* was closed has its chips refunded, or a retry of the refund is due; and *)
(* a hand that is open in the database is being played, finished or        *)
(* refunded.                                                               *)
(*                                                                         *)
(* FenceHasOneOwner says nothing of the tasks that are queued, and a task  *)
(* gives the fence back without asking whose it is.  OwnerInv adds that a  *)
(* queued task which may do so belongs to the command that holds the       *)
(* fence and has come to just this step, and that there is only one.       *)
(*                                                                         *)
(* FenceGuardsLog does not say which command answers for the action that   *)
(* is missing.  GuardInv adds that it is appending just this action, or    *)
(* about to close the room, and that a room numbers its actions upwards.   *)
(*                                                                         *)
(* RefundInv rests on GuardInv for the number of a room, and adds what the *)
(* record of a refund holds.                                               *)
(*                                                                         *)
(* PlayInv says who finishes an open hand that its room plays no more: the *)
(* command that holds the fence is about to settle it or to close the      *)
(* table.                                                                  *)
(***************************************************************************)
EXTENDS TableService, TLAPS

\* The tasks of a room that belong to a command with the fence.
RoomSteps ==
  {"seat", "seated", "ready", "unready", "start", "audit", "act", "unready_to_leave",
   "remove", "timeout"}

Fenced(task) == task.step \in RoomSteps

IsQueue(q) == \E S : q \in Seq(S)

\* No task of the queue belongs to a command.
Free(q) == \A i \in 1 .. Len(q) : ~Fenced(q[i])

OwnerInv ==
  /\ IsQueue(tasks) /\ fence \in BOOLEAN
  /\ DOMAIN ops = Owners /\ \A x \in Owners : "step" \in DOMAIN ops[x]
  /\ fence <=> \E x \in Owners : Busy(x)
  /\ \A x, y \in Owners : Busy(x) /\ Busy(y) => x = y
  /\ \A i \in 1 .. Len(tasks) :
       Fenced(tasks[i]) => /\ tasks[i].owner \in Owners
                           /\ ops[tasks[i].owner].step = tasks[i].step
  /\ \A i, j \in 1 .. Len(tasks) : Fenced(tasks[i]) /\ Fenced(tasks[j]) => i = j

\* The command of x goes on as op, or ends if that is NoOp; the queue becomes q,
\* perhaps with a task for x's next step or one that belongs to no command.
Passes(x, q) ==
  \E op :
    /\ "step" \in DOMAIN op /\ ops' = [ops EXCEPT ![x] = op]
    /\ fence' \in BOOLEAN /\ (fence' <=> op.step # "none")
    /\ \/ tasks' = q
       \/ \E t : /\ tasks' = Append(q, t)
                 /\ ~Fenced(t) \/ (t.owner = x /\ t.step = op.step)

-----------------------------------------------------------------------------
(* Queues. *)

\* A task posted at the end leaves the others in their places.
LEMMA QueueAppend ==
  ASSUME NEW q, IsQueue(q), NEW t
  PROVE  /\ IsQueue(Append(q, t)) /\ Len(Append(q, t)) = Len(q) + 1 /\ Len(q) \in Nat
         /\ \A i \in 1 .. Len(q) : Append(q, t)[i] = q[i]
         /\ Append(q, t)[Len(q) + 1] = t
<1>1. PICK S : q \in Seq(S)
  BY DEF IsQueue
<1>2. q \in Seq(S \cup {t})
  BY <1>1
<1>3. Append(q, t) \in Seq(S \cup {t})
  BY <1>2
<1>4. QED
  BY <1>2, <1>3 DEF IsQueue

\* Taking the first task moves the others up.
LEMMA QueueTail ==
  ASSUME NEW q, IsQueue(q), q # <<>>
  PROVE  /\ IsQueue(Tail(q)) /\ Len(q) \in Nat /\ Len(Tail(q)) = Len(q) - 1
         /\ Len(q) >= 1 /\ Head(q) = q[1]
         /\ \A i \in 1 .. Len(q) - 1 : Tail(q)[i] = q[i + 1]
BY DEF IsQueue

\* A step that leaves all commands alone and takes or adds a task of none.
LEMMA Aside ==
  ASSUME OwnerInv, UNCHANGED <<fence, ops>>,
         \/ tasks' = tasks
         \/ tasks # <<>> /\ tasks' = Tail(tasks)
         \/ \E t : tasks' = Append(tasks, t) /\ ~Fenced(t)
  PROVE  OwnerInv'
<1>1. CASE tasks' = tasks
  BY <1>1 DEF OwnerInv, Busy
<1>2. CASE tasks # <<>> /\ tasks' = Tail(tasks)
  BY <1>2, QueueTail DEF OwnerInv, Busy
<1>3. CASE \E t : tasks' = Append(tasks, t) /\ ~Fenced(t)
  BY <1>3, QueueAppend DEF OwnerInv, Busy
<1>4. QED
  BY <1>1, <1>2, <1>3

\* A step of the only command there is.
LEMMA Handover ==
  ASSUME OwnerInv, NEW x \in Owners, \A y \in Owners : Busy(y) => y = x,
         NEW q, IsQueue(q), Free(q), Passes(x, q)
  PROVE  OwnerInv'
<1>1. PICK op :
        /\ "step" \in DOMAIN op /\ ops' = [ops EXCEPT ![x] = op]
        /\ fence' \in BOOLEAN /\ (fence' <=> op.step # "none")
        /\ \/ tasks' = q
           \/ \E t : /\ tasks' = Append(q, t)
                     /\ ~Fenced(t) \/ (t.owner = x /\ t.step = op.step)
  BY Zenon DEF Passes
<1>2. /\ DOMAIN ops' = Owners /\ ops'[x] = op /\ \A y \in Owners \ {x} : ops'[y] = ops[y]
  BY <1>1 DEF OwnerInv
<1>3. \A y \in Owners : Busy(y)' => y = x
  BY <1>2 DEF Busy
<1>4. fence' <=> Busy(x)'
  BY <1>1, <1>2 DEF Busy
<1>5. /\ IsQueue(tasks')
      /\ \A i \in 1 .. Len(tasks') : Fenced(tasks'[i]) =>
           i = Len(q) + 1 /\ tasks'[i].owner = x /\ tasks'[i].step = op.step
  <2>1. CASE tasks' = q
    BY <2>1 DEF Free
  <2>2. ASSUME NEW t, tasks' = Append(q, t), ~Fenced(t) \/ (t.owner = x /\ t.step = op.step)
        PROVE  <1>5
    <3>1. /\ IsQueue(tasks') /\ Len(tasks') = Len(q) + 1 /\ Len(q) \in Nat
          /\ \A i \in 1 .. Len(q) : tasks'[i] = q[i]
          /\ tasks'[Len(q) + 1] = t
      BY <2>2, QueueAppend
    <3>2. QED
      BY <2>2, <3>1 DEF Free
  <2>3. QED
    BY <1>1, <2>1, <2>2
<1>6. QED
  BY <1>1, <1>2, <1>3, <1>4, <1>5 DEF OwnerInv

-----------------------------------------------------------------------------
(* Who may take such a step. *)

\* Without the fence nobody is busy, and no task is queued for anybody.
LEMMA Unowned ==
  ASSUME OwnerInv, ~fence
  PROVE  Free(tasks) /\ \A x \in Owners : ~Busy(x)
BY DEF OwnerInv, Free, Fenced, RoomSteps, Busy

\* The first task of the queue, if it is a command's.
LEMMA AtHead ==
  ASSUME OwnerInv, NEW step \in RoomSteps, Due(step)
  PROVE  /\ Who \in Owners /\ ops[Who].step = step /\ Busy(Who) /\ fence
         /\ \A y \in Owners : Busy(y) => y = Who
         /\ IsQueue(Tail(tasks)) /\ Free(Tail(tasks))
<1>1. tasks # <<>> /\ Head(tasks).step = step
  BY DEF Due
<1>2. /\ IsQueue(Tail(tasks)) /\ Len(tasks) \in Nat /\ Len(Tail(tasks)) = Len(tasks) - 1
      /\ Len(tasks) >= 1 /\ Head(tasks) = tasks[1]
      /\ \A i \in 1 .. Len(tasks) - 1 : Tail(tasks)[i] = tasks[i + 1]
  BY <1>1, QueueTail DEF OwnerInv
<1>3. Fenced(tasks[1]) /\ 1 \in 1 .. Len(tasks)
  BY <1>1, <1>2 DEF Fenced
<1>4. Who \in Owners /\ ops[Who].step = step
  BY <1>1, <1>2, <1>3 DEF OwnerInv, Who
<1>5. Busy(Who)
  BY <1>4 DEF Busy, RoomSteps
<1>6. Free(Tail(tasks))
  BY <1>2, <1>3 DEF OwnerInv, Free
<1>7. QED
  BY <1>2, <1>4, <1>5, <1>6 DEF OwnerInv

\* A command that a storage thread works on has no task in the queue.
LEMMA AtStorage ==
  ASSUME OwnerInv, NEW x \in Owners, NEW step, InStorage(x, step),
         step \notin RoomSteps \cup {"none"}
  PROVE  /\ Busy(x) /\ fence /\ \A y \in Owners : Busy(y) => y = x
         /\ IsQueue(tasks) /\ Free(tasks)
<1>1. Busy(x)
  BY DEF InStorage, Busy
<1>2. \A y \in Owners : Busy(y) => y = x
  BY <1>1 DEF OwnerInv
<1>3. ASSUME NEW i \in 1 .. Len(tasks), Fenced(tasks[i]) PROVE FALSE
  <2>1. tasks[i].owner \in Owners /\ ops[tasks[i].owner].step \in RoomSteps
    BY <1>3 DEF OwnerInv, Fenced
  <2>2. Busy(tasks[i].owner)
    BY <2>1 DEF Busy, RoomSteps
  <2>3. QED
    BY <1>2, <2>1, <2>2 DEF InStorage
<1>4. QED
  BY <1>1, <1>2, <1>3 DEF OwnerInv, Free

\* finishTableOperation ends the command that calls it.
LEMMA Ends ==
  ASSUME NEW x, NEW q, Finish(x),
         tasks' = q \/ \E t : tasks' = Append(q, t) /\ ~Fenced(t)
  PROVE  Passes(x, q)
<1>1. "step" \in DOMAIN NoOp /\ NoOp.step = "none"
  BY DEF NoOp
<1>2. ops' = [ops EXCEPT ![x] = NoOp] /\ fence' = FALSE
  BY DEF Finish
<1>3. QED
  BY <1>1, <1>2, Zenon DEF Passes

\* A command that holds the fence keeps it for its next step.
LEMMA GoesOn ==
  ASSUME NEW x, NEW q, NEW op, fence, Goto(x, op), "step" \in DOMAIN op, op.step # "none",
         \/ tasks' = q
         \/ \E t : tasks' = Append(q, t) /\ t.owner = x /\ t.step = op.step
  PROVE  Passes(x, q)
<1>1. ops' = [ops EXCEPT ![x] = op] /\ fence' = TRUE
  BY DEF Goto
<1>2. QED
  BY <1>1, Zenon DEF Passes

\* beginTableOperation only starts a command without another.
LEMMA Begins ==
  ASSUME NEW x, NEW q, NEW op, BeginTableOperation(x, op), "step" \in DOMAIN op, op.step # "none",
         \/ tasks' = q
         \/ \E t : tasks' = Append(q, t) /\ t.owner = x /\ t.step = op.step
  PROVE  Passes(x, q) /\ ~fence
<1>1. ops' = [ops EXCEPT ![x] = op] /\ fence' = TRUE /\ ~fence
  BY DEF BeginTableOperation
<1>2. QED
  BY <1>1, Zenon DEF Passes

-----------------------------------------------------------------------------
(* What the handlers have in common. *)

\* A reply with an error ends the command.
LEMMA FailsPasses == ASSUME NEW x, Fails(x) PROVE Passes(x, Tail(tasks))
BY Ends, Zenon DEF Fails

\* The command's record with another step.
LEMMA NextStep ==
  ASSUME OwnerInv, NEW x \in Owners, NEW step
  PROVE  /\ "step" \in DOMAIN [ops[x] EXCEPT !.step = step]
         /\ [ops[x] EXCEPT !.step = step].step = step
BY DEF OwnerInv

\* A command posts its next task, or ends if the queue is full.
LEMMA ThenRoomPasses ==
  ASSUME OwnerInv, NEW x \in Owners, fence, NEW step, step # "none", ThenRoom(x, step)
  PROVE  Passes(x, Tail(tasks))
<1> DEFINE op == [ops[x] EXCEPT !.step = step]
<1>1. "step" \in DOMAIN op /\ op.step = step
  BY NextStep
<1> HIDE DEF op
<1>2. CASE Goto(x, op) /\ tasks' = Append(Tail(tasks), Task(step, x))
  <2>1. Task(step, x).owner = x /\ Task(step, x).step = op.step
    BY <1>1 DEF Task
  <2>2. QED
    BY <1>1, <1>2, <2>1, GoesOn, Zenon
<1>3. CASE Finish(x) /\ tasks' = Tail(tasks)
  BY <1>3, Ends, Zenon
<1>4. QED
  BY <1>2, <1>3 DEF ThenRoom, op

\* The snapshot that is posted at the end belongs to no command.
LEMMA ThenSnapshotPasses ==
  ASSUME NEW x, NEW step, step \notin RoomSteps, NEW q, ThenSnapshot(x, step, q)
  PROVE  Passes(x, q)
<1>1. ~Fenced(Task(step, x))
  BY DEF Fenced, Task
<1>2. QED
  BY <1>1, Ends DEF ThenSnapshot

\* A refused seat is cashed out by the same command, or the table is closed.
LEMMA RollBackPasses ==
  ASSUME OwnerInv, NEW x \in Owners, fence, RollBackSeat(x), NEW q, tasks' = q
  PROVE  Passes(x, q)
<1>1. CASE Goto(x, [ops[x] EXCEPT !.step = "rollback"])
  BY <1>1, NextStep, GoesOn
<1>2. CASE Finish(x)
  BY <1>2, Ends
<1>3. QED
  BY <1>1, <1>2, Zenon DEF RollBackSeat

\* An accepted action is stored by the same command, or the table is closed.
LEMMA AcceptPasses ==
  ASSUME NEW x, fence, NEW u, NEW request, Accept(x, u, request)
  PROVE  Passes(x, Tail(tasks))
<1>1. tasks' = Tail(tasks)
  BY DEF Accept
<1>2. ASSUME NEW id, NEW row, NEW actor, NEW start, NEW ends,
             Goto(x, [step |-> "append", room |-> id, row |-> row, actor |-> actor,
                      start |-> start, ends |-> ends])
      PROVE  Passes(x, Tail(tasks))
  BY <1>1, <1>2, GoesOn, Zenon
<1>3. ASSUME Finish(x) PROVE Passes(x, Tail(tasks))
  BY <1>1, <1>3, Ends, Zenon
<1>4. QED
  BY <1>2, <1>3, Zenon DEF Accept
-----------------------------------------------------------------------------
(* The steps. *)

\* Every task of the room that belongs to a command hands it on or ends it
\* (protocol_service.cpp:757-1134).
LEMMA CommandTask ==
  ASSUME OwnerInv,
         \/ SeatPlayer \/ ReplySeated \/ ReadyTask \/ UnreadyTask \/ StartHand \/ AuditStart
         \/ ActTask \/ UnreadyToLeave \/ RemovePlayer \/ OnActionTimeout
  PROVE  OwnerInv'
<1> USE DEF RoomSteps
<1>1. ASSUME NEW step \in RoomSteps, Due(step), Passes(Who, Tail(tasks)) PROVE OwnerInv'
  BY <1>1, AtHead, Handover
<1>2. CASE SeatPlayer
  <2>1. CASE ThenRoom(Who, "seated")
    BY <1>1, <1>2, <2>1, AtHead, ThenRoomPasses DEF SeatPlayer
  <2>2. CASE RollBackSeat(Who) /\ tasks' = Tail(tasks)
    BY <1>1, <1>2, <2>2, AtHead, RollBackPasses, Zenon DEF SeatPlayer
  <2>3. QED
    BY <1>2, <2>1, <2>2 DEF SeatPlayer
<1>3. CASE ReplySeated
  BY <1>1, <1>3, FailsPasses DEF ReplySeated
<1>4. CASE ReadyTask
  BY <1>1, <1>4, AtHead, ThenRoomPasses, FailsPasses, Zenon DEF ReadyTask
<1>5. CASE UnreadyTask
  BY <1>1, <1>5, ThenSnapshotPasses, FailsPasses DEF UnreadyTask
<1>6. CASE StartHand
  BY <1>1, <1>6, AtHead, ThenSnapshotPasses, ThenRoomPasses, FailsPasses DEF StartHand
<1>7. CASE AuditStart
  <2>1. Due("audit") /\ fence
    BY <1>7, AtHead DEF AuditStart
  <2>2. ASSUME NEW id, NEW hand, NEW start, tasks' = Tail(tasks),
               Goto(Who, [step |-> "begin", room |-> id, hand |-> hand, start |-> start])
        PROVE  Passes(Who, Tail(tasks))
    BY <2>1, <2>2, GoesOn, Zenon
  <2>3. QED
    BY <1>1, <1>7, <2>1, <2>2, FailsPasses, Zenon DEF AuditStart
<1>8. CASE ActTask
  BY <1>1, <1>8, AtHead, AcceptPasses, FailsPasses DEF ActTask
<1>9. CASE UnreadyToLeave
  <2>1. Due("unready_to_leave") /\ fence /\ Who \in Owners
    BY <1>9, AtHead DEF UnreadyToLeave
  <2>2. CASE Goto(Who, [ops[Who] EXCEPT !.step = "cash"]) /\ tasks' = Tail(tasks)
    BY <1>1, <2>1, <2>2, NextStep, GoesOn, Zenon
  <2>3. CASE Finish(Who) /\ tasks' = Tail(tasks)
    BY <1>1, <2>1, <2>3, Ends, Zenon
  <2>4. QED
    BY <1>1, <1>9, <2>1, <2>2, <2>3, FailsPasses, Zenon DEF UnreadyToLeave
<1>10. CASE RemovePlayer
  BY <1>1, <1>10, Ends, FailsPasses, Zenon DEF RemovePlayer
<1>11. CASE OnActionTimeout
  BY <1>1, <1>11, AtHead, AcceptPasses, FailsPasses DEF OnActionTimeout
<1>12. QED
  BY <1>2, <1>3, <1>4, <1>5, <1>6, <1>7, <1>8, <1>9, <1>10, <1>11

\* A timer asks for the fence like any command, or is dropped
\* (protocol_service.cpp:1516).
LEMMA TimerTask == ASSUME OwnerInv, CheckTimer PROVE OwnerInv'
<1>1. tasks # <<>> /\ ~Fenced(Head(tasks))
  BY DEF CheckTimer, Due, Fenced, RoomSteps
<1>2. CASE UNCHANGED <<fence, ops>> /\ tasks' = Tail(tasks)
  BY <1>1, <1>2, Aside
<1>3. ASSUME NEW id, NEW actor, NEW sequence,
             BeginTableOperation(Timer, [step |-> "timeout", room |-> id, actor |-> actor,
                                         sequence |-> sequence]),
             tasks' = Append(Tail(tasks), Task("timeout", Timer))
      PROVE  OwnerInv'
  <2>1. Task("timeout", Timer).owner = Timer /\ Task("timeout", Timer).step = "timeout"
    BY DEF Task
  <2>2. Passes(Timer, Tail(tasks)) /\ ~fence
    BY <1>3, <2>1, Begins, Zenon
  <2>3. IsQueue(Tail(tasks)) /\ Free(Tail(tasks))
    BY <1>1, <2>2, Unowned, QueueTail DEF OwnerInv, Free
  <2>4. QED
    BY <2>2, <2>3, Unowned, Handover DEF Owners
<1>4. QED
  BY <1>2, <1>3 DEF CheckTimer

\* Every store call of a command is followed by its next step, by the end of the
\* table or by the end of the command (protocol_service.cpp:800-1130).
LEMMA StorageStep == ASSUME OwnerInv, NEW x \in Owners, StorageTask(x) PROVE OwnerInv'
<1> USE DEF RoomSteps
<1>1. ASSUME NEW step, step \notin RoomSteps \cup {"none"}, InStorage(x, step), Passes(x, tasks)
      PROVE  OwnerInv'
  BY <1>1, AtStorage, Handover
<1>2. ASSUME Done(x) PROVE Passes(x, tasks)
  BY <1>2, Ends DEF Done, Stay
<1>3. ASSUME fence, Abort(x) PROVE Passes(x, tasks)
  BY <1>3, GoesOn DEF Abort, Stay
<1>4. ASSUME fence, Played(x) PROVE Passes(x, tasks)
  BY <1>4, Ends DEF Played
<1>5. CASE Reserve(x)
  <2>1. InStorage(x, "reserve") /\ fence
    BY <1>5, AtStorage DEF Reserve
  <2>2. CASE Finish(x) /\ UNCHANGED tasks
    BY <1>1, <2>1, <2>2, Ends
  <2>3. CASE Goto(x, [ops[x] EXCEPT !.step = "refused"]) /\ UNCHANGED tasks
    BY <1>1, <2>1, <2>3, NextStep, GoesOn
  <2>4. CASE /\ Goto(x, [ops[x] EXCEPT !.step = "seat"])
             /\ tasks' = Append(tasks, [step |-> "seat", owner |-> x, room |-> made'])
    <3>1. [step |-> "seat", owner |-> x, room |-> made'].owner = x
          /\ [step |-> "seat", owner |-> x, room |-> made'].step = "seat"
      OBVIOUS
    <3>2. QED
      BY <1>1, <2>1, <2>4, <3>1, NextStep, GoesOn
  <2>5. QED
    BY <1>5, <2>2, <2>3, <2>4 DEF Reserve
<1>6. CASE SeatRefused(x)
  BY <1>1, <1>6, AtStorage, RollBackPasses DEF SeatRefused
<1>7. CASE RollBack(x)
  BY <1>1, <1>2, <1>3, <1>7, AtStorage DEF RollBack, Call
<1>8. CASE PersistStart(x)
  <2>1. InStorage(x, "begin")
    BY <1>8 DEF PersistStart
  <2>2. ThenSnapshot(x, "snapshot_and_arm", tasks) \/ Done(x)
    BY <1>8 DEF PersistStart, Call
  <2>3. QED
    BY <1>1, <1>2, <2>1, <2>2, ThenSnapshotPasses
<1>9. CASE PersistAction(x)
  <2>1. InStorage(x, "append") /\ fence
    BY <1>9, AtStorage DEF PersistAction
  <2>2. \/ Played(x) \/ Abort(x)
        \/ Goto(x, [ops[x] EXCEPT !.step = "settle"]) /\ Stay
    BY <1>9 DEF PersistAction, Call
  <2>3. ASSUME Goto(x, [ops[x] EXCEPT !.step = "settle"]) /\ Stay PROVE Passes(x, tasks)
    BY <2>1, <2>3, NextStep, GoesOn DEF Stay
  <2>4. QED
    BY <1>1, <1>3, <1>4, <2>1, <2>2, <2>3
<1>10. CASE PersistSettlement(x)
  BY <1>1, <1>3, <1>4, <1>10, AtStorage DEF PersistSettlement, Call
<1>11. CASE AbortTable(x)
  BY <1>1, <1>11, Ends DEF AbortTable
<1>12. CASE PersistLeave(x)
  <2>1. InStorage(x, "cash") /\ fence
    BY <1>12, AtStorage DEF PersistLeave
  <2>2. \/ Done(x)
        \/ /\ Goto(x, [ops[x] EXCEPT !.step = "remove"])
           /\ tasks' = Append(tasks, Task("remove", x))
    BY <1>12 DEF PersistLeave, Call
  <2>3. Task("remove", x).owner = x /\ Task("remove", x).step = "remove"
    BY DEF Task
  <2>4. ASSUME Goto(x, [ops[x] EXCEPT !.step = "remove"]), tasks' = Append(tasks, Task("remove", x))
        PROVE  Passes(x, tasks)
    BY <2>1, <2>3, <2>4, NextStep, GoesOn
  <2>5. QED
    BY <1>1, <1>2, <2>1, <2>2, <2>4
<1>13. QED
  BY <1>5, <1>6, <1>7, <1>8, <1>9, <1>10, <1>11, <1>12 DEF StorageTask

\* A new command takes a fence that is free; looks at the table take none
\* (protocol_service.cpp:180-194).
LEMMA CommandArrives == ASSUME OwnerInv, Command PROVE OwnerInv'
<1>1. PICK u \in Users :
        \/ Ready(u) \/ Unready(u)
        \/ \E step \in {"snapshot", "connect_and_arm", "connect"} : Look(u, step)
        \/ \E request \in RequestIds : SitDown(u, request) \/ Action(u, request) \/ LeaveTable(u, request)
  BY DEF Command
<1>2. u \in Owners /\ IsQueue(tasks)
  BY DEF Owners, OwnerInv
<1>3. ASSUME Passes(u, tasks), ~fence PROVE OwnerInv'
  BY <1>2, <1>3, Unowned, Handover
<1>4. ASSUME NEW step \in {"reserve"} \cup RoomSteps, NEW request
      PROVE  "step" \in DOMAIN Op(step, request) /\ Op(step, request).step = step /\ step # "none"
  BY DEF Op, RoomSteps
<1>5. ASSUME NEW step \in RoomSteps, NEW request, AskRoom(u, step, request) PROVE OwnerInv'
  <2>1. Task(step, u).owner = u /\ Task(step, u).step = step
    BY DEF Task
  <2>2. Passes(u, tasks) /\ ~fence
    BY <1>4, <1>5, <2>1, Begins, Zenon DEF AskRoom
  <2>3. QED
    BY <1>3, <2>2
<1>6. ASSUME NEW request, SitDown(u, request) PROVE OwnerInv'
  BY <1>3, <1>4, <1>6, Begins DEF SitDown
<1>7. ASSUME NEW step, Look(u, step) PROVE OwnerInv'
  <2>1. ~Fenced(Task(step, u))
    BY <1>7 DEF Look, Fenced, Task, RoomSteps
  <2>2. QED
    BY <1>7, <2>1, Aside DEF Look
<1>8. QED
  BY <1>1, <1>5, <1>6, <1>7 DEF Ready, Unready, Action, LeaveTable, RoomSteps

\* Every step of the service keeps the invariant.
LEMMA OwnerKept == OwnerInv /\ [Next]_<<vars, setup>> => OwnerInv'
<1> SUFFICES ASSUME OwnerInv, [Next]_<<vars, setup>> PROVE OwnerInv'
  OBVIOUS
<1>1. CASE RoomTask
  <2>1. ASSUME LookTask PROVE OwnerInv'
    BY <2>1, Aside DEF LookTask
  <2>2. QED
    BY <1>1, <2>1, CommandTask, TimerTask DEF RoomTask
<1>2. ASSUME NEW t \in timers, TimerFires(t) PROVE OwnerInv'
  <2>1. UNCHANGED <<fence, ops>>
    BY <1>2 DEF TimerFires
  <2>2. ASSUME NEW actor, NEW id, NEW sequence
        PROVE  ~Fenced([step |-> "check_timer", owner |-> actor, room |-> id, sequence |-> sequence])
    BY DEF Fenced, RoomSteps
  <2>3. QED
    BY <1>2, <2>1, <2>2, Aside DEF TimerFires
<1>3. ASSUME NEW r \in refunds, RefundTimer(r) \/ RetryRefund(r) PROVE OwnerInv'
  BY <1>3, Aside DEF RefundTimer, RetryRefund
<1>4. CASE UNCHANGED <<vars, setup>>
  BY <1>4, Aside DEF vars
<1>5. QED
  BY <1>1, <1>2, <1>3, <1>4, CommandArrives, StorageStep DEF Next

\* No command runs at the start.
LEMMA InitOwned == Init => OwnerInv
<1> SUFFICES ASSUME Init PROVE OwnerInv
  OBVIOUS
<1>1. tasks \in Seq({}) /\ Len(tasks) = 0
  BY DEF Init
<1>2. DOMAIN ops = Owners /\ \A x \in Owners : "step" \in DOMAIN ops[x] /\ ~Busy(x)
  BY DEF Init, Busy, NoOp
<1>3. ~fence /\ fence \in BOOLEAN
  BY Zenon DEF Init
<1>4. QED
  BY <1>1, <1>2, <1>3 DEF OwnerInv, IsQueue

\* Whatever fails and however commands, timers and storage threads interleave, the
\* fence stands exactly while one command owns it: no handler keeps it, and none
\* gives back another's (protocol_service.cpp:180-216).
THEOREM FenceIsOwned == Spec => []FenceHasOneOwner
<1>1. OwnerInv => FenceHasOneOwner
  <2> SUFFICES ASSUME OwnerInv PROVE FenceHasOneOwner
    OBVIOUS
  <2>1. CASE fence
    <3>1. PICK x \in Owners : Busy(x)
      BY <2>1 DEF OwnerInv
    <3>2. {y \in Owners : Busy(y)} = {x}
      BY <3>1 DEF OwnerInv
    <3>3. QED
      BY <2>1, <3>2 DEF FenceHasOneOwner
  <2>2. CASE ~fence
    <3>1. {y \in Owners : Busy(y)} = {}
      BY <2>2 DEF OwnerInv
    <3>2. QED
      BY <2>2, <3>1 DEF FenceHasOneOwner
  <2>3. QED
    BY <2>1, <2>2
<1>2. QED
  BY <1>1, InitOwned, OwnerKept, PTL DEF Spec

-----------------------------------------------------------------------------
(* The log. *)

StoreFields == {"status", "seats", "hands", "log", "keys"}
RoomFields == {"id", "seats", "ready", "sequence", "hand", "start", "actor", "accepted"}

\* The actions a room has accepted are numbered by its own sequence.
Numbered(r) ==
  /\ DOMAIN r = RoomFields /\ r.sequence \in Nat
  /\ \A row \in r.accepted : row.sequence \in Nat /\ row.sequence <= r.sequence

\* An action is missing from the log only while its command appends it, or goes
\* on to close the room because it could not.
Missing ==
  room # NoRoom =>
    \A row \in room.accepted \ store.log :
      /\ \A other \in room.accepted : other.sequence <= row.sequence
      /\ \E x \in Owners : \/ ops[x].step = "append" /\ ops[x].row = row
                           \/ ops[x].step = "abort"

GuardInv ==
  /\ OwnerInv /\ DOMAIN store = StoreFields
  /\ room # NoRoom => Numbered(room)
  /\ Missing

StoreGrows == DOMAIN store' = StoreFields /\ store.log \subseteq store'.log

RoomStays ==
  room' # NoRoom =>
    /\ Numbered(room')
    /\ room'.accepted = {} \/ (room # NoRoom /\ room'.accepted = room.accepted)

Complete == room # NoRoom => room.accepted \subseteq store.log

\* A step that changes neither the accepted actions nor who stores one.
LEMMA NothingAccepted ==
  ASSUME GuardInv, OwnerInv', StoreGrows, RoomStays, UNCHANGED ops \/ Complete
  PROVE  GuardInv'
BY DEF GuardInv, StoreGrows, RoomStays, Complete, Missing

\* Nothing is missing while the fence is free or its owner does something else.
LEMMA NothingMissing ==
  ASSUME GuardInv,
         ~fence \/ \E x \in Owners : Busy(x) /\ ops[x].step \notin {"append", "abort"}
  PROVE  Complete
<1>1. \A y \in Owners : ops[y].step \notin {"append", "abort"}
  BY DEF GuardInv, OwnerInv, Busy
<1>2. QED
  BY <1>1 DEF GuardInv, Missing, Complete

\* A call leaves the rows as they were or makes its own, and makes them if it succeeds.
LEMMA OutcomeRows ==
  ASSUME NEW accepted, NEW after, NEW result \in Outcomes(accepted, after)
  PROVE  result[1] \in {store, after} /\ (Succeeds(result) => result[1] = after)
<1>1. \/ result = <<after, "ok">> \/ result = <<store, "conflict">>
      \/ result = <<store, "unavailable">> \/ result = <<after, "unavailable">>
  BY DEF Outcomes
<1>2. QED
  BY <1>1 DEF Succeeds

\* No call takes rows from the log.
LEMMA CallsKeepLog ==
  ASSUME DOMAIN store = StoreFields, NEW result,
         \/ \E u, request : result \in ReserveBuyIn(u, request)
         \/ \E u, kind, request : result \in CashOut(u, kind, request)
         \/ \E hand, start : result \in BeginHand(hand, start)
         \/ \E hand, start, end : result \in SettleHand(hand, start, end)
         \/ result \in AbortTableAndRefund
  PROVE  DOMAIN result[1] = StoreFields /\ result[1].log = store.log
<1>1. ASSUME NEW accepted, NEW after, result \in Outcomes(accepted, after),
             DOMAIN after = StoreFields, after.log = store.log
      PROVE  DOMAIN result[1] = StoreFields /\ result[1].log = store.log
  BY <1>1, OutcomeRows, SMTT(20)
<1>2. ASSUME NEW u, NEW request, result \in ReserveBuyIn(u, request)
      PROVE  DOMAIN result[1] = StoreFields /\ result[1].log = store.log
  <2> DEFINE after == [store EXCEPT !.seats[u] = BuyIn, !.keys = Remember(<<"buy", u, request>>)]
  <2>1. DOMAIN after = StoreFields /\ after.log = store.log
    BY SMTT(20) DEF StoreFields
  <2> HIDE DEF after
  <2>2. \/ result \in Outcomes(u \in Seated, store)
        \/ result \in Outcomes(store.status = "waiting" /\ u \notin Seated, after)
    BY <1>2, ZenonT(30) DEF ReserveBuyIn, after
  <2>3. QED
    BY <1>1, <2>1, <2>2, Zenon
<1>3. ASSUME NEW u, NEW kind, NEW request, result \in CashOut(u, kind, request)
      PROVE  DOMAIN result[1] = StoreFields /\ result[1].log = store.log
  BY <1>1, <1>3, ZenonT(30) DEF CashOut, StoreFields
<1>4. ASSUME NEW hand, NEW start, result \in BeginHand(hand, start)
      PROVE  DOMAIN result[1] = StoreFields /\ result[1].log = store.log
  BY <1>1, <1>4, ZenonT(30) DEF BeginHand, StoreFields
<1>5. ASSUME NEW hand, NEW start, NEW end, result \in SettleHand(hand, start, end)
      PROVE  DOMAIN result[1] = StoreFields /\ result[1].log = store.log
  BY <1>1, <1>5, Zenon DEF SettleHand, StoreFields
<1>6. ASSUME result \in AbortTableAndRefund
      PROVE  DOMAIN result[1] = StoreFields /\ result[1].log = store.log
  BY <1>1, <1>6, Zenon DEF AbortTableAndRefund, StoreFields
<1>7. QED
  BY <1>2, <1>3, <1>4, <1>5, <1>6, Zenon

\* AppendAction only adds to the log, and has added its row if it succeeds.
LEMMA AppendAdds ==
  ASSUME DOMAIN store = StoreFields, NEW row, NEW result \in AppendAction(row)
  PROVE  /\ DOMAIN result[1] = StoreFields /\ store.log \subseteq result[1].log
         /\ Succeeds(result) => row \in result[1].log
<1> DEFINE after == [store EXCEPT !.log = @ \cup {row}]
<1>1. DOMAIN after = StoreFields /\ after.log = store.log \cup {row}
  BY DEF StoreFields
<1> HIDE DEF after
<1>2. CASE row \in store.log
  <2>1. result \in Outcomes(store.hands[row.hand] = "playing", store)
    BY <1>2 DEF AppendAction
  <2>2. QED
    BY <1>2, <2>1, OutcomeRows
<1>3. CASE row \notin store.log
  <2>1. \E accepted : result \in Outcomes(accepted, after)
    BY <1>3, Zenon DEF AppendAction, after
  <2>2. QED
    BY <1>1, <2>1, OutcomeRows
<1>4. QED
  BY <1>2, <1>3

\* The room r with another state of the game, but the same accepted actions.
Replayed(r, after) ==
  Numbered(after) /\ after.accepted = r.accepted /\ after.sequence >= r.sequence

\* The operations of a room that accept no action leave the accepted ones alone.
LEMMA RoomReplays ==
  ASSUME NEW r, Numbered(r)
  PROVE  /\ \A u, chips : Replayed(r, [r EXCEPT !.seats[u] = chips, !.sequence = @ + 1])
         /\ \A ready : Replayed(r, [r EXCEPT !.ready = ready, !.sequence = @ + 1])
         /\ \A u, ready : Replayed(r, [r EXCEPT !.seats[u] = None, !.ready = ready, !.sequence = @ + 1])
         /\ Replayed(r, [r EXCEPT !.sequence = @ + 1])
BY DEF Numbered, Replayed, RoomFields

\* So does a settlement.
LEMMA SettledReplays == ASSUME NEW r, Numbered(r), NEW end PROVE Replayed(r, Settled(r, end))
<1> DEFINE seats == [u \in Users |-> IF u \in DOMAIN end THEN end[u] ELSE r.seats[u]]
<1>1. Settled(r, end) = [r EXCEPT !.seats = seats, !.actor = None, !.ready = {}, !.sequence = @ + 1]
  BY DEF Settled
<1> HIDE DEF seats
<1>2. QED
  BY <1>1 DEF Numbered, Replayed, RoomFields

\* A hand that starts has accepted nothing yet.
LEMMA StartReplays ==
  ASSUME NEW r, Numbered(r), NEW after \in StartedHands(r)
  PROVE  Replayed(r, after)
<1> DEFINE start == [u \in Dealt(r) |-> r.seats[u]]
           begun == [r EXCEPT !.hand = @ + 1, !.sequence = @ + 1, !.start = start]
<1>1. Replayed(r, begun)
  BY DEF Numbered, Replayed, RoomFields
<1>2. (\E actor : after = [begun EXCEPT !.actor = actor]) \/ (\E end : after = Settled(begun, end))
  BY Zenon DEF StartedHands
<1> HIDE DEF begun
<1>3. Numbered(begun)
  BY <1>1 DEF Replayed
<1>4. Replayed(begun, after)
  <2>1. ASSUME NEW actor, after = [begun EXCEPT !.actor = actor] PROVE Replayed(begun, after)
    BY <1>3, <2>1 DEF Numbered, Replayed, RoomFields
  <2>2. ASSUME NEW end, after = Settled(begun, end) PROVE Replayed(begun, after)
    BY <1>3, <2>2, SettledReplays
  <2>3. QED
    BY <1>2, <2>1, <2>2
<1>5. QED
  BY <1>1, <1>4 DEF Replayed, Numbered

\* An action takes a number of its own.
LEMMA ActionCounts ==
  ASSUME NEW r, Numbered(r), NEW after \in ActedRooms(r)
  PROVE  Replayed(r, after) /\ after.sequence > r.sequence
<1> DEFINE acted == [r EXCEPT !.sequence = @ + 1]
<1>1. Replayed(r, acted) /\ acted.sequence = r.sequence + 1 /\ r.sequence \in Nat
  BY SMTT(20) DEF Numbered, Replayed, RoomFields
<1>2. (\E actor : after = [acted EXCEPT !.actor = actor]) \/ (\E end : after = Settled(acted, end))
  BY Zenon DEF ActedRooms
<1> HIDE DEF acted
<1>3. Numbered(acted)
  BY <1>1 DEF Replayed
<1>4. Replayed(acted, after)
  <2>1. ASSUME NEW actor, after = [acted EXCEPT !.actor = actor] PROVE Replayed(acted, after)
    BY <1>3, <2>1 DEF Numbered, Replayed, RoomFields
  <2>2. ASSUME NEW end, after = Settled(acted, end) PROVE Replayed(acted, after)
    BY <1>3, <2>2, SettledReplays
  <2>3. QED
    BY <1>2, <2>1, <2>2
<1>5. QED
  BY <1>1, <1>4 DEF Replayed, Numbered

\* The table is closed: nothing is left to be missing.
LEMMA ClosingKeeps ==
  ASSUME GuardInv, OwnerInv', NEW attempt_refund, AbortTableAndNotify(attempt_refund)
  PROVE  GuardInv'
<1>1. room' = NoRoom
  BY DEF AbortTableAndNotify
<1>2. PICK result : /\ result \in AbortTableAndRefund \/ result = <<store, "unavailable">>
                    /\ store' = result[1]
  BY DEF AbortTableAndNotify
<1>3. DOMAIN store' = StoreFields
  BY <1>2, CallsKeepLog DEF GuardInv
<1>4. QED
  BY <1>1, <1>3 DEF GuardInv, Missing

\* The action just accepted is the newest and belongs to the command with the fence.
LEMMA AcceptKeeps ==
  ASSUME GuardInv, OwnerInv', Complete, room # NoRoom,
         NEW x \in Owners, NEW u, NEW request, Accept(x, u, request)
  PROVE  GuardInv'
<1>1. CASE AbortTableAndNotify(FALSE)
  BY <1>1, ClosingKeeps, Zenon
<1>2. ASSUME NEW acted \in ActedRooms(room), NEW row, NEW id, NEW actor, NEW start, NEW ends,
             row.sequence = acted.sequence,
             room' = [acted EXCEPT !.accepted = @ \cup {row}], UNCHANGED store,
             Goto(x, [step |-> "append", room |-> id, row |-> row, actor |-> actor,
                      start |-> start, ends |-> ends])
      PROVE  GuardInv'
  <2>1. Numbered(room)
    BY DEF GuardInv
  <2>2. /\ Numbered(acted) /\ acted.accepted = room.accepted
        /\ room.sequence \in Nat /\ acted.sequence \in Nat /\ acted.sequence > room.sequence
    BY <2>1, ActionCounts DEF Replayed, Numbered
  <2>3. /\ room'.accepted = room.accepted \cup {row} /\ room'.sequence = acted.sequence
        /\ DOMAIN room' = RoomFields
    BY <1>2, <2>2 DEF Numbered, RoomFields
  <2>4. \A other \in room'.accepted : other.sequence \in Nat /\ other.sequence <= row.sequence
    BY <1>2, <2>1, <2>2, <2>3 DEF Numbered
  <2>5. ops'[x].step = "append" /\ ops'[x].row = row
    BY <1>2 DEF Goto, GuardInv, OwnerInv
  <2>6. room'.accepted \ store'.log \subseteq {row}
    BY <1>2, <2>3 DEF Complete
  <2>7. Missing'
    BY <2>4, <2>5, <2>6 DEF Missing
  <2>8. Numbered(room')
    BY <1>2, <2>2, <2>3, <2>4 DEF Numbered
  <2>9. QED
    BY <1>2, <2>7, <2>8 DEF GuardInv
<1>3. QED
  <2>1. PICK acted \in ActedRooms(room) :
          LET row == [hand |-> room.hand, sequence |-> acted.sequence, user |-> u, request |-> request]
              ends == IF Running(acted) THEN <<>> ELSE [v \in DOMAIN room.start |-> acted.seats[v]]
          IN \/ /\ room' = [acted EXCEPT !.accepted = @ \cup {row}]
                /\ Goto(x, [step |-> "append", room |-> room.id, row |-> row, actor |-> acted.actor,
                            start |-> room.start, ends |-> ends])
                /\ UNCHANGED <<store, refunds>>
             \/ AbortTableAndNotify(FALSE)
    BY Zenon DEF Accept
  <2> DEFINE row == [hand |-> room.hand, sequence |-> acted.sequence, user |-> u, request |-> request]
  <2>2. row.sequence = acted.sequence
    OBVIOUS
  <2>3. \/ \E ends : /\ room' = [acted EXCEPT !.accepted = @ \cup {row}]
                     /\ Goto(x, [step |-> "append", room |-> room.id, row |-> row,
                                 actor |-> acted.actor, start |-> room.start, ends |-> ends])
                     /\ UNCHANGED store
        \/ AbortTableAndNotify(FALSE)
    BY <2>1, Zenon
  <2> HIDE DEF row
  <2>4. QED
    BY <1>1, <1>2, <2>2, <2>3, Zenon

\* Every other task of the room leaves the log and the accepted actions alone.
LEMMA RoomKeeps ==
  ASSUME GuardInv, OwnerInv', RoomTask
  PROVE  GuardInv'
<1> USE DEF RoomSteps
<1>1. ASSUME NEW step \in RoomSteps, Due(step) PROVE Complete /\ Who \in Owners
  <2>1. Who \in Owners /\ Busy(Who) /\ ops[Who].step = step
    BY <1>1, AtHead DEF GuardInv
  <2>2. QED
    BY <2>1, NothingMissing
<1>2. ASSUME UNCHANGED store, UNCHANGED room \/ (room # NoRoom /\ Replayed(room, room')),
             UNCHANGED ops \/ Complete
      PROVE  GuardInv'
  BY <1>2, NothingAccepted DEF StoreGrows, RoomStays, Replayed, GuardInv
<1>3. ASSUME NEW step \in RoomSteps, Due(step), NEW x, Fails(x) PROVE GuardInv'
  BY <1>1, <1>2, <1>3 DEF Fails
<1>4. room # NoRoom => Numbered(room)
  BY DEF GuardInv
<1>5. CASE SeatPlayer
  <2>1. CASE AbortTableAndNotify(FALSE)
    BY <2>1, ClosingKeeps
  <2>2. CASE UNCHANGED <<room, store>>
    BY <1>1, <1>2, <1>5, <2>2 DEF SeatPlayer
  <2>3. CASE Open /\ room' = [room EXCEPT !.seats[Who] = BuyIn, !.sequence = @ + 1] /\ UNCHANGED store
    <3>1. Replayed(room, room') /\ room # NoRoom
      BY <1>4, <2>3, RoomReplays, Zenon DEF Open
    <3>2. QED
      BY <1>1, <1>2, <1>5, <2>3, <3>1, SMTT(20) DEF SeatPlayer
  <2>4. QED
    BY <1>5, <2>1, <2>2, <2>3, Zenon DEF SeatPlayer, RollBackSeat
<1>6. CASE ReplySeated
  BY <1>3, <1>6 DEF ReplySeated
<1>7. ASSUME NEW step \in RoomSteps, Due(step), NEW ready \in BOOLEAN,
             MaySetReady(ready), SetReady(ready)
      PROVE  GuardInv'
  <2>1. room # NoRoom /\ \E who : room' = [room EXCEPT !.ready = who, !.sequence = @ + 1]
    BY <1>7, ZenonT(30) DEF MaySetReady, SetReady, Open
  <2>2. Replayed(room, room')
    BY <1>4, <2>1, RoomReplays, ZenonT(30)
  <2>3. QED
    BY <1>1, <1>2, <1>7, <2>1, <2>2, SMTT(20) DEF SetReady
<1>8. CASE ReadyTask
  BY <1>3, <1>7, <1>8, Zenon DEF ReadyTask
<1>9. CASE UnreadyTask
  BY <1>3, <1>7, <1>9, Zenon DEF UnreadyTask
<1>10. CASE StartHand
  <2>1. CASE Open /\ room' \in StartedHands(room)
    BY <1>1, <1>2, <1>4, <1>10, <2>1, StartReplays DEF StartHand, Open
  <2>2. CASE UNCHANGED <<room, store>>
    BY <1>1, <1>2, <1>10, <2>2 DEF StartHand
  <2>3. QED
    BY <1>3, <1>10, <2>1, <2>2 DEF StartHand
<1>11. CASE AuditStart
  BY <1>1, <1>2, <1>3, <1>11 DEF AuditStart
<1>12. CASE ActTask
  <2>1. ASSUME Open, Accept(Who, Who, ops[Who].request) PROVE GuardInv'
    BY <1>1, <1>12, <2>1, AcceptKeeps DEF ActTask, Open
  <2>2. QED
    BY <1>3, <1>12, <2>1 DEF ActTask
<1>13. CASE UnreadyToLeave
  BY <1>3, <1>7, <1>13, Zenon DEF UnreadyToLeave
<1>14. CASE RemovePlayer
  <2>1. ASSUME Open, NEW ready, UNCHANGED store,
               room' = [room EXCEPT !.seats[Who] = None, !.ready = ready, !.sequence = @ + 1]
        PROVE  GuardInv'
    <3>1. Replayed(room, room') /\ room # NoRoom
      BY <1>4, <2>1, RoomReplays, ZenonT(30) DEF Open
    <3>2. QED
      BY <1>1, <1>2, <1>14, <2>1, <3>1, SMTT(20) DEF RemovePlayer
  <2>2. QED
    BY <1>3, <1>14, <2>1, Zenon DEF RemovePlayer
<1>15. CASE LookTask
  <2>1. UNCHANGED <<ops, store>>
    BY <1>15 DEF LookTask
  <2>2. \/ UNCHANGED room
        \/ room # NoRoom /\ room' = [room EXCEPT !.sequence = @ + 1]
    BY <1>15 DEF LookTask, Open
  <2>3. QED
    BY <1>2, <1>4, <2>1, <2>2, RoomReplays, Zenon
<1>16. CASE CheckTimer
  <2>1. UNCHANGED <<room, store>>
    BY <1>16 DEF CheckTimer
  <2>2. UNCHANGED ops \/ Complete
    BY <1>16, NothingMissing, Zenon DEF CheckTimer, BeginTableOperation
  <2>3. QED
    BY <1>2, <2>1, <2>2
<1>17. CASE OnActionTimeout
  <2>1. ASSUME Open, Accept(Who, room.actor, Fresh) PROVE GuardInv'
    BY <1>1, <1>17, <2>1, AcceptKeeps, Zenon DEF OnActionTimeout, Open
  <2>2. QED
    BY <1>3, <1>17, <2>1 DEF OnActionTimeout
<1>18. QED
  BY <1>5, <1>6, <1>8, <1>9, <1>10, <1>11, <1>12, <1>13, <1>14, <1>15, <1>16, <1>17 DEF RoomTask

\* The storage threads: an action that could not be stored closes the room
\* before its command gives the fence back (protocol_service.cpp:928-990).
LEMMA StorageKeeps ==
  ASSUME GuardInv, OwnerInv', NEW x \in Owners, StorageTask(x)
  PROVE  GuardInv'
<1>1. ASSUME NEW step, step \notin RoomSteps \cup {"none", "append", "abort"}, InStorage(x, step)
      PROVE  Complete
  <2>1. Busy(x) /\ ops[x].step = step
    BY <1>1, AtStorage DEF GuardInv, InStorage
  <2>2. QED
    BY <1>1, <2>1, NothingMissing
<1>2. ASSUME UNCHANGED room, DOMAIN store' = StoreFields, store.log \subseteq store'.log, Complete
      PROVE  GuardInv'
  BY <1>2, NothingAccepted DEF StoreGrows, RoomStays, GuardInv
<1> USE DEF RoomSteps
<1>3. CASE Reserve(x)
  <2>1. InStorage(x, "reserve")
    BY <1>3 DEF Reserve
  <2>2. DOMAIN store' = StoreFields /\ store'.log = store.log
    BY <1>3, CallsKeepLog DEF Reserve, GuardInv
  <2>3. UNCHANGED room \/ room' = NewRoom(made + 1)
    BY <1>3, SMTT(20) DEF Reserve
  <2>4. Numbered(NewRoom(made + 1)) /\ NewRoom(made + 1).accepted = {}
    BY Zenon DEF NewRoom, Numbered, RoomFields
  <2>5. RoomStays /\ StoreGrows
    BY <2>2, <2>3, <2>4 DEF RoomStays, StoreGrows, GuardInv
  <2>6. QED
    BY <1>1, <2>1, <2>5, NothingAccepted
<1>4. CASE SeatRefused(x)
  <2>1. CASE AbortTableAndNotify(FALSE)
    BY <2>1, ClosingKeeps, ZenonT(30)
  <2>2. CASE UNCHANGED <<room, store>>
    BY <1>1, <1>2, <1>4, <2>2 DEF SeatRefused, GuardInv
  <2>3. QED
    BY <1>4, <2>1, <2>2, Zenon DEF SeatRefused, RollBackSeat
<1>5. CASE RollBack(x)
  BY <1>1, <1>2, <1>5, CallsKeepLog, ZenonT(30) DEF RollBack, Call, GuardInv
<1>6. CASE PersistStart(x)
  BY <1>1, <1>2, <1>6, CallsKeepLog, Zenon DEF PersistStart, Call, GuardInv
<1>7. CASE PersistAction(x)
  <2>1. InStorage(x, "append") /\ UNCHANGED room
    BY <1>7 DEF PersistAction, Call
  <2>2. PICK result \in AppendAction(ops[x].row) : store' = result[1] /\ (Succeeds(result) \/ Abort(x))
    BY <1>7, SMTT(20) DEF PersistAction, Call
  <2>3. /\ DOMAIN store' = StoreFields /\ store.log \subseteq store'.log
        /\ Succeeds(result) => ops[x].row \in store'.log
    BY <2>2, AppendAdds DEF GuardInv
  <2>4. \A y \in Owners : ops[y].step \in {"append", "abort"} => y = x
    BY <2>1, AtStorage, Zenon DEF GuardInv, Busy
  <2>5. ASSUME room # NoRoom, NEW row \in room.accepted \ store.log
        PROVE  row = ops[x].row /\ \A other \in room.accepted : other.sequence <= row.sequence
    BY <2>1, <2>4, <2>5 DEF GuardInv, Missing, InStorage
  <2>6. CASE Succeeds(result)
    <3>1. Missing'
      BY <2>1, <2>3, <2>5, <2>6, SMTT(20) DEF Missing
    <3>2. QED
      BY <2>1, <2>3, <3>1 DEF GuardInv
  <2>7. CASE Abort(x)
    <3>1. ops'[x].step = "abort"
      BY <2>7, Zenon DEF Abort, Goto, GuardInv, OwnerInv
    <3>2. Missing'
      BY <2>1, <2>3, <2>5, <3>1, SMTT(20) DEF Missing
    <3>3. QED
      BY <2>1, <2>3, <3>2 DEF GuardInv
  <2>8. QED
    BY <2>2, <2>6, <2>7
<1>8. CASE PersistSettlement(x)
  BY <1>1, <1>2, <1>8, CallsKeepLog, Zenon DEF PersistSettlement, Call, GuardInv
<1>9. CASE AbortTable(x)
  BY <1>9, ClosingKeeps, ZenonT(30) DEF AbortTable
<1>10. CASE PersistLeave(x)
  BY <1>1, <1>2, <1>10, CallsKeepLog DEF PersistLeave, Call, GuardInv
<1>11. QED
  BY <1>3, <1>4, <1>5, <1>6, <1>7, <1>8, <1>9, <1>10, SMTT(20) DEF StorageTask

\* Every step of the service keeps the log's invariant.
LEMMA GuardKept == GuardInv /\ [Next]_<<vars, setup>> => GuardInv'
<1> SUFFICES ASSUME GuardInv, [Next]_<<vars, setup>> PROVE GuardInv'
  OBVIOUS
<1>1. OwnerInv'
  BY OwnerKept, SMTT(20) DEF GuardInv
<1>2. ASSUME UNCHANGED room, DOMAIN store' = StoreFields, store.log \subseteq store'.log,
             UNCHANGED ops \/ ~fence
      PROVE  GuardInv'
  BY <1>1, <1>2, NothingMissing, NothingAccepted, SMTT(20) DEF StoreGrows, RoomStays, GuardInv
<1>3. CASE Command
  <2>1. UNCHANGED <<room, store>> /\ (UNCHANGED ops \/ ~fence)
    BY <1>3, SMTT(20) DEF Command, Ready, Unready, Look, SitDown, Action, LeaveTable, AskRoom,
         BeginTableOperation
  <2>2. QED
    BY <1>2, <2>1, Zenon DEF GuardInv
<1>4. ASSUME NEW t \in timers, TimerFires(t) PROVE GuardInv'
  BY <1>2, <1>4, ZenonT(30) DEF TimerFires, GuardInv
<1>5. ASSUME NEW r \in refunds, RefundTimer(r) \/ RetryRefund(r) PROVE GuardInv'
  <2>1. UNCHANGED <<room,
  ops>> /\ (UNCHANGED store \/ \E result \in AbortTableAndRefund : store' = result[1])
    BY <1>5 DEF RefundTimer, RetryRefund
  <2>2. QED
    BY <1>2, <2>1, CallsKeepLog, Zenon DEF GuardInv
<1>6. CASE UNCHANGED <<vars, setup>>
  BY <1>2, <1>6, Zenon DEF vars, GuardInv
<1>7. QED
  BY <1>1, <1>3, <1>4, <1>5, <1>6, RoomKeeps, StorageKeeps DEF Next

\* No room is open at the start.
LEMMA GuardAtStart == Init => GuardInv
<1> SUFFICES ASSUME Init PROVE GuardInv
  OBVIOUS
<1>1. OwnerInv
  BY InitOwned
<1>2. room = NoRoom /\ DOMAIN store = StoreFields
  BY DEF Init, StoreFields
<1>3. QED
  BY <1>1, <1>2 DEF GuardInv, Missing

\* For any users, requests, failures and interleaving: action N+1 enters the state
\* machine only once action N is stored, and at most the newest action is missing
\* from the log, while its command holds the fence (protocol_service.cpp:895-990).
THEOREM LogIsGuarded == Spec => []FenceGuardsLog
<1>1. GuardInv => FenceGuardsLog
  <2> SUFFICES ASSUME GuardInv, room # NoRoom, NEW row \in room.accepted \ store.log
               PROVE  fence /\ \A other \in room.accepted : other.sequence <= row.sequence
    BY DEF FenceGuardsLog
  <2>1. PICK x \in Owners : ops[x].step \in {"append", "abort"}
    BY DEF GuardInv, Missing
  <2>2. fence
    BY <2>1, Zenon DEF GuardInv, OwnerInv, Busy
  <2>3. QED
    BY <2>2 DEF GuardInv, Missing
<1>2. QED
  BY <1>1, GuardAtStart, GuardKept, PTL DEF Spec

-----------------------------------------------------------------------------
(* Closed rooms. *)

\* The refunds are records of AbortTableAndNotify, and none is dropped before
\* the table is aborted.
RefundInv ==
  /\ GuardInv
  /\ \A r \in refunds : DOMAIN r = {"room", "attempt", "at"}
  /\ ClosedRoomIsRefunded

\* A numbered room is open.
LEMMA OpenRoom == ASSUME NEW r, Numbered(r) PROVE r # NoRoom
BY DEF Numbered, RoomFields, NoRoom

\* A call that is not accepted changes nothing.
LEMMA Refused ==
  ASSUME NEW after, NEW result \in Outcomes(FALSE, after)
  PROVE  result[1] = store /\ ~Succeeds(result)
<1>1. result = <<store, "conflict">> \/ result = <<store, "unavailable">>
  BY DEF Outcomes
<1>2. QED
  BY <1>1 DEF Succeeds

\* No call takes a table back into play once it is aborted.
LEMMA AbortIsFinal ==
  ASSUME DOMAIN store = StoreFields, store.status = "aborted", NEW result,
         \/ \E u, request : result \in ReserveBuyIn(u, request)
         \/ \E u, kind, request : result \in CashOut(u, kind, request)
         \/ \E hand, start : result \in BeginHand(hand, start)
         \/ \E row : result \in AppendAction(row)
         \/ \E hand, start, end : result \in SettleHand(hand, start, end)
         \/ result \in AbortTableAndRefund
  PROVE  result[1].status = "aborted"
<1>1. store.status # "waiting" /\ store.status # "playing"
  BY SMTT(20)
<1>2. ASSUME NEW accepted, result \in Outcomes(accepted, store) PROVE result[1].status = "aborted"
  BY <1>2, OutcomeRows, SMTT(20)
<1>3. ASSUME NEW u, NEW request, result \in ReserveBuyIn(u, request) PROVE result[1].status = "aborted"
  <2>1. (\E accepted : result \in Outcomes(accepted,
  store)) \/ \E after : result \in Outcomes(FALSE, after)
    BY <1>1, <1>3, Zenon DEF ReserveBuyIn
  <2>2. QED
    BY <1>2, <2>1, Refused, Zenon
<1>4. ASSUME NEW u, NEW kind, NEW request, result \in CashOut(u, kind, request)
      PROVE  result[1].status = "aborted"
  <2>1. (\E accepted : result \in Outcomes(accepted,
  store)) \/ \E after : result \in Outcomes(FALSE, after)
    BY <1>1, <1>4, ZenonT(30) DEF CashOut
  <2>2. QED
    BY <1>2, <2>1, Refused, Zenon
<1>5. ASSUME NEW hand, NEW start, result \in BeginHand(hand, start) PROVE result[1].status = "aborted"
  <2>1. \E after : result \in Outcomes(FALSE, after)
    BY <1>1, <1>5, Zenon DEF BeginHand
  <2>2. QED
    BY <2>1, Refused, ZenonT(30)
<1>6. ASSUME NEW row, result \in AppendAction(row) PROVE result[1].status = "aborted"
  <2> DEFINE after == [store EXCEPT !.log = @ \cup {row}]
  <2>1. after.status = "aborted"
    BY DEF StoreFields
  <2> HIDE DEF after
  <2>2. \E accepted : result \in Outcomes(accepted, store) \/ result \in Outcomes(accepted, after)
    BY <1>6, Zenon DEF AppendAction, after
  <2>3. QED
    BY <2>1, <2>2, OutcomeRows
<1>7. ASSUME NEW hand, NEW start, NEW end, result \in SettleHand(hand, start, end)
      PROVE  result[1].status = "aborted"
  <2>1. \E after : result \in Outcomes(FALSE, after)
    BY <1>1, <1>7, Zenon DEF SettleHand
  <2>2. QED
    BY <2>1, Refused, Zenon
<1>8. ASSUME result \in AbortTableAndRefund PROVE result[1].status = "aborted"
  BY <1>2, <1>8, Zenon DEF AbortTableAndRefund
<1>9. QED
  BY <1>3, <1>4, <1>5, <1>6, <1>7, <1>8, SMTT(20)

\* A refund that succeeds has aborted the table.
LEMMA RefundAborts ==
  ASSUME DOMAIN store = StoreFields, NEW result \in AbortTableAndRefund, Succeeds(result)
  PROVE  result[1].status = "aborted"
<1>1. CASE store.status = "aborted"
  BY <1>1, AbortIsFinal, Zenon
<1>2. CASE store.status # "aborted"
  <2> DEFINE seats == [u \in Users |-> None]
             hands == [h \in DOMAIN store.hands |-> IF store.hands[h] = "playing" THEN "aborted"
                                                    ELSE store.hands[h]]
             after == [store EXCEPT !.status = "aborted", !.seats = seats, !.hands = hands]
  <2>1. result \in Outcomes(TRUE, after)
    BY <1>2, Zenon DEF AbortTableAndRefund
  <2> HIDE DEF seats, hands
  <2>2. after.status = "aborted"
    BY DEF StoreFields
  <2> HIDE DEF after
  <2>3. QED
    BY <2>1, <2>2, OutcomeRows, Zenon
<1>3. QED
  BY <1>1, <1>2

\* A room is only closed with its refund made or on the way.
LEMMA ClosingRefunds ==
  ASSUME RefundInv, GuardInv', NEW attempt_refund, AbortTableAndNotify(attempt_refund), UNCHANGED made
  PROVE  RefundInv'
<1>1. PICK result : /\ result \in AbortTableAndRefund \/ result = <<store, "unavailable">>
                    /\ store' = result[1]
                    /\ refunds' = refunds \cup (IF Succeeds(result) THEN {}
                                                ELSE {[room |-> made, attempt |-> 1, at |-> "timer"]})
  BY DEF AbortTableAndNotify
<1>2. Succeeds(result) => store'.status = "aborted"
  BY <1>1, RefundAborts DEF Succeeds, RefundInv, GuardInv
<1> DEFINE refund == [room |-> made, attempt |-> 1, at |-> "timer"]
<1>3. DOMAIN refund = {"room", "attempt", "at"} /\ refund.room = made
  OBVIOUS
<1>4. \A r \in refunds' : DOMAIN r = {"room", "attempt", "at"}
  BY <1>1, <1>3 DEF RefundInv
<1>5. store'.status = "aborted" \/ \E r \in refunds' : r.room = made'
  <2>1. Succeeds(result) \/ refund \in refunds'
    BY <1>1
  <2> HIDE DEF refund
  <2>2. QED
    BY <1>2, <1>3, <2>1
<1>6. QED
  BY <1>4, <1>5 DEF RefundInv, ClosedRoomIsRefunded

\* Any other step of a handler keeps an open room open and its refunds pending.
LEMMA StaysOpen ==
  ASSUME RefundInv, GuardInv', UNCHANGED refunds,
         store.status = "aborted" => store'.status = "aborted",
         \/ UNCHANGED <<room, made>>
         \/ room # NoRoom /\ Replayed(room, room')
         \/ Numbered(room')
  PROVE  RefundInv'
BY OpenRoom DEF RefundInv, ClosedRoomIsRefunded, Replayed

\* A room task forgets no refund.
LEMMA RoomRefunds == ASSUME RefundInv, GuardInv', RoomTask PROVE RefundInv'
<1>1. ASSUME UNCHANGED <<room, made, refunds, store>> PROVE RefundInv'
  BY <1>1, StaysOpen
<1>2. ASSUME room # NoRoom, Replayed(room, room'), UNCHANGED <<refunds, store>> PROVE RefundInv'
  BY <1>2, StaysOpen
<1>3. ASSUME NEW x, Fails(x) PROVE RefundInv'
  BY <1>1, <1>3 DEF Fails
<1>4. room # NoRoom => Numbered(room)
  BY DEF RefundInv, GuardInv
<1>5. CASE SeatPlayer
  <2>1. CASE AbortTableAndNotify(FALSE)
    BY <1>5, <2>1, ClosingRefunds, ZenonT(30) DEF SeatPlayer
  <2>2. CASE UNCHANGED <<room, store, refunds>>
    BY <1>1, <1>5, <2>2 DEF SeatPlayer
  <2>3. CASE /\ Open /\ room' = [room EXCEPT !.seats[Who] = BuyIn, !.sequence = @ + 1]
             /\ UNCHANGED <<store, refunds>>
    BY <1>2, <1>4, <2>3, RoomReplays, ZenonT(30) DEF Open
  <2>4. QED
    BY <1>5, <2>1, <2>2, <2>3, Zenon DEF SeatPlayer, RollBackSeat
<1>6. ASSUME NEW ready \in BOOLEAN, MaySetReady(ready), SetReady(ready) PROVE RefundInv'
  <2>1. room # NoRoom /\ \E who : room' = [room EXCEPT !.ready = who, !.sequence = @ + 1]
    BY <1>6, Zenon DEF MaySetReady, SetReady, Open
  <2>2. QED
    BY <1>2, <1>4, <1>6, <2>1, RoomReplays, ZenonT(30) DEF SetReady
<1>7. CASE StartHand
  <2>1. CASE Open /\ room' \in StartedHands(room) /\ UNCHANGED <<store, refunds>>
    BY <1>2, <1>4, <2>1, StartReplays DEF Open
  <2>2. QED
    BY <1>1, <1>3, <1>7, <2>1 DEF StartHand
<1>8. ASSUME Open, NEW x, NEW u, NEW request, Accept(x, u, request) PROVE RefundInv'
  <2>1. CASE AbortTableAndNotify(FALSE)
    BY <1>8, <2>1, ClosingRefunds, Zenon DEF Accept
  <2>2. ASSUME NEW acted \in ActedRooms(room), NEW row,
               room' = [acted EXCEPT !.accepted = @ \cup {row}], UNCHANGED <<store, refunds>>
        PROVE  RefundInv'
    <3>1. room # NoRoom /\ Numbered(acted)
      BY <1>4, <1>8, <2>2, ActionCounts DEF Open, Replayed
    <3>2. DOMAIN room' = RoomFields
      BY <2>2, <3>1 DEF Numbered
    <3>3. room' # NoRoom
      BY <3>2, SMTT(20) DEF RoomFields, NoRoom
    <3>4. QED
      BY <2>2, <3>3 DEF RefundInv, ClosedRoomIsRefunded
  <2>3. QED
    <3>1. \/ AbortTableAndNotify(FALSE)
          \/ \E acted \in ActedRooms(room) : \E row :
               room' = [acted EXCEPT !.accepted = @ \cup {row}] /\ UNCHANGED <<store, refunds>>
      BY <1>8, Zenon DEF Accept
    <3>2. QED
      BY <2>1, <2>2, <3>1, Zenon
<1>9. CASE RemovePlayer
  <2>1. ASSUME Open, NEW ready, UNCHANGED <<store, refunds>>,
               room' = [room EXCEPT !.seats[Who] = None, !.ready = ready, !.sequence = @ + 1]
        PROVE  RefundInv'
    BY <1>2, <1>4, <2>1, RoomReplays, ZenonT(30) DEF Open
  <2>2. QED
    BY <1>3, <1>9, <2>1, ZenonT(30) DEF RemovePlayer
<1>10. CASE LookTask
  <2>1. \/ UNCHANGED room
        \/ room # NoRoom /\ room' = [room EXCEPT !.sequence = @ + 1]
    BY <1>10 DEF LookTask, Open
  <2>2. QED
    BY <1>1, <1>2, <1>4, <1>10, <2>1, RoomReplays, ZenonT(30) DEF LookTask
<1>11. QED
  BY <1>1, <1>3, <1>5, <1>6, <1>7, <1>8, <1>9, <1>10, Zenon
       DEF RoomTask, ReplySeated, ReadyTask, UnreadyTask, AuditStart, ActTask, UnreadyToLeave,
         CheckTimer, OnActionTimeout

\* Neither does a store call.
LEMMA StorageRefunds ==
  ASSUME RefundInv, GuardInv', NEW x \in Owners, StorageTask(x)
  PROVE  RefundInv'
<1>0. DOMAIN store = StoreFields
  BY DEF RefundInv, GuardInv
<1>1. ASSUME UNCHANGED <<room, made, refunds>>, store.status = "aborted" => store'.status = "aborted"
      PROVE  RefundInv'
  BY <1>1, StaysOpen
<1>2. CASE Reserve(x)
  <2>1. UNCHANGED <<room, made>> \/ room' = NewRoom(made + 1)
    BY <1>2, SMTT(20) DEF Reserve
  <2>2. Numbered(NewRoom(made + 1))
    BY Zenon DEF NewRoom, Numbered, RoomFields
  <2>3. store.status # "aborted" \/ UNCHANGED store
    BY <1>2 DEF Reserve
  <2>4. UNCHANGED refunds
    BY <1>2 DEF Reserve
  <2>5. QED
    BY <2>1, <2>2, <2>3, <2>4, StaysOpen
<1>3. CASE SeatRefused(x)
  BY <1>1, <1>3, ClosingRefunds, ZenonT(30) DEF SeatRefused, RollBackSeat
<1>4. CASE RollBack(x)
  BY <1>0, <1>1, <1>4, AbortIsFinal, Zenon DEF RollBack, Call
<1>5. CASE PersistStart(x)
  BY <1>0, <1>1, <1>5, AbortIsFinal, Zenon DEF PersistStart, Call
<1>6. CASE PersistAction(x)
  BY <1>0, <1>1, <1>6, AbortIsFinal, SMTT(20) DEF PersistAction, Call
<1>7. CASE PersistSettlement(x)
  BY <1>0, <1>1, <1>7, AbortIsFinal, ZenonT(30) DEF PersistSettlement, Call
<1>8. CASE AbortTable(x)
  BY <1>8, ClosingRefunds, Zenon DEF AbortTable
<1>9. CASE PersistLeave(x)
  BY <1>0, <1>1, <1>9, AbortIsFinal DEF PersistLeave, Call
<1>10. QED
  BY <1>2, <1>3, <1>4, <1>5, <1>6, <1>7, <1>8, <1>9 DEF StorageTask

\* A refund that is tried again stays a refund of its room.
LEMMA LaterIsSame ==
  ASSUME NEW r, DOMAIN r = {"room", "attempt", "at"}
  PROVE  /\ DOMAIN Later(r) = DOMAIN r /\ Later(r).room = r.room
         /\ DOMAIN [r EXCEPT !.at = "storage"] = DOMAIN r /\ [r EXCEPT !.at = "storage"].room = r.room
BY DEF Later

\* The retries end a refund only when the table is aborted.
LEMMA RetryRefunds ==
  ASSUME RefundInv, GuardInv', NEW r \in refunds, RefundTimer(r) \/ RetryRefund(r)
  PROVE  RefundInv'
<1>1. /\ DOMAIN Later(r) = DOMAIN r /\ Later(r).room = r.room
      /\ DOMAIN [r EXCEPT !.at = "storage"] = DOMAIN r /\ [r EXCEPT !.at = "storage"].room = r.room
  BY LaterIsSame DEF RefundInv
<1>2. ASSUME NEW again, DOMAIN again = DOMAIN r, again.room = r.room,
             refunds' = (refunds \ {r}) \cup {again},
             UNCHANGED <<room, made>>, store.status = "aborted" => store'.status = "aborted"
      PROVE  RefundInv'
  BY <1>2 DEF RefundInv, ClosedRoomIsRefunded
<1>3. CASE RefundTimer(r)
  <2>1. UNCHANGED <<room, made, store>>
    BY <1>3 DEF RefundTimer
  <2>2. refunds' = (refunds \ {r}) \cup {[r EXCEPT !.at = "storage"]} \/ refunds' = (refunds \ {r}) \cup {Later(r)}
    BY <1>3 DEF RefundTimer
  <2>3. QED
    BY <1>1, <1>2, <2>1, <2>2, ZenonT(30)
<1>4. CASE RetryRefund(r)
  <2>1. PICK result \in AbortTableAndRefund :
          /\ store' = result[1]
          /\ refunds' = (refunds \ {r}) \cup (IF Succeeds(result) THEN {} ELSE {Later(r)})
    BY <1>4 DEF RetryRefund
  <2>2. store.status = "aborted" => store'.status = "aborted"
    BY <2>1, AbortIsFinal, Zenon DEF RefundInv, GuardInv
  <2>3. CASE Succeeds(result)
    <3>1. store'.status = "aborted"
      BY <2>1, <2>3, RefundAborts DEF RefundInv, GuardInv
    <3>2. QED
      BY <2>1, <2>3, <3>1 DEF RefundInv, ClosedRoomIsRefunded
  <2>4. CASE ~Succeeds(result)
    BY <1>1, <1>2, <1>4, <2>1, <2>2, <2>4 DEF RetryRefund
  <2>5. QED
    BY <2>3, <2>4
<1>5. QED
  BY <1>3, <1>4

\* Whatever fails, a room that was closed has its table refunded, or the refund
\* still on the way or with the operator: no error path of a handler and no retry
\* forgets it (protocol_service.cpp:1420-1500).
THEOREM ClosedRoomsRefunded == Spec => []ClosedRoomIsRefunded
<1>1. Init => RefundInv
  BY GuardAtStart DEF Init, RefundInv, ClosedRoomIsRefunded
<1>2. RefundInv /\ [Next]_<<vars, setup>> => RefundInv'
  <2> SUFFICES ASSUME RefundInv, [Next]_<<vars, setup>> PROVE RefundInv'
    OBVIOUS
  <2>1. GuardInv'
    BY GuardKept DEF RefundInv
  <2>2. ASSUME UNCHANGED <<room, made, refunds, store>> PROVE RefundInv'
    BY <2>1, <2>2, StaysOpen
  <2>3. CASE Command
    BY <2>2, <2>3, Zenon DEF Command, Ready, Unready, Look, SitDown, Action,
       LeaveTable, AskRoom
  <2>4. ASSUME NEW t \in timers, TimerFires(t) PROVE RefundInv'
    BY <2>2, <2>4 DEF TimerFires
  <2>5. CASE UNCHANGED <<vars, setup>>
    BY <2>2, <2>5 DEF vars
  <2>6. QED
    BY <2>1, <2>3, <2>4, <2>5, RoomRefunds, StorageRefunds, RetryRefunds DEF Next
<1>3. RefundInv => ClosedRoomIsRefunded
  BY DEF RefundInv
<1>4. QED
  BY <1>1, <1>2, <1>3, PTL DEF Spec

-----------------------------------------------------------------------------
(* Hands that the database has open. *)

InPlay == room # NoRoom /\ Running(room)

\* A command that will settle the hand in the database or close the table.
Closes(op) == op.step \in {"settle", "abort"} \/ (op.step = "append" /\ op.ends # <<>>)

\* While a command holds the fence, a stored hand need not be played: the room may
\* have settled it already, if this command goes on to settle it or to close the
\* table.  A command that is about to store a new hand finds it in play.
PlayInv ==
  /\ GuardInv
  /\ InPlay => room.actor \in DOMAIN room.start
  /\ store.status = "playing" =>
       refunds # {} \/ InPlay \/ \E x \in Owners : Closes(ops[x])
  /\ \A x \in Owners : ops[x].step \in {"audit", "begin"} => InPlay

\* The command of x goes on, and not to store a new hand.
Moves(x) == \E op : ops' = [ops EXCEPT ![x] = op] /\ op.step \notin {"audit", "begin"}

\* The hand of room r is played on in the room after.
Resumed(r, after) == Numbered(after) /\ after.actor = r.actor /\ after.start = r.start

\* Changes of seats and of who is ready do not touch a hand.
LEMMA RoomResumes ==
  ASSUME NEW r, Numbered(r)
  PROVE  /\ \A u, chips : Resumed(r, [r EXCEPT !.seats[u] = chips, !.sequence = @ + 1])
         /\ \A ready : Resumed(r, [r EXCEPT !.ready = ready, !.sequence = @ + 1])
         /\ \A u, ready : Resumed(r, [r EXCEPT !.seats[u] = None, !.ready = ready, !.sequence = @ + 1])
         /\ Resumed(r, [r EXCEPT !.sequence = @ + 1])
BY RoomReplays DEF Numbered, Replayed, Resumed, RoomFields

\* A hand that starts has somebody to act, who was dealt in.
LEMMA StartPlays ==
  ASSUME NEW r, Numbered(r), NEW after \in StartedHands(r), ~BlindsSettle
  PROVE  Numbered(after) /\ Running(after) /\ after.actor \in DOMAIN after.start
<1> DEFINE start == [u \in Dealt(r) |-> r.seats[u]]
           begun == [r EXCEPT !.hand = @ + 1, !.sequence = @ + 1, !.start = start]
<1>1. PICK u \in Dealt(r) : after = [begun EXCEPT !.actor = u]
  BY Zenon DEF StartedHands
<1>2. DOMAIN start = Dealt(r)
  OBVIOUS
<1> HIDE DEF start
<1>3. after.actor = u /\ after.start = start
  BY <1>1 DEF Numbered, RoomFields
<1>4. u # None
  BY ServiceAssumption DEF Dealt, Sitting
<1>5. Numbered(after)
  BY StartReplays DEF Replayed
<1> QED BY <1>1, <1>2, <1>3, <1>4, <1>5 DEF Running

\* An action passes the turn to a player who was dealt in, or ends the hand.
LEMMA ActionPlays ==
  ASSUME NEW r, Numbered(r), NEW after \in ActedRooms(r)
  PROVE  Running(after) => after.actor \in DOMAIN after.start
<1> DEFINE acted == [r EXCEPT !.sequence = @ + 1]
<1>1. acted.start = r.start /\ DOMAIN acted = RoomFields
  BY DEF Numbered, RoomFields
<1>2. \/ \E actor \in DOMAIN r.start : after = [acted EXCEPT !.actor = actor]
      \/ \E end : after = Settled(acted, end)
  BY Zenon DEF ActedRooms
<1> HIDE DEF acted
<1>3. ASSUME NEW actor \in DOMAIN r.start, after = [acted EXCEPT !.actor = actor]
      PROVE  after.actor \in DOMAIN after.start
  BY <1>1, <1>3 DEF RoomFields
<1>4. ASSUME NEW end, after = Settled(acted, end) PROVE ~Running(after)
  <2> DEFINE seats == [u \in Users |-> IF u \in DOMAIN end THEN end[u] ELSE acted.seats[u]]
  <2>1. after = [acted EXCEPT !.seats = seats, !.actor = None, !.ready = {}, !.sequence = @ + 1]
    BY <1>4 DEF Settled
  <2> HIDE DEF seats
  <2>2. after.actor = None
    BY <1>1, <2>1 DEF RoomFields
  <2> QED BY <2>2 DEF Running
<1> QED BY <1>2, <1>3, <1>4

\* Seats and the log may change without the table's status.
LEMMA StatusStays ==
  ASSUME DOMAIN store = StoreFields, NEW result,
         \/ \E u, request : result \in ReserveBuyIn(u, request)
         \/ \E u, kind, request : result \in CashOut(u, kind, request)
         \/ \E row : result \in AppendAction(row)
  PROVE  result[1].status = store.status
<1>1. ASSUME NEW accepted, NEW after, after.status = store.status, result \in Outcomes(accepted, after)
      PROVE  result[1].status = store.status
  BY <1>1, OutcomeRows
<1>2. ASSUME NEW u, NEW request, result \in ReserveBuyIn(u, request) PROVE result[1].status = store.status
  <2> DEFINE after == [store EXCEPT !.seats[u] = BuyIn, !.keys = Remember(<<"buy", u, request>>)]
  <2>1. after.status = store.status
    BY DEF StoreFields
  <2> HIDE DEF after
  <2>2. \E accepted : result \in Outcomes(accepted, store) \/ result \in Outcomes(accepted, after)
    BY <1>2, Zenon DEF ReserveBuyIn, after
  <2> QED BY <1>1, <2>1, <2>2, Zenon
<1>3. ASSUME NEW u, NEW kind, NEW request, result \in CashOut(u, kind, request)
      PROVE  result[1].status = store.status
  <2> DEFINE after == [store EXCEPT !.seats[u] = None, !.keys = Remember(<<kind, u, request>>)]
  <2>1. after.status = store.status
    BY DEF StoreFields
  <2> HIDE DEF after
  <2>2. \E accepted : result \in Outcomes(accepted, store) \/ result \in Outcomes(accepted, after)
    BY <1>3, Zenon DEF CashOut, after
  <2> QED BY <1>1, <2>1, <2>2
<1>4. ASSUME NEW row, result \in AppendAction(row) PROVE result[1].status = store.status
  <2> DEFINE after == [store EXCEPT !.log = @ \cup {row}]
  <2>1. after.status = store.status
    BY DEF StoreFields
  <2> HIDE DEF after
  <2>2. \E accepted : result \in Outcomes(accepted, store) \/ result \in Outcomes(accepted, after)
    BY <1>4, Zenon DEF AppendAction, after
  <2> QED BY <1>1, <2>1, <2>2
<1> QED BY <1>2, <1>3, <1>4, Zenon

\* A refund leaves the rows alone or aborts the table.
LEMMA RefundRows ==
  ASSUME DOMAIN store = StoreFields, NEW result \in AbortTableAndRefund
  PROVE  result[1] = store \/ result[1].status = "aborted"
<1>1. CASE store.status = "aborted"
  BY <1>1, AbortIsFinal, Zenon
<1>2. CASE store.status # "aborted"
  <2> DEFINE seats == [u \in Users |-> None]
             hands == [h \in DOMAIN store.hands |-> IF store.hands[h] = "playing" THEN "aborted"
                                                    ELSE store.hands[h]]
             after == [store EXCEPT !.status = "aborted", !.seats = seats, !.hands = hands]
  <2>1. result \in Outcomes(TRUE, after)
    BY <1>2, Zenon DEF AbortTableAndRefund
  <2> HIDE DEF seats, hands
  <2>2. after.status = "aborted"
    BY DEF StoreFields
  <2> HIDE DEF after
  <2> QED BY <2>1, <2>2, OutcomeRows, Zenon
<1> QED BY <1>1, <1>2

\* A hand that is settled is over in the database too.
LEMMA SettleWaits ==
  ASSUME DOMAIN store = StoreFields, NEW hand, NEW start, NEW end,
         NEW result \in SettleHand(hand, start, end), Succeeds(result)
  PROVE  result[1].status = "waiting"
<1> PICK seats, hands : /\ seats = [u \in Users |-> IF u \in DOMAIN end THEN end[u] ELSE store.seats[u]]
                        /\ hands = [store.hands EXCEPT ![hand] = "settled"]
  BY Zenon
<1> DEFINE after == [store EXCEPT !.status = "waiting", !.hands = hands, !.seats = seats]
<1>1. after = [store EXCEPT !.status = "waiting", !.hands[hand] = "settled",
                            !.seats = [u \in Users |-> IF u \in DOMAIN end THEN end[u] ELSE @[u]]]
  BY DEF StoreFields
<1>2. after.status = "waiting"
  BY DEF StoreFields
<1> HIDE DEF after
<1>3. \E accepted : result \in Outcomes(accepted, after)
  BY <1>1, Zenon DEF SettleHand
<1> QED BY <1>2, <1>3, OutcomeRows

-----------------------------------------------------------------------------
\* What is stored is played while the command with the fence does something else.
LEMMA OpenHand ==
  ASSUME PlayInv, ~fence \/ \E x \in Owners : Busy(x) /\ ~Closes(ops[x])
  PROVE  store.status = "playing" => refunds # {} \/ InPlay
<1>1. \A y \in Owners : Closes(ops[y]) => Busy(y)
  BY DEF Closes, Busy
<1>2. \A y \in Owners : ~Closes(ops[y])
  BY <1>1, Zenon DEF PlayInv, GuardInv, OwnerInv
<1> QED BY <1>2 DEF PlayInv

\* A step of the only command there is.
LEMMA OwnerPlays ==
  ASSUME PlayInv, GuardInv', NEW x \in Owners, \A y \in Owners : Busy(y) => y = x,
         NEW op, ops' = [ops EXCEPT ![x] = op],
         InPlay' => room'.actor \in DOMAIN room'.start,
         store'.status = "playing" => refunds' # {} \/ InPlay' \/ Closes(op),
         op.step \in {"audit", "begin"} => InPlay'
  PROVE  PlayInv'
<1>1. ops'[x] = op /\ \A y \in Owners \ {x} : ops'[y] = ops[y]
  BY Zenon DEF PlayInv, GuardInv, OwnerInv
<1>2. \A y \in Owners \ {x} : ops'[y].step \notin {"audit", "begin"}
  BY <1>1 DEF Busy
<1>3. \A y \in Owners : ops'[y].step \in {"audit", "begin"} => InPlay'
  BY <1>1, <1>2
<1>4. store'.status = "playing" => refunds' # {} \/ InPlay' \/ \E y \in Owners : Closes(ops'[y])
  BY <1>1
<1> QED BY <1>3, <1>4, Zenon DEF PlayInv, Closes

\* A step of a command that leaves the hand to the others.
LEMMA MovePlays ==
  ASSUME PlayInv, GuardInv', NEW x \in Owners, \A y \in Owners : Busy(y) => y = x,
         ~fence \/ (Busy(x) /\ ~Closes(ops[x])), Moves(x), UNCHANGED refunds,
         store'.status = "playing" => store.status = "playing",
         UNCHANGED room \/ (room # NoRoom /\ Resumed(room, room'))
  PROVE  PlayInv'
<1>1. PICK op : ops' = [ops EXCEPT ![x] = op] /\ op.step \notin {"audit", "begin"}
  BY Zenon DEF Moves
<1>2. store.status = "playing" => refunds # {} \/ InPlay
  BY OpenHand
<1>3. (InPlay => InPlay') /\ (InPlay' => room'.actor \in DOMAIN room'.start)
  BY OpenRoom DEF InPlay, Running, Resumed, PlayInv
<1> QED BY <1>1, <1>2, <1>3, OwnerPlays, Zenon

\* A step that leaves the commands alone.
LEMMA AsidePlays ==
  ASSUME PlayInv, GuardInv', UNCHANGED ops,
         store'.status = "playing" => store.status = "playing" /\ (refunds # {} => refunds' # {}),
         UNCHANGED room \/ (room # NoRoom /\ Resumed(room, room'))
  PROVE  PlayInv'
<1>1. (InPlay => InPlay') /\ (InPlay' => room'.actor \in DOMAIN room'.start)
  BY OpenRoom DEF InPlay, Running, Resumed, PlayInv
<1>2. store'.status = "playing" => refunds' # {} \/ InPlay' \/ \E x \in Owners : Closes(ops'[x])
  BY <1>1, Zenon DEF PlayInv
<1>3. \A x \in Owners : ops'[x].step \in {"audit", "begin"} => InPlay'
  BY <1>1 DEF PlayInv
<1> QED BY <1>1, <1>2, <1>3, Zenon DEF PlayInv, Closes

\* A table that is closed is refunded, or will be.
LEMMA ClosingPlays ==
  ASSUME PlayInv, GuardInv', NEW x \in Owners, \A y \in Owners : Busy(y) => y = x, Finish(x),
         NEW attempt_refund, AbortTableAndNotify(attempt_refund)
  PROVE  PlayInv'
<1>1. PICK result : /\ result \in AbortTableAndRefund \/ result = <<store, "unavailable">>
                    /\ store' = result[1]
                    /\ refunds' = refunds \cup (IF Succeeds(result) THEN {}
                                                ELSE {[room |-> made, attempt |-> 1, at |-> "timer"]})
  BY DEF AbortTableAndNotify
<1>2. Succeeds(result) => store'.status = "aborted"
  BY <1>1, RefundAborts DEF Succeeds, PlayInv, GuardInv
<1>3. ~Succeeds(result) => refunds' # {}
  BY <1>1, Zenon
<1>4. ~InPlay'
  BY DEF InPlay, AbortTableAndNotify
<1>5. ops' = [ops EXCEPT ![x] = NoOp] /\ NoOp.step = "none"
  BY DEF Finish, NoOp
<1> QED BY <1>2, <1>3, <1>4, <1>5, OwnerPlays, Zenon

\* The ways in which a handler goes on.
LEMMA HandlerMoves ==
  ASSUME OwnerInv, NEW x \in Owners
  PROVE  /\ Finish(x) => Moves(x)
         /\ \A step : Goto(x, [ops[x] EXCEPT !.step = step]) /\ step \notin {"audit", "begin"} => Moves(x)
         /\ \A step : ThenRoom(x, step) /\ step \notin {"audit", "begin"} => Moves(x)
         /\ \A step, q : ThenSnapshot(x, step, q) => Moves(x)
<1>1. Finish(x) => Moves(x)
  <2>1. NoOp.step \notin {"audit", "begin"}
    BY DEF NoOp
  <2> QED BY <2>1, Zenon DEF Finish, Moves
<1>2. ASSUME NEW step, Goto(x, [ops[x] EXCEPT !.step = step]), step \notin {"audit", "begin"}
      PROVE  Moves(x)
  <2>1. [ops[x] EXCEPT !.step = step].step = step
    BY NextStep
  <2> QED BY <1>2, <2>1, Zenon DEF Goto, Moves
<1> QED BY <1>1, <1>2, Zenon DEF ThenRoom, ThenSnapshot

\* A task of the room keeps the hand in play, or its command answers for it.
LEMMA RoomPlays == ASSUME PlayInv, GuardInv', ~BlindsSettle, RoomTask PROVE PlayInv'
<1> USE DEF RoomSteps
<1>1. ASSUME NEW step \in RoomSteps, Due(step)
      PROVE  /\ Who \in Owners /\ Busy(Who) /\ ops[Who].step = step /\ ~Closes(ops[Who])
             /\ \A y \in Owners : Busy(y) => y = Who
  BY <1>1, AtHead, Zenon DEF PlayInv, GuardInv, Closes
<1>2. OwnerInv
  BY Zenon DEF PlayInv, GuardInv
<1>3. ASSUME NEW step \in RoomSteps, Due(step), Moves(Who), UNCHANGED <<refunds, store>>,
             UNCHANGED room \/ (room # NoRoom /\ Resumed(room, room'))
      PROVE  PlayInv'
  BY <1>1, <1>3, MovePlays, Zenon
<1>4. ASSUME NEW step \in RoomSteps, Due(step), Fails(Who) PROVE PlayInv'
  <2>1. Moves(Who) /\ UNCHANGED <<refunds, store, room>>
    BY <1>1, <1>2, <1>4, HandlerMoves DEF Fails
  <2> QED BY <1>3, <1>4, <2>1
<1>5. room # NoRoom => Numbered(room)
  BY DEF PlayInv, GuardInv
<1>6. CASE SeatPlayer
  <2>1. Due("seat") /\ Who \in Owners
    BY <1>1, <1>6 DEF SeatPlayer
  <2>2. CASE AbortTableAndNotify(FALSE) /\ Finish(Who)
    BY <1>1, <2>1, <2>2, ClosingPlays, Zenon
  <2>3. CASE Goto(Who, [ops[Who] EXCEPT !.step = "rollback"]) /\ UNCHANGED <<room, store, refunds>>
    <3>1. Moves(Who)
      BY <1>2, <2>1, <2>3, HandlerMoves
    <3> QED BY <1>3, <2>1, <2>3, <3>1
  <2>4. CASE /\ Open /\ room' = [room EXCEPT !.seats[Who] = BuyIn, !.sequence = @ + 1]
             /\ ThenRoom(Who, "seated") /\ UNCHANGED <<store, refunds>>
    <3>1. room # NoRoom /\ Resumed(room, room')
      BY <1>5, <2>4, RoomResumes, Zenon DEF Open
    <3>2. Moves(Who)
      BY <1>2, <2>1, <2>4, HandlerMoves
    <3> QED BY <1>3, <2>1, <2>4, <3>1, <3>2
  <2> QED BY <1>6, <2>2, <2>3, <2>4, Zenon DEF SeatPlayer, RollBackSeat
<1>7. CASE ReplySeated
  BY <1>4, <1>7 DEF ReplySeated
<1>8. ASSUME NEW step \in RoomSteps, Due(step), NEW ready \in BOOLEAN,
             MaySetReady(ready), SetReady(ready), Moves(Who)
      PROVE  PlayInv'
  <2>1. room # NoRoom /\ \E who : room' = [room EXCEPT !.ready = who, !.sequence = @ + 1]
    BY <1>8, Zenon DEF MaySetReady, SetReady, Open
  <2>2. Resumed(room, room')
    BY <1>5, <2>1, RoomResumes, Zenon
  <2>3. UNCHANGED <<refunds, store>>
    BY <1>8 DEF SetReady
  <2> QED BY <1>3, <1>8, <2>1, <2>2, <2>3
<1>9. CASE ReadyTask
  <2>1. Due("ready") /\ Who \in Owners
    BY <1>1, <1>9, Zenon DEF ReadyTask
  <2>2. Fails(Who) \/ (MaySetReady(TRUE) /\ SetReady(TRUE) /\ ThenRoom(Who, "start"))
    BY <1>9 DEF ReadyTask
  <2>3. ThenRoom(Who, "start") => Moves(Who)
    BY <1>2, <2>1, HandlerMoves
  <2> QED BY <1>4, <1>8, <2>1, <2>2, <2>3, Zenon
<1>10. CASE UnreadyTask
  <2>1. Due("unready") /\ Who \in Owners
    BY <1>1, <1>10 DEF UnreadyTask
  <2>2. Fails(Who) \/ (MaySetReady(FALSE) /\ SetReady(FALSE) /\ ThenSnapshot(Who, "snapshot",
  Tail(tasks)))
    BY <1>10 DEF UnreadyTask
  <2>3. ThenSnapshot(Who, "snapshot", Tail(tasks)) => Moves(Who)
    BY <1>2, <2>1, HandlerMoves
  <2> QED BY <1>4, <1>8, <2>1, <2>2, <2>3, Zenon
<1>11. CASE StartHand
  <2>1. Due("start") /\ Who \in Owners
    BY <1>1, <1>11, Zenon DEF StartHand
  <2>2. CASE Fails(Who)
    BY <1>4, <2>1, <2>2
  <2>3. CASE UNCHANGED <<room, store, refunds>> /\ ThenSnapshot(Who, "snapshot_and_arm", Tail(tasks))
    <3>1. Moves(Who)
      BY <1>2, <2>1, <2>3, HandlerMoves
    <3> QED BY <1>3, <2>1, <2>3, <3>1
  <2>4. CASE Open /\ room' \in StartedHands(room) /\ ThenRoom(Who, "audit")
    <3>1. Numbered(room') /\ Running(room') /\ room'.actor \in DOMAIN room'.start
      BY <1>5, <2>4, StartPlays DEF Open
    <3>2. InPlay'
      BY <3>1, OpenRoom DEF InPlay, Running
    <3>3. \E op : ops' = [ops EXCEPT ![Who] = op]
      BY <2>4, Zenon DEF ThenRoom, Goto, Finish
    <3> QED BY <1>1, <2>1, <3>1, <3>2, <3>3, OwnerPlays, Zenon
  <2> QED BY <1>11, <2>2, <2>3, <2>4, Zenon DEF StartHand
<1>12. CASE AuditStart
  <2>1. Due("audit") /\ Who \in Owners /\ ops[Who].step = "audit"
    BY <1>1, <1>12, Zenon DEF AuditStart
  <2>2. InPlay /\ room.actor \in DOMAIN room.start
    BY <2>1 DEF PlayInv
  <2>3. CASE Fails(Who)
    BY <1>4, <2>1, <2>3
  <2>4. ASSUME NEW op, Goto(Who, op), UNCHANGED room PROVE PlayInv'
    <3>1. InPlay' /\ room'.actor \in DOMAIN room'.start
      BY <2>2, <2>4 DEF InPlay, Running
    <3> QED BY <1>1, <2>1, <2>4, <3>1, OwnerPlays, Zenon DEF Goto
  <2> QED BY <1>12, <2>3, <2>4, Zenon DEF AuditStart
<1>13. ASSUME NEW step \in RoomSteps, Due(step), Open, Running(room), NEW u, NEW request,
              Accept(Who, u, request)
       PROVE  PlayInv'
  <2>1. Who \in Owners /\ InPlay /\ Numbered(room) /\ room.actor \in DOMAIN room.start
    BY <1>1, <1>5, <1>13, Zenon DEF Open, InPlay, PlayInv
  <2>2. CASE AbortTableAndNotify(FALSE) /\ Finish(Who)
    BY <1>1, <1>13, <2>2, ClosingPlays, Zenon
  <2>3. ASSUME NEW acted \in ActedRooms(room), NEW row, NEW ends, NEW op,
               room' = [acted EXCEPT !.accepted = @ \cup {row}],
               ends = IF Running(acted) THEN <<>> ELSE [v \in DOMAIN room.start |-> acted.seats[v]],
               op.step = "append", op.ends = ends, Goto(Who, op)
        PROVE  PlayInv'
    <3>1. Numbered(acted) /\ (Running(acted) => acted.actor \in DOMAIN acted.start)
      BY <2>1, ActionCounts, ActionPlays DEF Replayed
    <3>2. DOMAIN room' = RoomFields /\ room'.actor = acted.actor /\ room'.start = acted.start
      BY <2>3, <3>1 DEF Numbered, RoomFields
    <3>3. room' # NoRoom
      BY <3>2 DEF RoomFields, NoRoom
    <3>4. InPlay' <=> Running(acted)
      BY <3>2, <3>3 DEF InPlay, Running
    <3>5. ~Running(acted) => ends # <<>>
      BY <2>1, <2>3
    <3>6. InPlay' \/ Closes(op)
      BY <2>3, <3>4, <3>5 DEF Closes
    <3>7. InPlay' => room'.actor \in DOMAIN room'.start
      BY <3>1, <3>2, <3>4
    <3> QED BY <1>1, <1>13, <2>3, <3>6, <3>7, OwnerPlays, Zenon DEF Goto
  <2> QED
    <3>1. PICK acted \in ActedRooms(room) :
            LET row == [hand |-> room.hand, sequence |-> acted.sequence, user |-> u, request |-> request]
                ends == IF Running(acted) THEN <<>> ELSE [v \in DOMAIN room.start |-> acted.seats[v]]
            IN \/ /\ room' = [acted EXCEPT !.accepted = @ \cup {row}]
                  /\ Goto(Who, [step |-> "append", room |-> room.id, row |-> row, actor |-> acted.actor,
                                start |-> room.start, ends |-> ends])
               \/ AbortTableAndNotify(FALSE) /\ Finish(Who)
      BY <1>13, Zenon DEF Accept
    <3> PICK row, ends :
          /\ row = [hand |-> room.hand, sequence |-> acted.sequence, user |-> u, request |-> request]
          /\ ends = IF Running(acted) THEN <<>> ELSE [v \in DOMAIN room.start |-> acted.seats[v]]
      BY Zenon
    <3> PICK op : op = [step |-> "append", room |-> room.id, row |-> row, actor |-> acted.actor,
                        start |-> room.start, ends |-> ends]
      BY Zenon
    <3>2. op.step = "append" /\ op.ends = ends
      BY Zenon
    <3>3. \/ room' = [acted EXCEPT !.accepted = @ \cup {row}] /\ Goto(Who, op)
          \/ AbortTableAndNotify(FALSE) /\ Finish(Who)
      BY <3>1, Zenon
    <3> QED BY <2>2, <2>3, <3>2, <3>3, Zenon
<1>14. CASE ActTask
  <2>1. Due("act")
    BY <1>14 DEF ActTask
  <2> QED BY <1>4, <1>13, <1>14, <2>1 DEF ActTask
<1>15. CASE UnreadyToLeave
  <2>1. Due("unready_to_leave") /\ Who \in Owners
    BY <1>1, <1>15 DEF UnreadyToLeave
  <2>2. \/ Fails(Who)
        \/ /\ MaySetReady(FALSE) /\ SetReady(FALSE)
           /\ Goto(Who, [ops[Who] EXCEPT !.step = "cash"]) \/ Finish(Who)
    BY <1>15, Zenon DEF UnreadyToLeave
  <2>3. Goto(Who, [ops[Who] EXCEPT !.step = "cash"]) \/ Finish(Who) => Moves(Who)
    BY <1>2, <2>1, HandlerMoves
  <2> QED BY <1>4, <1>8, <2>1, <2>2, <2>3, Zenon
<1>16. CASE RemovePlayer
  <2>1. Due("remove") /\ Who \in Owners
    BY <1>1, <1>16 DEF RemovePlayer
  <2>2. ASSUME Open, NEW ready, Finish(Who), UNCHANGED <<store, refunds>>,
               room' = [room EXCEPT !.seats[Who] = None, !.ready = ready, !.sequence = @ + 1]
        PROVE  PlayInv'
    <3>1. room # NoRoom /\ Resumed(room, room')
      BY <1>5, <2>2, RoomResumes, Zenon DEF Open
    <3>2. Moves(Who)
      BY <1>2, <2>1, <2>2, HandlerMoves
    <3> QED BY <1>3, <2>1, <2>2, <3>1, <3>2
  <2> QED BY <1>4, <1>16, <2>1, <2>2, Zenon DEF RemovePlayer
<1>17. CASE LookTask
  <2>1. UNCHANGED <<ops, store, refunds>>
    BY <1>17 DEF LookTask
  <2>2. \/ UNCHANGED room
        \/ room # NoRoom /\ room' = [room EXCEPT !.sequence = @ + 1]
    BY <1>17 DEF LookTask, Open
  <2>3. UNCHANGED room \/ (room # NoRoom /\ Resumed(room, room'))
    BY <1>5, <2>2, RoomResumes, Zenon
  <2> QED BY <2>1, <2>3, AsidePlays
<1>18. CASE CheckTimer
  <2>1. UNCHANGED <<room, store, refunds>>
    BY <1>18, Zenon DEF CheckTimer
  <2>2. CASE UNCHANGED ops
    BY <2>1, <2>2, AsidePlays
  <2>3. ASSUME NEW op, BeginTableOperation(Timer, op), op.step = "timeout" PROVE PlayInv'
    <3>1. Timer \in Owners /\ ~fence /\ \A y \in Owners : ~Busy(y)
      BY <1>2, <2>3, Unowned DEF Owners, BeginTableOperation
    <3>2. Moves(Timer)
      BY <2>3, Zenon DEF BeginTableOperation, Moves
    <3> QED BY <2>1, <3>1, <3>2, MovePlays
  <2> QED
    <3>1. UNCHANGED ops \/ \E id, actor, sequence :
            BeginTableOperation(Timer, [step |-> "timeout", room |-> id, actor |-> actor,
                                        sequence |-> sequence])
      BY <1>18, Zenon DEF CheckTimer
    <3> QED BY <2>2, <2>3, <3>1, Zenon
<1>19. CASE OnActionTimeout
  <2>1. Due("timeout")
    BY <1>19, Zenon DEF OnActionTimeout
  <2> QED BY <1>4, <1>13, <1>19, <2>1, Zenon DEF OnActionTimeout
<1> QED
  BY <1>6, <1>7, <1>9, <1>10, <1>11, <1>12, <1>14, <1>15, <1>16, <1>17, <1>18, <1>19, Zenon DEF RoomTask

\* A storage thread stores a hand that is in play, and lets go of one that is
\* settled or whose table is closed.
LEMMA StoragePlays ==
  ASSUME PlayInv, GuardInv', NEW x \in Owners, StorageTask(x)
  PROVE  PlayInv'
<1> USE DEF RoomSteps
<1>1. ASSUME NEW step, step \notin RoomSteps \cup {"none"}, InStorage(x, step)
      PROVE  Busy(x) /\ ops[x].step = step /\ \A y \in Owners : Busy(y) => y = x
  BY <1>1, AtStorage, Zenon DEF PlayInv, GuardInv, InStorage
<1>2. OwnerInv /\ DOMAIN store = StoreFields
  BY DEF PlayInv, GuardInv
<1>3. ASSUME NEW step, step \notin RoomSteps \cup {"none", "settle", "abort", "append"},
             InStorage(x, step), Moves(x), UNCHANGED <<room, refunds>>, store'.status = store.status
      PROVE  PlayInv'
  <2>1. ~Closes(ops[x])
    BY <1>1, <1>3, Zenon DEF Closes
  <2> QED BY <1>1, <1>3, <2>1, MovePlays, Zenon
<1>4. ASSUME Abort(x), UNCHANGED room, \A y \in Owners : Busy(y) => y = x PROVE PlayInv'
  <2> PICK op : op = [step |-> "abort", room |-> made]
    BY Zenon
  <2>1. ops' = [ops EXCEPT ![x] = op] /\ op.step = "abort"
    BY <1>4 DEF Abort, Goto
  <2>2. InPlay' => room'.actor \in DOMAIN room'.start
    BY <1>4, Zenon DEF PlayInv, InPlay, Running
  <2> QED BY <1>4, <2>1, <2>2, OwnerPlays, Zenon DEF Closes
<1>5. CASE Reserve(x)
  <2>1. InStorage(x, "reserve") /\ UNCHANGED refunds
    BY <1>5 DEF Reserve
  <2>2. Moves(x)
    <3>1. \/ Finish(x)
          \/ Goto(x, [ops[x] EXCEPT !.step = "seat"]) \/ Goto(x, [ops[x] EXCEPT !.step = "refused"])
      BY <1>5, Zenon DEF Reserve
    <3> QED BY <1>2, <3>1, HandlerMoves
  <2>3. store'.status = store.status
    <3>1. UNCHANGED store \/ \E result \in ReserveBuyIn(x, ops[x].request) : store' = result[1]
      BY <1>5, Zenon DEF Reserve
    <3> QED BY <1>2, <3>1, StatusStays
  <2>4. UNCHANGED room \/ (room = NoRoom /\ room' = NewRoom(made + 1))
    BY <1>5, Zenon DEF Reserve
  <2>5. CASE UNCHANGED room
    BY <1>3, <2>1, <2>2, <2>3, <2>5
  <2>6. CASE room = NoRoom /\ room' = NewRoom(made + 1)
    <3>1. ~InPlay /\ ~InPlay'
      BY <2>6, Zenon DEF InPlay, NewRoom, Running
    <3>2. Busy(x) /\ ~Closes(ops[x]) /\ \A y \in Owners : Busy(y) => y = x
      BY <1>1, <2>1 DEF Closes
    <3>3. store.status = "playing" => refunds # {}
      BY <3>1, <3>2, OpenHand
    <3>4. PICK op : ops' = [ops EXCEPT ![x] = op] /\ op.step \notin {"audit", "begin"}
      BY <2>2, Zenon DEF Moves
    <3> QED BY <2>1, <2>3, <3>1, <3>2, <3>3, <3>4, OwnerPlays, Zenon
  <2> QED BY <2>4, <2>5, <2>6
<1>6. CASE SeatRefused(x)
  <2>1. InStorage(x, "refused")
    BY <1>6 DEF SeatRefused
  <2>2. CASE AbortTableAndNotify(FALSE) /\ Finish(x)
    BY <1>1, <2>1, <2>2, ClosingPlays, Zenon
  <2>3. CASE Goto(x, [ops[x] EXCEPT !.step = "rollback"]) /\ UNCHANGED <<room, store, refunds>>
    <3>1. Moves(x)
      BY <1>2, <2>3, HandlerMoves
    <3> QED BY <1>3, <2>1, <2>3, <3>1
  <2> QED BY <1>6, <2>2, <2>3, Zenon DEF SeatRefused, RollBackSeat
<1>7. CASE RollBack(x)
  <2>1. InStorage(x, "rollback") /\ UNCHANGED <<room, refunds>>
    BY <1>7 DEF RollBack, Call
  <2>2. PICK result \in CashOut(x, "rollback", ops[x].request) :
          store' = result[1] /\ (Done(x) \/ Abort(x))
    BY <1>7, Zenon DEF RollBack, Call
  <2>3. store'.status = store.status
    BY <1>2, <2>2, StatusStays, Zenon
  <2>4. Done(x) => Moves(x)
    BY <1>2, HandlerMoves DEF Done
  <2> QED BY <1>1, <1>3, <1>4, <2>1, <2>2, <2>3, <2>4, Zenon
<1>8. CASE PersistStart(x)
  <2>1. InStorage(x, "begin") /\ UNCHANGED <<room, refunds>>
    BY <1>8 DEF PersistStart, Call
  <2>2. InPlay /\ room.actor \in DOMAIN room.start
    BY <2>1, Zenon DEF PlayInv, InStorage
  <2>3. InPlay' /\ room'.actor \in DOMAIN room'.start
    BY <2>1, <2>2 DEF InPlay, Running
  <2>4. \E op : ops' = [ops EXCEPT ![x] = op]
    BY <1>8, Zenon DEF PersistStart, Call, ThenSnapshot, Done, Finish
  <2> QED BY <1>1, <2>1, <2>3, <2>4, OwnerPlays, Zenon
<1>9. CASE PersistAction(x)
  <2>1. InStorage(x, "append") /\ UNCHANGED <<room, refunds>>
    BY <1>9 DEF PersistAction, Call
  <2>2. PICK result \in AppendAction(ops[x].row) :
          /\ store' = result[1]
          /\ \/ ops[x].ends = <<>> /\ Finish(x)
             \/ Goto(x, [ops[x] EXCEPT !.step = "settle"])
             \/ Abort(x)
    BY <1>9, Zenon DEF PersistAction, Call, Played
  <2>3. store'.status = store.status
    BY <1>2, <2>2, StatusStays
  <2>4. Busy(x) /\ ops[x].step = "append" /\ \A y \in Owners : Busy(y) => y = x
    BY <1>1, <2>1
  <2>5. CASE ops[x].ends = <<>> /\ Finish(x)
    <3>1. ~Closes(ops[x])
      BY <2>4, <2>5, Zenon DEF Closes
    <3>2. Moves(x)
      BY <1>2, <2>5, HandlerMoves
    <3> QED BY <2>1, <2>3, <2>4, <3>1, <3>2, MovePlays, Zenon
  <2>6. CASE Goto(x, [ops[x] EXCEPT !.step = "settle"])
    <3> PICK op : op = [ops[x] EXCEPT !.step = "settle"]
      BY Zenon
    <3>1. ops' = [ops EXCEPT ![x] = op] /\ op.step = "settle"
      BY <1>2, <2>6, NextStep DEF Goto
    <3>2. InPlay' => room'.actor \in DOMAIN room'.start
      BY <2>1 DEF PlayInv, InPlay, Running
    <3> QED BY <2>4, <3>1, <3>2, OwnerPlays, Zenon DEF Closes
  <2> QED BY <1>4, <2>1, <2>2, <2>4, <2>5, <2>6
<1>10. CASE PersistSettlement(x)
  <2>1. InStorage(x, "settle") /\ UNCHANGED <<room, refunds>>
    BY <1>10 DEF PersistSettlement, Call
  <2>2. PICK result \in SettleHand(ops[x].row.hand, ops[x].start, ops[x].ends) :
          store' = result[1] /\ ((Succeeds(result) /\ Finish(x)) \/ Abort(x))
    BY <1>10, Zenon DEF PersistSettlement, Call, Played
  <2>3. CASE Succeeds(result) /\ Finish(x)
    <3>1. store'.status # "playing"
      BY <1>2, <2>2, <2>3, SettleWaits, Zenon
    <3>2. PICK op : ops' = [ops EXCEPT ![x] = op] /\ op.step \notin {"audit", "begin"}
      BY <1>2, <2>3, HandlerMoves, Zenon DEF Moves
    <3>3. InPlay' => room'.actor \in DOMAIN room'.start
      BY <2>1, Zenon DEF PlayInv, InPlay, Running
    <3> QED BY <1>1, <2>1, <3>1, <3>2, <3>3, OwnerPlays, Zenon
  <2> QED BY <1>1, <1>4, <2>1, <2>2, <2>3, Zenon
<1>11. CASE AbortTable(x)
  <2>1. InStorage(x, "abort") /\ AbortTableAndNotify(TRUE) /\ Finish(x)
    BY <1>11, Zenon DEF AbortTable
  <2> QED BY <1>1, <2>1, ClosingPlays, Zenon
<1>12. CASE PersistLeave(x)
  <2>1. InStorage(x, "cash") /\ UNCHANGED <<room, refunds>>
    BY <1>12 DEF PersistLeave, Call
  <2>2. PICK result \in CashOut(x, "cash", ops[x].request) :
          store' = result[1] /\ (Finish(x) \/ Goto(x, [ops[x] EXCEPT !.step = "remove"]))
    BY <1>12, Zenon DEF PersistLeave, Call, Done
  <2>3. store'.status = store.status
    BY <1>2, <2>2, StatusStays
  <2>4. Moves(x)
    BY <1>2, <2>2, HandlerMoves
  <2> QED BY <1>3, <2>1, <2>3, <2>4
<1> QED
  BY <1>5, <1>6, <1>7, <1>8, <1>9, <1>10, <1>11, <1>12, Zenon DEF StorageTask

\* A refund that is dropped has aborted the table.
LEMMA RetryPlays ==
  ASSUME PlayInv, GuardInv', NEW r \in refunds, RefundTimer(r) \/ RetryRefund(r)
  PROVE  PlayInv'
<1>1. UNCHANGED <<room, ops>>
  BY DEF RefundTimer, RetryRefund
<1>2. CASE RefundTimer(r)
  BY <1>1, <1>2, AsidePlays, Zenon DEF RefundTimer
<1>3. CASE RetryRefund(r)
  <2>1. PICK result \in AbortTableAndRefund :
          /\ store' = result[1]
          /\ refunds' = (refunds \ {r}) \cup (IF Succeeds(result) THEN {} ELSE {Later(r)})
    BY <1>3 DEF RetryRefund
  <2>2. Succeeds(result) => store'.status = "aborted"
    BY <2>1, RefundAborts, Zenon DEF PlayInv, GuardInv
  <2>3. store'.status = "playing" => store.status = "playing"
    <3>1. UNCHANGED store \/ store'.status = "aborted"
      BY <2>1, RefundRows, Zenon DEF PlayInv, GuardInv
    <3> QED BY <3>1
  <2>4. ~Succeeds(result) => refunds' # {}
    BY <2>1
  <2> QED BY <1>1, <2>2, <2>3, <2>4, AsidePlays
<1> QED BY <1>2, <1>3

\* The database never keeps a hand open that the room has finished or lost: its
\* command settles it or closes the table, and a table that is closed is refunded,
\* whichever call fails, loses its reply or finds a queue full
\* (protocol_service.cpp:928-990, 1420-1500).  Hands that the blinds settle are
\* excepted: see StoredHandIsPlayed.
THEOREM StoredHandsPlayed == Spec => []StoredHandIsPlayed
<1> DEFINE Inv == GuardInv /\ (BlindsSettle \/ PlayInv)
<1>1. Init => Inv
  <2> SUFFICES ASSUME Init PROVE PlayInv
    BY GuardAtStart
  <2>1. GuardInv
    BY GuardAtStart
  <2>2. store.status = "waiting" /\ ~InPlay
    BY DEF Init, InPlay
  <2>3. \A x \in Owners : ops[x].step = "none"
    BY DEF Init, NoOp
  <2> QED BY <2>1, <2>2, <2>3 DEF PlayInv
<1>2. Inv /\ [Next]_<<vars, setup>> => Inv'
  <2> SUFFICES ASSUME GuardInv, BlindsSettle \/ PlayInv, [Next]_<<vars, setup>> PROVE Inv'
    OBVIOUS
  <2>1. GuardInv'
    BY GuardKept
  <2>2. BlindsSettle' <=> BlindsSettle
    BY DEF Next, BlindsSettle
  <2>3. ASSUME PlayInv, ~BlindsSettle PROVE PlayInv'
    <3>1. ASSUME UNCHANGED <<room, refunds, store, ops>> PROVE PlayInv'
      BY <2>1, <2>3, <3>1, AsidePlays
    <3>2. CASE Command
      <4>1. UNCHANGED <<room, refunds, store>>
        BY <3>2, Zenon DEF Command, Ready, Unready, Look, SitDown, Action,
           LeaveTable, AskRoom
      <4>2. ASSUME NEW u \in Users, NEW op, BeginTableOperation(u, op), op.step \notin {"audit",
      "begin"}
            PROVE  PlayInv'
        <5>1. u \in Owners /\ ~fence /\ \A y \in Owners : ~Busy(y)
          BY <2>3, <4>2, Unowned, Zenon DEF Owners, BeginTableOperation, PlayInv,
             GuardInv
        <5>2. Moves(u)
          BY <4>2, Zenon DEF BeginTableOperation, Moves
        <5> QED BY <2>1, <2>3, <4>1, <5>1, <5>2, MovePlays
      <4>3. \A step, request : Op(step, request).step = step
        BY DEF Op
      <4>4. \/ UNCHANGED ops
            \/ \E u \in Users : \E request :
                 \E step \in {"reserve", "ready", "unready", "act", "unready_to_leave"} :
                   BeginTableOperation(u, Op(step, request))
        BY <3>2, Zenon DEF Command, Ready, Unready, Look, SitDown, Action, LeaveTable, AskRoom
      <4> QED BY <3>1, <4>1, <4>2, <4>3, <4>4
    <3>3. ASSUME NEW t \in timers, TimerFires(t) PROVE PlayInv'
      BY <3>1, <3>3, Zenon DEF TimerFires
    <3>4. CASE UNCHANGED <<vars, setup>>
      BY <3>1, <3>4 DEF vars
    <3> QED BY <2>1, <2>3, <3>2, <3>3, <3>4, RoomPlays, StoragePlays, RetryPlays DEF Next
  <2> QED BY <2>1, <2>2, <2>3
<1>3. Inv => StoredHandIsPlayed
  <2> SUFFICES ASSUME PlayInv, ~fence PROVE StoredHandIsPlayed
    BY DEF StoredHandIsPlayed
  <2>1. store.status = "playing" => refunds # {} \/ InPlay
    BY OpenHand
  <2> QED BY <2>1 DEF StoredHandIsPlayed, InPlay
<1> QED BY <1>1, <1>2, <1>3, PTL DEF Spec
=============================================================================
