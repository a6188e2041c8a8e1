--------------------------- MODULE StorageThreads ---------------------------
(***************************************************************************)
(* The threads that talk to MySQL and the connections they share: the      *)
(* workers of storage_executor, the thread of coordination_executor, and   *)
(* the connection pool, from service to shutdown.                          *)
(*                                                                         *)
(* Sources: infrastructure/mysql_connection_pool.cpp,                      *)
(* application/blocking_executor.cpp, apps/server/main.cpp.                *)
(*                                                                         *)
(* Each critical section is a step, and so is each notify that follows one *)
(* outside its lock.  A handle is a MYSQL*; the address of a closed one    *)
(* may be used again.  Which of the available handles is taken makes no    *)
(* difference here, so available_ is a set.  A task is one store call,     *)
(* whose lease is given back when it ends, also by an exception.           *)
(***************************************************************************)
EXTENDS Naturals, FiniteSets

CONSTANTS
  StorageWorkers,      \* threads of storage_executor
  Coordinator,  \* the thread of coordination_executor
  Handles,      \* addresses of connections
  Pool,         \* the handles opened at the start
  MaxPending,   \* storage_executor's max_pending
  Posters,      \* bound: threads that post at the same time
  NoHandle

ASSUME HandlesAssumption ==
  IsFiniteSet(Handles) /\ Pool \subseteq Handles /\ NoHandle \notin Handles
ASSUME ThreadsAssumption == IsFiniteSet(StorageWorkers) /\ Coordinator \notin StorageWorkers

VARIABLES
  tasks,      \* tasks in storage_executor's queue
  bells,      \* posts whose notify_one is still to come
  pc,         \* what each thread is doing
  job,        \* "call": a store call; "ping": the pool's health check
  using,      \* the handle each thread holds
  all,        \* all_
  available,  \* available_
  link,       \* each handle: free, or its connection clean, dirty, broken
  database,   \* MySQL accepts connections
  phase       \* of main

executor == <<tasks, bells>>
pool == <<all, available>>
threadsVars == <<tasks, bells, pc, job, using, all, available, link, database, phase>>

Threads == StorageWorkers \cup {Coordinator}
Steps == {"asleep", "awake", "acquire", "waiting", "woken", "ping", "broken", "leased",
          "spoilt", "return", "notify", "gone"}
At(step) == {th \in Threads : pc[th] = step}

\* The pool is built before the threads start.
ThreadsInit ==
  /\ tasks = 0 /\ bells = 0
  /\ pc = [th \in Threads |-> IF th = Coordinator THEN "asleep" ELSE "awake"]
  /\ job = [th \in Threads |-> "call"] /\ using = [th \in Threads |-> NoHandle]
  /\ all = Pool /\ available = Pool
  /\ link = [h \in Handles |-> IF h \in Pool THEN "clean" ELSE "free"]
  /\ database = TRUE /\ phase = "serving"

Goes(th, step) == pc' = [pc EXCEPT ![th] = step]

\* A worker that is done looks for the next task, the coordinator for the next
\* tick of its timer.
Rest(th) == IF th = Coordinator THEN "asleep" ELSE "awake"

-----------------------------------------------------------------------------
(* BlockingExecutor *)

Stopping == phase \in {"storage", "destroyed"}

MayPost == ~Stopping /\ tasks < MaxPending

\* Fault: only the first task of an empty queue is announced.
Announces_First == tasks = 0

\* post always calls notify_one.
Announces == TRUE

Post ==
  /\ MayPost /\ bells < Posters
  /\ tasks' = tasks + 1
  /\ bells' = IF Announces THEN bells + 1 ELSE bells
  /\ UNCHANGED <<pc, job, using, pool, link, database, phase>>

\* notify_one, after the lock is released.
Ring ==
  /\ bells > 0 /\ bells' = bells - 1
  /\ IF At("asleep") \cap StorageWorkers = {} THEN UNCHANGED pc
     ELSE \E w \in At("asleep") \cap StorageWorkers : Goes(w, "awake")
  /\ UNCHANGED <<tasks, job, using, pool, link, database, phase>>

\* Fault: a stopping executor drops what is left in its queue.
MayLeave_AtOnce == Stopping

MayLeave == Stopping /\ tasks = 0

\* run: leave, take a task, or wait for one.
Run(w) ==
  /\ pc[w] = "awake"
  /\ IF MayLeave THEN Goes(w, "gone") /\ UNCHANGED tasks
     ELSE IF tasks > 0 THEN Goes(w, "acquire") /\ tasks' = tasks - 1
     ELSE Goes(w, "asleep") /\ UNCHANGED tasks
  /\ UNCHANGED <<bells, job, using, pool, link, database, phase>>

\* The coordinator's timer: the heartbeat pings the pool and, like the sweep,
\* calls the store.
CoordinatorTick ==
  /\ pc[Coordinator] = "asleep" /\ phase = "serving"
  /\ Goes(Coordinator, "acquire")
  /\ \E kind \in {"call", "ping"} : job' = [job EXCEPT ![Coordinator] = kind]
  /\ UNCHANGED <<executor, using, pool, link, database, phase>>

-----------------------------------------------------------------------------
(* MySqlConnectionPool *)

\* acquire and ping take a handle that is available.  A thread whose time has
\* run out looks once more.
Take(th) ==
  /\ pc[th] \in {"acquire", "waiting", "woken"}
  /\ \E h \in available :
       /\ available' = available \ {h}
       /\ using' = [using EXCEPT ![th] = h]
  /\ Goes(th, "ping")
  /\ UNCHANGED <<executor, job, all, link, database, phase>>

Wait(th) ==
  /\ pc[th] \in {"acquire", "woken"} /\ available = {}
  /\ Goes(th, "waiting")
  /\ UNCHANGED <<executor, job, using, pool, link, database, phase>>

\* The caller gets no lease.
TimeOut(th) ==
  /\ pc[th] \in {"waiting", "woken"} /\ available = {}
  /\ Goes(th, Rest(th))
  /\ UNCHANGED <<executor, job, using, pool, link, database, phase>>

\* mysql_ping, without the lock.
Ping(th) ==
  /\ pc[th] = "ping"
  /\ Goes(th, IF link[using[th]] = "broken" THEN "broken"
              ELSE IF job[th] = "ping" THEN "return" ELSE "leased")
  /\ UNCHANGED <<executor, job, using, pool, link, database, phase>>

\* Fault: after a replacement the failed handle is used on.
Replacement_Forgotten(th, new) == using[th]

\* The handle that goes on being used once new is connected.
Replacement(th, new) == new

\* replaceConnection: the new connection takes the place of the failed one,
\* which nobody else knows any more and is closed.
ReplaceConnection(th) ==
  /\ pc[th] \in {"broken", "spoilt"} /\ database
  /\ \E new \in {h \in Handles : link[h] = "free"} :
       /\ all' = (all \ {using[th]}) \cup {new}
       /\ link' = [link EXCEPT ![using[th]] = "free", ![new] = "clean"]
       /\ using' = [using EXCEPT ![th] = Replacement(th, new)]
  /\ Goes(th, IF pc[th] = "broken" /\ job[th] = "call" THEN "leased" ELSE "return")
  /\ UNCHANGED <<executor, job, available, database, phase>>

\* Without a replacement the failed handle goes back as it is.
ReplacementFails(th) ==
  /\ pc[th] \in {"broken", "spoilt"}
  /\ Goes(th, "return")
  /\ UNCHANGED <<executor, job, using, pool, link, database, phase>>

\* Statements of a store call: its transaction begins, and ends.
Statement(th) ==
  /\ pc[th] = "leased" /\ link[using[th]] # "broken"
  /\ link' = [link EXCEPT ![using[th]] = IF @ = "clean" THEN "dirty" ELSE "clean"]
  /\ UNCHANGED <<executor, pc, job, using, pool, database, phase>>

\* giveBack: mysql_rollback and mysql_autocommit.
RolledBack(h) == "clean"

GiveBack(th) ==
  /\ pc[th] = "leased"
  /\ IF link[using[th]] = "broken"
     THEN Goes(th, "spoilt") /\ UNCHANGED link
     ELSE /\ Goes(th, "return")
          /\ link' = [link EXCEPT ![using[th]] = RolledBack(using[th])]
  /\ UNCHANGED <<executor, job, using, pool, database, phase>>

ReturnAvailable(th) ==
  /\ pc[th] = "return"
  /\ available' = available \cup {using[th]}
  /\ using' = [using EXCEPT ![th] = NoHandle]
  /\ Goes(th, "notify")
  /\ UNCHANGED <<executor, job, all, link, database, phase>>

\* notify_one, after the lock is released; then the caller goes its way.
Notify(th) ==
  /\ pc[th] = "notify"
  /\ IF At("waiting") = {} THEN Goes(th, Rest(th))
     ELSE \E v \in At("waiting") : pc' = [pc EXCEPT ![th] = Rest(th), ![v] = "woken"]
  /\ UNCHANGED <<executor, job, using, pool, link, database, phase>>

-----------------------------------------------------------------------------
(* The database, and the end of main *)

LinkBreaks(h) ==
  /\ link[h] \in {"clean", "dirty"}
  /\ link' = [link EXCEPT ![h] = "broken"]
  /\ UNCHANGED <<executor, pc, job, using, pool, database, phase>>

DatabaseStops ==
  /\ database /\ database' = FALSE
  /\ link' = [h \in Handles |-> IF link[h] = "free" THEN "free" ELSE "broken"]
  /\ UNCHANGED <<executor, pc, job, using, pool, phase>>

DatabaseStarts ==
  /\ ~database /\ database' = TRUE
  /\ UNCHANGED <<executor, pc, job, using, pool, link, phase>>

\* coordination_executor.stop() and its join.
StopCoordination ==
  /\ phase = "serving" /\ phase' = "coordination"
  /\ UNCHANGED <<executor, pc, job, using, pool, link, database>>

CoordinatorLeaves ==
  /\ phase # "serving" /\ pc[Coordinator] = "asleep"
  /\ Goes(Coordinator, "gone")
  /\ UNCHANGED <<executor, job, using, pool, link, database, phase>>

\* storage_executor.stop() wakes every worker.
StopStorage ==
  /\ phase = "coordination" /\ pc[Coordinator] = "gone"
  /\ phase' = "storage"
  /\ pc' = [th \in Threads |-> IF pc[th] = "asleep" THEN "awake" ELSE pc[th]]
  /\ UNCHANGED <<executor, job, using, pool, link, database>>

\* The join of the workers, then the pool's destructor.
DestroyPool ==
  /\ phase = "storage" /\ At("gone") = Threads
  /\ phase' = "destroyed"
  /\ all' = {} /\ available' = {}
  /\ link' = [h \in Handles |-> "free"]
  /\ UNCHANGED <<executor, pc, job, using, database>>

ThreadStep(th) ==
  \/ Take(th) \/ Wait(th) \/ TimeOut(th) \/ Ping(th) \/ ReplaceConnection(th)
  \/ ReplacementFails(th) \/ GiveBack(th) \/ ReturnAvailable(th) \/ Notify(th)

Main == StopCoordination \/ CoordinatorLeaves \/ StopStorage \/ DestroyPool

ThreadsNext ==
  \/ Post \/ Ring \/ CoordinatorTick \/ Main \/ DatabaseStops \/ DatabaseStarts
  \/ \E w \in StorageWorkers : Run(w)
  \/ \E th \in Threads : ThreadStep(th) \/ Statement(th)
  \/ \E h \in Handles : LinkBreaks(h)

ThreadsSpec == ThreadsInit /\ [][ThreadsNext]_threadsVars

\* Threads run, calls of MySQL return, the time to wait for a connection runs
\* out, and a stop that has begun goes on.
ThreadsFairness ==
  /\ WF_threadsVars(Ring)
  /\ \A w \in StorageWorkers : WF_threadsVars(Run(w))
  /\ \A th \in Threads : WF_threadsVars(ThreadStep(th)) /\ WF_threadsVars(Take(th) \/ TimeOut(th))
  /\ WF_threadsVars(CoordinatorLeaves \/ StopStorage \/ DestroyPool)

FairThreadsSpec == ThreadsSpec /\ ThreadsFairness

-----------------------------------------------------------------------------
(* Properties *)

\* A MYSQL* is not safe for two threads and must not be used once closed.  Every
\* open handle of the pool is either available or held by one thread, whatever
\* fails on the way, and no thread or list keeps a closed one
\* (mysql_connection_pool.cpp:93-188).
EveryHandleOnce ==
  /\ \A h \in Handles : link[h] # "free" <=> h \in all
  /\ \A h \in all :
       IF h \in available THEN \A th \in Threads : using[th] # h
       ELSE \E th \in Threads : using[th] = h /\ \A v \in Threads : using[v] = h => v = th
  /\ available \subseteq all
  /\ \A th \in Threads : using[th] # NoHandle => using[th] \in all

\* docs/architecture.md:66: what is given back has been rolled back, so no call
\* starts inside the transaction of another (mysql_connection_pool.cpp:146-153).
AvailableIsClean == \A h \in available : link[h] # "dirty"

\* A thread does not sleep beside work it was to be woken for: while one waits
\* for a connection, or for a task, each that is there has a wake-up under way
\* (mysql_connection_pool.cpp:155-164, blocking_executor.cpp:25-38).
NoLostWakeup ==
  /\ At("waiting") # {} =>
       Cardinality(available) <= Cardinality(At("woken")) + Cardinality(At("notify"))
  /\ At("asleep") \cap StorageWorkers # {} => tasks <= bells + Cardinality(At("awake"))

\* Every call ends, with a connection or without, and a shutdown runs the tasks
\* that were accepted before it closes the pool
\* (main.cpp:194-196, blocking_executor.cpp:40-78).
ShutdownEnds ==
  /\ \A th \in Threads : []<>(pc[th] \in {"asleep", "awake", "gone"})
  /\ phase = "coordination" ~> phase = "destroyed" /\ tasks = 0
=============================================================================
