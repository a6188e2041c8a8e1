-------------------------- MODULE IdempotencyCache --------------------------
(***************************************************************************)
(* The replay cache of src/src/poker/application/idempotency_cache.cpp for *)
(* one user, with the commands ProtocolService runs under it: beginRequest *)
(* asks the cache, reply completes the entry, and a new authentication of  *)
(* the user resets it while commands of the old connection still run.      *)
(***************************************************************************)
EXTENDS Integers, Sequences, FiniteSets

CONSTANTS
  Requests, Unanswered,
  MaxRequests,     \* max_requests_per_user
  MaxSequence,     \* bound on client_sequence
  MaxConnections   \* bound on how often the user authenticates

ASSUME CacheAssumption ==
  /\ {MaxRequests, MaxSequence, MaxConnections} \subseteq Nat \ {0}
  /\ Unanswered \notin Requests

VARIABLES
  last,        \* last_sequence
  entries,     \* request id -> the command whose response is cached, or Unanswered
  order,       \* insertion_order
  connection,  \* how often the user has authenticated
  running,     \* commands accepted and not yet answered
  accepted     \* every command accepted so far

CacheInit ==
  /\ last = 0
  /\ entries = <<>>
  /\ order = <<>>
  /\ connection = 1
  /\ running = {}
  /\ accepted = {}

\* evictOldest: the oldest answered entries, as many as make room for one more.
Evicted(cache) ==
  LET answered == {i \in DOMAIN order : cache[order[i]] # Unanswered}
      surplus == Cardinality(DOMAIN cache) - MaxRequests + 1
  IN {order[i] : i \in {j \in answered : Cardinality({k \in answered : k < j}) < surplus}}

Kept(queue, gone) == SelectSeq(queue, LAMBDA r : r \notin gone)

\* Fault: only gaps are refused.
InSequence_NoGap(sequence) == sequence <= last + 1

InSequence(sequence) == sequence = last + 1

\* Fault: one entry too many.
Full_OffByOne(cache) == Cardinality(DOMAIN cache) > MaxRequests

Full(cache) == Cardinality(DOMAIN cache) >= MaxRequests

\* begin.  Duplicates and commands out of sequence are answered without a
\* change; a full cache evicts what it may and then refuses.
Begin(request, sequence) ==
  /\ request \notin DOMAIN entries
  /\ InSequence(sequence)
  /\ LET gone == Evicted(entries)
         left == [r \in DOMAIN entries \ gone |-> entries[r]]
         command == [connection |-> connection, request |-> request, sequence |-> sequence]
     IN IF Full(left)
        THEN /\ entries' = left
             /\ order' = Kept(order, gone)
             /\ UNCHANGED <<last, running, accepted>>
        ELSE /\ entries' = [r \in DOMAIN left \cup {request} |->
                              IF r = request THEN Unanswered ELSE left[r]]
             /\ order' = Append(Kept(order, gone), request)
             /\ last' = sequence
             /\ running' = running \cup {command}
             /\ accepted' = accepted \cup {command}
  /\ UNCHANGED connection

\* reply calls complete, which finds the entry by the request id alone.
Complete(command) ==
  /\ command \in running
  /\ running' = running \ {command}
  /\ entries' = IF command.request \in DOMAIN entries
                THEN [entries EXCEPT ![command.request] = command] ELSE entries
  /\ UNCHANGED <<last, order, connection, accepted>>

\* A new authentication of the user.
Reset ==
  /\ connection < MaxConnections
  /\ connection' = connection + 1
  /\ last' = 0
  /\ entries' = <<>>
  /\ order' = <<>>
  /\ UNCHANGED <<running, accepted>>

-----------------------------------------------------------------------------
Commands == [connection : 1 .. connection, request : Requests, sequence : 1 .. MaxSequence]

\* The cache keeps its representation, and never holds more than it may.
TypeOK ==
  /\ last \in 0 .. MaxSequence
  /\ DOMAIN entries \subseteq Requests
  /\ Cardinality(DOMAIN entries) <= MaxRequests
  /\ \A r \in DOMAIN entries : entries[r] = Unanswered \/ entries[r] \in accepted
  /\ running \subseteq accepted /\ accepted \subseteq Commands

\* docs/architecture.md:78: a command that is still running keeps its entry, so
\* that a retransmission of it is recognised.  The exception is a request id
\* that an earlier connection used: complete knows ids, not connections, and the
\* late answer to the old command makes the new one's entry look answered.
RunningIsKept ==
  \A c \in running :
    \/ c.connection # connection
    \/ c.request \in DOMAIN entries
    \/ \E d \in accepted : d.request = c.request /\ d.connection < connection

\* docs/protocol.md:27: on one connection a client_sequence carries one command;
\* a retransmitted one is not run again, even once its entry has been evicted.
OncePerConnection ==
  \A c, d \in accepted :
    c.connection = d.connection /\ c.sequence = d.sequence => c = d
=============================================================================
