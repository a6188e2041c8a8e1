---------------------------- MODULE ReceiveProofs ---------------------------
(***************************************************************************)
(* The receive path of a connection, for any cache, any rate, any header,  *)
(* any load of a client and any way the stream is cut.                     *)
(*                                                                         *)
(* A client_sequence carries one command, a command that runs keeps its    *)
(* entry, the cache keeps its size, and the token bucket its bound.        *)
(*                                                                         *)
(* The decoder returns the payloads that were sent, in their order, and    *)
(* refuses no frame of a client that keeps to the protocol.  PathInv says  *)
(* it of the bytes: what decode has not read and what is on the way is, at *)
(* every moment, the encoding of what was sent and not returned.           *)
(***************************************************************************)
EXTENDS ReceivePath, SequenceTheorems, FiniteSetTheorems, TLAPS

-----------------------------------------------------------------------------
(* The receive path *)

\* What the commands accepted so far say about the next one: those of this
\* connection have a number that is not after last, those of others come earlier.
SequenceInv ==
  /\ last \in Nat /\ connection \in Nat
  /\ \A c \in accepted :
       /\ c.connection \in Nat /\ c.connection <= connection
       /\ c.connection = connection => c.sequence \in Nat /\ c.sequence <= last
  /\ OncePerConnection

\* begin accepts the number after last and nothing else
\* (idempotency_cache.cpp:31).
LEMMA BeginKeepsSequence ==
  ASSUME NEW request, NEW sequence, SequenceInv, Begin(request, sequence)
  PROVE  SequenceInv'
<1> DEFINE command == [connection |-> connection, request |-> request, sequence |-> sequence]
<1>1. /\ sequence = last + 1 /\ connection' = connection
      /\ \/ last' = last /\ accepted' = accepted
         \/ last' = sequence /\ accepted' = accepted \cup {command}
  BY DEF Begin, InSequence
<1>2. CASE last' = last /\ accepted' = accepted
  BY <1>1, <1>2 DEF SequenceInv, OncePerConnection
<1>3. CASE last' = sequence /\ accepted' = accepted \cup {command}
  <2>1. command.connection = connection /\ command.sequence = last + 1
    BY <1>1
  <2>2. \A c \in accepted : ~(c.connection = connection /\ c.sequence = last + 1)
    BY DEF SequenceInv
  <2>3. OncePerConnection'
    BY <1>3, <2>1, <2>2 DEF SequenceInv, OncePerConnection
  <2>4. QED
    BY <1>1, <1>3, <2>1, <2>3 DEF SequenceInv
<1>4. QED
  BY <1>1, <1>2, <1>3, Zenon

\* Every step of the path keeps what is known of the numbers.
LEMMA SequenceKept == SequenceInv /\ [PathNext]_pathVars => SequenceInv'
<1> SUFFICES ASSUME SequenceInv, [PathNext]_pathVars PROVE SequenceInv'
  OBVIOUS
<1> DEFINE Same == UNCHANGED <<last, connection, accepted>>
<1>1. ASSUME Same PROVE SequenceInv'
  BY <1>1 DEF SequenceInv, OncePerConnection
<1>2. ASSUME NEW payload, Send(payload) PROVE Same
  BY <1>2 DEF Send, cache
<1>3. ASSUME NEW size, Receive(size) PROVE Same
  BY <1>3 DEF Receive, cache
<1>4. CASE HandleFrame
  <2>1. Same \/ Begin(Head(frames)[1], Head(frames)[2])
    BY <1>4 DEF HandleFrame, cache
  <2>2. QED
    BY <1>1, <2>1, BeginKeepsSequence
<1>5. ASSUME NEW command, Answer(command) PROVE Same
  BY <1>5 DEF Answer, Complete
<1>6. CASE Authenticate
  BY <1>6 DEF Authenticate, Reset, SequenceInv, OncePerConnection
<1>7. CASE ClockTicks \/ UNCHANGED pathVars
  BY <1>1, <1>7 DEF ClockTicks, pathVars, cache
<1>8. QED
  BY <1>1, <1>2, <1>3, <1>4, <1>5, <1>6, <1>7 DEF PathNext

\* A retransmitted command is not run again on its connection, whatever the cache
\* has evicted (docs/protocol.md:27, idempotency_cache.cpp:31).
THEOREM CommandsOnce == PathSpec => []OncePerConnection
<1>1. PathInit => SequenceInv
  BY DEF PathInit, CacheInit, SequenceInv, OncePerConnection
<1>2. SequenceInv => OncePerConnection
  BY DEF SequenceInv
<1>3. QED
  BY <1>1, <1>2, SequenceKept, PTL DEF PathSpec
-----------------------------------------------------------------------------
\* A request id that a command of an earlier connection has carried.
UsedBefore(request) == \E d \in accepted : d.request = request /\ d.connection < connection

\* Why eviction spares running commands: their entries have no answer yet, and two
\* of them share an entry only in the case that RunningIsKept excepts.
UnansweredInv ==
  /\ SequenceInv /\ running \subseteq accepted
  /\ \A c \in running :
       c.connection = connection =>
         \/ c.request \in DOMAIN entries /\ entries[c.request] = Unanswered
         \/ UsedBefore(c.request)
  /\ \A c, d \in running :
       c.connection = connection /\ d.connection = connection /\ c.request = d.request
         => c = d \/ UsedBefore(c.request)

\* evictOldest removes answered entries only (idempotency_cache.cpp:78).
LEMMA EvictedIsAnswered == \A r \in Evicted(entries) : entries[r] # Unanswered
BY Zenon DEF Evicted

\* begin makes an entry without an answer and evicts none that runs.
LEMMA BeginKeepsUnanswered ==
  ASSUME NEW request, NEW sequence, UnansweredInv, Begin(request, sequence)
  PROVE  UnansweredInv'
<1> DEFINE gone == Evicted(entries)
           left == [r \in DOMAIN entries \ gone |-> entries[r]]
           command == [connection |-> connection, request |-> request, sequence |-> sequence]
<1>1. SequenceInv'
  BY BeginKeepsSequence DEF UnansweredInv
<1>2. /\ connection' = connection /\ request \notin DOMAIN entries
      /\ \/ entries' = left /\ UNCHANGED <<running, accepted>>
         \/ /\ entries' = [r \in DOMAIN left \cup {request} |-> IF r = request THEN Unanswered ELSE left[r]]
            /\ running' = running \cup {command}
            /\ accepted' = accepted \cup {command}
  BY ZenonT(30) DEF Begin
<1>3. \A r \in DOMAIN entries : entries[r] = Unanswered => r \in DOMAIN left /\ left[r] = Unanswered
  BY EvictedIsAnswered
<1>4. \A r : UsedBefore(r) => UsedBefore(r)'
  BY <1>2 DEF UsedBefore
<1> HIDE DEF left, gone
<1>5. \A r \in DOMAIN entries : entries[r] = Unanswered => r \in DOMAIN entries' /\ entries'[r] = Unanswered
  BY <1>2, <1>3
<1>6. CASE UNCHANGED <<running, accepted>>
  BY <1>1, <1>2, <1>4, <1>5, <1>6 DEF UnansweredInv
<1>7. CASE /\ entries' = [r \in DOMAIN left \cup {request} |-> IF r = request THEN Unanswered ELSE left[r]]
           /\ running' = running \cup {command}
           /\ accepted' = accepted \cup {command}
  <2>1. request \in DOMAIN entries' /\ entries'[request] = Unanswered
    BY <1>7
  <2>2. QED
    BY <1>1, <1>2, <1>4, <1>5 DEF UnansweredInv
<1>8. QED
  BY <1>2, <1>6, <1>7

\* Every step of the path keeps what is known of running commands: an answer
\* marks the entry of its own command, or one that RunningIsKept excepts.
LEMMA UnansweredKept == UnansweredInv /\ [PathNext]_pathVars => UnansweredInv'
<1> SUFFICES ASSUME UnansweredInv, [PathNext]_pathVars PROVE UnansweredInv'
  OBVIOUS
<1>1. SequenceInv'
  BY SequenceKept DEF UnansweredInv
<1>2. ASSUME UNCHANGED cache PROVE UnansweredInv'
  BY <1>1, <1>2 DEF UnansweredInv, UsedBefore, cache
<1>3. ASSUME NEW payload, Send(payload) PROVE UnansweredInv'
  BY <1>2, <1>3 DEF Send
<1>4. ASSUME NEW size, Receive(size) PROVE UnansweredInv'
  BY <1>2, <1>4 DEF Receive
<1>5. CASE HandleFrame
  <2>1. UNCHANGED cache \/ Begin(Head(frames)[1], Head(frames)[2])
    BY <1>5 DEF HandleFrame
  <2>2. QED
    BY <1>2, <2>1, BeginKeepsUnanswered
<1>6. ASSUME NEW command \in running, Answer(command) PROVE UnansweredInv'
  <2>1. /\ running' = running \ {command} /\ UNCHANGED <<connection, accepted>>
        /\ entries' = IF command.request \in DOMAIN entries
                      THEN [entries EXCEPT ![command.request] = command] ELSE entries
    BY <1>6 DEF Answer, Complete
  <2>2. \A r : UsedBefore(r)' <=> UsedBefore(r)
    BY <2>1 DEF UsedBefore
  <2>3. command.connection = connection \/ UsedBefore(command.request)
    BY DEF UnansweredInv, SequenceInv, UsedBefore
  <2>4. ASSUME NEW c \in running', c.connection = connection, ~UsedBefore(c.request)
        PROVE  c.request \in DOMAIN entries' /\ entries'[c.request] = Unanswered
    <3>1. c.request # command.request
      BY <2>1, <2>3, <2>4 DEF UnansweredInv
    <3>2. c.request \in DOMAIN entries /\ entries[c.request] = Unanswered
      BY <2>1, <2>4 DEF UnansweredInv
    <3>3. QED
      BY <2>1, <3>1, <3>2
  <2>5. QED
    BY <1>1, <2>1, <2>2, <2>4 DEF UnansweredInv
<1>7. CASE Authenticate
  BY <1>1, <1>7 DEF Authenticate, Reset, UnansweredInv, SequenceInv
<1>8. CASE ClockTicks \/ UNCHANGED pathVars
  BY <1>2, <1>8 DEF ClockTicks, pathVars
<1>9. QED
  BY <1>2, <1>3, <1>4, <1>5, <1>6, <1>7, <1>8 DEF PathNext

\* A command that still runs keeps its entry whatever a full cache evicts, so that
\* a retransmission of it is recognised (docs/architecture.md:78,
\* idempotency_cache.cpp:73).
THEOREM RunningKept == PathSpec => []RunningIsKept
<1>1. PathInit => UnansweredInv
  BY DEF PathInit, CacheInit, UnansweredInv, SequenceInv, OncePerConnection
<1>2. UnansweredInv => RunningIsKept
  BY DEF UnansweredInv, UsedBefore, RunningIsKept
<1>3. QED
  BY <1>1, <1>2, UnansweredKept, PTL DEF PathSpec
-----------------------------------------------------------------------------
\* What has been let through and what is left were there at the start or have
\* been earned by the last refill.
BucketInv ==
  /\ load \in Loads /\ clock \in Nat
  /\ bucket \in [tokens : Nat, filled : Nat, passed : Nat]
  /\ bucket.tokens <= Burst
  /\ bucket.filled <= clock
  /\ bucket.passed + bucket.tokens <= Burst + bucket.filled * Rate

\* The refill of allow never gives more than the time since the last one has
\* earned (token_bucket.cpp:19-23).
LEMMA RefillIsEarned ==
  ASSUME BucketInv
  PROVE  /\ Refilled \in [tokens : Nat, filled : Nat, passed : Nat]
         /\ Refilled.tokens <= Burst /\ Refilled.filled = clock
         /\ Refilled.passed = bucket.passed
         /\ Refilled.passed + Refilled.tokens <= Burst + clock * Rate
<1> DEFINE gained == bucket.tokens + (clock - bucket.filled) * Rate
<1>1. Rate \in Nat /\ Burst \in Nat
  BY BucketAssumption DEF BucketInv, Burst
<1>2. clock - bucket.filled \in Nat /\ bucket.filled \in Nat /\ clock \in Nat
  BY DEF BucketInv
<1>3. (clock - bucket.filled) * Rate = clock * Rate - bucket.filled * Rate
  BY <1>1, <1>2
<1>4. (clock - bucket.filled) * Rate \in Nat /\ clock * Rate \in Nat /\ bucket.filled * Rate \in Nat
  BY <1>1, <1>2
<1>5. gained \in Nat /\ bucket.passed + gained <= Burst + clock * Rate
  BY <1>1, <1>3, <1>4 DEF BucketInv
<1>6. Refilled = [tokens |-> IF gained > Burst THEN Burst ELSE gained,
                  filled |-> clock, passed |-> bucket.passed]
  BY DEF BucketInv, Refilled
<1> HIDE DEF gained
<1>7. QED
  BY <1>1, <1>5, <1>6 DEF BucketInv

\* Every step of the path keeps the account of the bucket.
LEMMA BucketKept == BucketInv /\ [PathNext]_pathVars => BucketInv'
<1> SUFFICES ASSUME BucketInv, [PathNext]_pathVars PROVE BucketInv'
  OBVIOUS
<1> DEFINE Same == UNCHANGED <<load, clock, bucket>>
<1>1. ASSUME Same PROVE BucketInv'
  BY <1>1 DEF BucketInv, Burst
<1>2. ASSUME NEW payload, Send(payload) PROVE Same
  BY <1>2 DEF Send
<1>3. ASSUME NEW size, Receive(size) PROVE Same
  BY <1>3 DEF Receive
<1>4. CASE HandleFrame
  <2>1. /\ UNCHANGED <<load, clock>>
        /\ \/ bucket' = Refilled
           \/ /\ Refilled.tokens >= 1
              /\ bucket' = [tokens |-> Refilled.tokens - 1, filled |-> Refilled.filled,
                            passed |-> Refilled.passed + 1]
    BY <1>4, RefillIsEarned DEF HandleFrame
  <2>2. clock * Rate \in Nat /\ Burst \in Nat /\ Burst' = Burst
    BY <2>1, BucketAssumption DEF BucketInv, Burst
  <2> HIDE DEF Refilled
  <2>3. CASE bucket' = Refilled
    BY <2>1, <2>2, <2>3, RefillIsEarned DEF BucketInv
  <2>4. CASE /\ Refilled.tokens >= 1
             /\ bucket' = [tokens |-> Refilled.tokens - 1, filled |-> Refilled.filled,
                            passed |-> Refilled.passed + 1]
    <3>1. /\ bucket'.tokens = Refilled.tokens - 1 /\ bucket'.filled = clock
          /\ bucket'.passed = Refilled.passed + 1
          /\ bucket' \in [tokens : Nat, filled : Nat, passed : Nat]
      BY <2>4, RefillIsEarned
    <3>2. QED
      BY <2>1, <2>2, <3>1, RefillIsEarned, SMTT(20) DEF BucketInv
  <2>5. QED
    BY <2>1, <2>3, <2>4
<1>5. ASSUME NEW command, Answer(command) PROVE Same
  BY <1>5 DEF Answer, path
<1>6. CASE Authenticate
  BY <1>6, BucketAssumption DEF Authenticate, NewConnection, FullBucket, BucketInv, Burst
<1>7. CASE ClockTicks
  BY <1>7 DEF ClockTicks, BucketInv, Burst
<1>8. CASE UNCHANGED pathVars
  BY <1>1, <1>8 DEF pathVars, path
<1>9. QED
  BY <1>1, <1>2, <1>3, <1>4, <1>5, <1>6, <1>7, <1>8 DEF PathNext

\* However the frames are spread over time, a connection gets through no more than
\* the burst and rate times its age (token_bucket.cpp:18-29).
THEOREM RateIsBounded == PathSpec => []RateBound
<1>1. PathInit => BucketInv
  BY BucketAssumption DEF PathInit, FullBucket, BucketInv, Burst
<1>2. ASSUME BucketInv PROVE RateBound
  <2>1. bucket.filled * Rate <= clock * Rate /\ bucket.filled * Rate \in Nat /\ clock * Rate \in Nat
    BY <1>2, BucketAssumption DEF BucketInv
  <2>2. Burst \in Nat
    BY <1>2, BucketAssumption DEF BucketInv, Burst
  <2>3. QED
    BY <1>2, <2>1, <2>2 DEF BucketInv, RateBound
<1>3. QED
  BY <1>1, <1>2, BucketKept, PTL DEF PathSpec

-----------------------------------------------------------------------------

\* Induction up to a number.
LEMMA UpTo ==
  ASSUME NEW N \in Nat, NEW T, 0 \in T, \A k \in 0 .. N - 1 : k \in T => k + 1 \in T
  PROVE  0 .. N \subseteq T
<1> DEFINE Bad == {k \in 0 .. N : k \notin T}
           Up == {0 .. k : k \in Bad}
<1>1. IsFiniteSet(0 .. N)
  BY FS_Interval
<1>2. IsWellFoundedOn(StrictSubsetOrdering(0 .. N), SUBSET (0 .. N))
  BY <1>1, FS_StrictSubsetOrderingWellFounded, FS_FiniteSubsetsOfFinite, Zenon
<1>3. ASSUME NEW j \in Bad PROVE FALSE
  <2>1. Up \subseteq SUBSET (0 .. N) /\ Up # {}
    BY <1>3
  <2>2. PICK s \in Up : \A r \in Up : ~(<<r, s>> \in StrictSubsetOrdering(0 .. N))
    <3> HIDE DEF Up
    <3> QED BY <1>2, <2>1, WFMin, Zenon
  <2>3. PICK k \in Bad : s = 0 .. k
    BY <2>2
  <2>4. k # 0 /\ k - 1 \in 0 .. N - 1 /\ k - 1 + 1 = k
    BY <2>3
  <2>5. k - 1 \notin T
    BY <2>3, <2>4
  <2>6. 0 .. (k - 1) \in Up
    BY <2>4, <2>5
  <2>7. <<0 .. (k - 1), s>> \in StrictSubsetOrdering(0 .. N)
    <3>1. 0 .. (k - 1) \subseteq 0 .. k /\ k \in 0 .. k /\ k \notin 0 .. (k - 1)
      BY <2>3
    <3>2. 0 .. (k - 1) \in SUBSET (0 .. N) /\ s \in SUBSET (0 .. N)
      BY <2>1, <2>2, <2>6
    <3> QED BY <2>3, <3>1, <3>2 DEF StrictSubsetOrdering
  <2> QED BY <2>2, <2>6, <2>7, Zenon
<1> QED BY <1>3

\* The values of f from 0 to N are in S; the first one is a, and g makes each one out
\* of the one before.
Iterated(f, N, S, a, g) ==
  f \in [0 .. N -> S] /\ f[0] = a /\ \A i \in 1 .. N : f[i] = g[<<i, f[i - 1]>>]

\* There is such a function.
LEMMA Iterates ==
  ASSUME NEW N \in Nat, NEW S, NEW a \in S, NEW g \in [(1 .. N) \X S -> S]
  PROVE  \E f : Iterated(f, N, S, a, g)
<1> DEFINE T == {n \in 0 .. N : \E f : Iterated(f, n, S, a, g)}
<1>1. 0 \in T
  <2>1. PICK f : f = [i \in 0 .. 0 |-> a]
    BY Zenon
  <2>2. f \in [0 .. 0 -> S] /\ f[0] = a /\ 1 .. 0 = {}
    BY <2>1
  <2>3. Iterated(f, 0, S, a, g)
    BY <2>2 DEF Iterated
  <2> QED BY <2>3
<1>2. ASSUME NEW k \in 0 .. N - 1, k \in T PROVE k + 1 \in T
  <2>0. PICK f : Iterated(f, k, S, a, g)
    BY <1>2
  <2>1. f \in [0 .. k -> S] /\ f[0] = a /\ \A i \in 1 .. k : f[i] = g[<<i, f[i - 1]>>]
    BY <2>0 DEF Iterated
  <2>2. PICK h : h = [i \in 0 .. k + 1 |-> IF i = k + 1 THEN g[<<k + 1, f[k]>>] ELSE f[i]]
    BY Zenon
  <2>3. k \in 0 .. k /\ f[k] \in S /\ k + 1 \in 1 .. N /\ g[<<k + 1, f[k]>>] \in S
    BY <2>1
  <2>4. h \in [0 .. k + 1 -> S]
    BY <2>1, <2>2, <2>3
  <2>5. h[k + 1] = g[<<k + 1, f[k]>>] /\ \A i \in 0 .. k : h[i] = f[i]
    BY <2>2
  <2>6. h[0] = a
    BY <2>1, <2>5
  <2>7. ASSUME NEW i \in 1 .. k + 1 PROVE h[i] = g[<<i, h[i - 1]>>]
    <3>1. CASE i = k + 1
      <4>1. i - 1 = k
        BY <3>1
      <4> QED BY <2>3, <2>5, <3>1, <4>1
    <3>2. CASE i # k + 1
      <4>1. i \in 1 .. k /\ i \in 0 .. k /\ i - 1 \in 0 .. k
        BY <3>2
      <4> QED BY <2>1, <2>5, <4>1
    <3> QED BY <3>1, <3>2
  <2>8. Iterated(h, k + 1, S, a, g)
    BY <2>4, <2>6, <2>7 DEF Iterated
  <2> QED BY <2>8
<1> HIDE DEF T
<1>3. 0 .. N \subseteq T
  BY <1>1, <1>2, UpTo
<1> QED BY <1>3 DEF T

\* Each shift divides by Base.
LEMMA ShiftedDivides ==
  ASSUME NEW size \in Nat
  PROVE  /\ Shifted(size) \in [0 .. HeaderSize -> Nat]
         /\ Shifted(size)[0] = size
         /\ \A i \in 1 .. HeaderSize : Shifted(size)[i] = Shifted(size)[i - 1] \div Base
<1>1. HeaderSize \in Nat /\ Base \in Nat /\ Base > 0
  BY CodecAssumption
<1> DEFINE Is(by) == by = [i \in 0 .. HeaderSize |-> IF i = 0 THEN size ELSE by[i - 1] \div Base]
<1>2. \E by : Is(by)
  <2>1. PICK g : g = [x \in (1 .. HeaderSize) \X Nat |-> x[2] \div Base]
    BY Zenon
  <2>2. g \in [(1 .. HeaderSize) \X Nat -> Nat]
    BY <1>1, <2>1
  <2>0. PICK f : Iterated(f, HeaderSize, Nat, size, g)
    BY <1>1, <2>2, Iterates, Zenon
  <2>3. /\ f \in [0 .. HeaderSize -> Nat] /\ f[0] = size
        /\ \A i \in 1 .. HeaderSize : f[i] = g[<<i, f[i - 1]>>]
    BY <2>0 DEF Iterated
  <2>4. ASSUME NEW i \in 0 .. HeaderSize PROVE f[i] = IF i = 0 THEN size ELSE f[i - 1] \div Base
    <3>1. CASE i = 0
      BY <2>3, <3>1
    <3>2. CASE i # 0
      <4>1. i \in 1 .. HeaderSize /\ i - 1 \in 0 .. HeaderSize
        BY <1>1, <3>2
      <4>2. f[i - 1] \in Nat /\ f[i] = g[<<i, f[i - 1]>>]
        BY <2>3, <4>1
      <4> QED BY <2>1, <3>2, <4>1, <4>2
    <3> QED BY <3>1, <3>2
  <2>5. f = [i \in 0 .. HeaderSize |-> f[i]]
    BY <2>3
  <2>6. Is(f)
    BY <2>4, <2>5, Zenon
  <2> QED BY <2>6, Zenon
<1>3. PICK by : by = Shifted(size) /\ Is(by)
  BY <1>2, Zenon DEF Shifted
<1> HIDE DEF Is
<1>4. \A i \in 0 .. HeaderSize : by[i] = IF i = 0 THEN size ELSE by[i - 1] \div Base
  BY <1>3, Zenon DEF Is
<1>5. by[0] = size /\ \A i \in 1 .. HeaderSize : by[i] = by[i - 1] \div Base
  BY <1>1, <1>4
<1>6. ASSUME NEW k \in 0 .. HeaderSize - 1, by[k] \in Nat PROVE by[k + 1] \in Nat
  <2>1. k + 1 \in 1 .. HeaderSize /\ k + 1 - 1 = k
    BY <1>1
  <2> QED BY <1>1, <1>5, <1>6, <2>1
<1>7. 0 .. HeaderSize \subseteq {i \in 0 .. HeaderSize : by[i] \in Nat}
  <2> PICK T : T = {i \in 0 .. HeaderSize : by[i] \in Nat}
    BY Zenon
  <2>1. 0 \in T /\ \A k \in 0 .. HeaderSize - 1 : k \in T => k + 1 \in T
    BY <1>1, <1>5, <1>6
  <2> QED BY <1>1, <2>1, UpTo, Zenon
<1>8. DOMAIN by = 0 .. HeaderSize /\ by = [i \in 0 .. HeaderSize |-> by[i]]
  BY <1>3 DEF Is
<1> QED BY <1>3, <1>5, <1>7, <1>8, Zenon

\* peekLength reads the size that encode has written.
LEMMA PeekReadsHeader ==
  ASSUME NEW buffer, NEW offset \in Nat, NEW size \in 0 .. MaxFrame + 1,
         \A i \in 1 .. HeaderSize : buffer[offset + i] = Header(size)[i]
  PROVE  PeekLength(buffer, offset) = size
<1>1. HeaderSize \in Nat /\ Base \in Nat /\ Base > 0 /\ MaxFrame \in Nat /\ Shifted(size)[HeaderSize] = 0
  BY CodecAssumption
<1>2. PICK by : by = Shifted(size)
  OBVIOUS
<1>3. by \in [0 .. HeaderSize -> Nat] /\ by[0] = size /\ \A i \in 1 .. HeaderSize : by[i] = by[i - 1] \div Base
  <2>1. size \in Nat
    BY <1>1
  <2> QED BY <1>2, <2>1, ShiftedDivides
<1>4. ASSUME NEW i \in 1 .. HeaderSize
      PROVE  by[HeaderSize - i] = by[HeaderSize - (i - 1)] * Base + buffer[offset + i]
  <2>1. PICK n : n = by[HeaderSize - i]
    OBVIOUS
  <2>2. HeaderSize - i \in 0 .. HeaderSize /\ HeaderSize - (i - 1) \in 1 .. HeaderSize
        /\ HeaderSize - (i - 1) - 1 = HeaderSize - i
    BY <1>1
  <2>3. n \in Nat /\ by[HeaderSize - (i - 1)] = n \div Base
    BY <1>3, <2>1, <2>2
  <2>4. buffer[offset + i] = n % Base
    BY <1>2, <2>1 DEF Header
  <2>5. PICK q, r : q = n \div Base /\ r = n % Base
    OBVIOUS
  <2>6. n = q * Base + r
    <3>1. q \in Nat /\ r \in Nat
      BY <1>1, <2>3, <2>5
    <3>2. n = Base * q + r
      BY <1>1, <2>3, <2>5, <3>1
    <3>3. Base * q = q * Base
      BY <1>1, <3>1
    <3> QED BY <3>2, <3>3
  <2> QED BY <2>1, <2>3, <2>4, <2>5, <2>6, Zenon
<1> DEFINE Is(value) == value = [i \in 0 .. HeaderSize |->
                                   IF i = 0 THEN 0 ELSE value[i - 1] * Base + buffer[offset + i]]
<1>5. \E value : Is(value)
  <2>1. PICK f : f = [i \in 0 .. HeaderSize |-> by[HeaderSize - i]]
    BY Zenon
  <2>2. ASSUME NEW i \in 0 .. HeaderSize
        PROVE  f[i] = IF i = 0 THEN 0 ELSE f[i - 1] * Base + buffer[offset + i]
    <3>1. CASE i = 0
      BY <1>1, <1>2, <2>1, <3>1
    <3>2. CASE i # 0
      <4>1. i \in 1 .. HeaderSize /\ i - 1 \in 0 .. HeaderSize
        BY <1>1, <3>2
      <4>2. f[i] = by[HeaderSize - i] /\ f[i - 1] = by[HeaderSize - (i - 1)]
        BY <2>1, <4>1
      <4> QED BY <1>4, <3>2, <4>1, <4>2
    <3> QED BY <3>1, <3>2
  <2>3. f = [i \in 0 .. HeaderSize |-> f[i]]
    BY <2>1
  <2>4. Is(f)
    BY <2>2, <2>3, Zenon
  <2> QED BY <2>4, Zenon
<1>6. PICK value : Is(value) /\ PeekLength(buffer, offset) = value[HeaderSize]
  BY <1>5, Zenon DEF PeekLength
<1>7. value[0] = 0 /\ \A i \in 1 .. HeaderSize : value[i] = value[i - 1] * Base + buffer[offset + i]
  <2>1. \A i \in 0 .. HeaderSize : value[i] = IF i = 0 THEN 0 ELSE value[i - 1] * Base + buffer[offset + i]
    BY <1>6, Zenon
  <2> QED BY <1>1, <2>1
<1>8. PICK T : T = {i \in 0 .. HeaderSize : value[i] = by[HeaderSize - i]}
  BY Zenon
<1>9. 0 \in T
  BY <1>1, <1>2, <1>7, <1>8
<1>10. ASSUME NEW k \in 0 .. HeaderSize - 1, k \in T PROVE k + 1 \in T
  <2>1. k + 1 \in 1 .. HeaderSize /\ k + 1 - 1 = k
    BY <1>1
  <2>2. value[k + 1] = value[k] * Base + buffer[offset + (k + 1)]
    BY <1>7, <2>1
  <2>3. by[HeaderSize - (k + 1)] = by[HeaderSize - k] * Base + buffer[offset + (k + 1)]
    BY <1>4, <2>1
  <2>4. value[k] = by[HeaderSize - k]
    BY <1>8, <1>10
  <2> QED BY <1>1, <1>8, <2>1, <2>2, <2>3, <2>4
<1>11. HeaderSize \in T
  <2>1. 0 .. HeaderSize \subseteq T
    BY <1>1, <1>9, <1>10, UpTo
  <2> QED BY <1>1, <2>1
<1> QED BY <1>1, <1>3, <1>6, <1>8, <1>11

\* What clients and decoder exchange: bytes, which are request ids or numbers here, and
\* payloads whose size a header can hold.
Bytes == Requests \cup Nat
Sizes == 0 .. MaxFrame + 1
Sent == {p \in Seq(Bytes) : Len(p) \in Sizes}

\* A header is a sequence of numbers.
LEMMA HeaderType ==
  ASSUME NEW size \in Nat PROVE Header(size) \in Seq(Bytes) /\ Len(Header(size)) = HeaderSize
<1>1. HeaderSize \in Nat /\ Base \in Nat /\ Base > 0
  BY CodecAssumption
<1>2. ASSUME NEW i \in 1 .. HeaderSize PROVE Shifted(size)[HeaderSize - i] % Base \in Bytes
  <2>1. HeaderSize - i \in 0 .. HeaderSize
    BY <1>1
  <2>2. Shifted(size)[HeaderSize - i] \in Nat
    BY <2>1, ShiftedDivides, Zenon
  <2> QED BY <1>1, <2>2 DEF Bytes
<1>3. Header(size) \in [1 .. HeaderSize -> Bytes]
  BY <1>2 DEF Header
<1> QED BY <1>1, <1>3

\* So is an encoded frame, with the header in front.
LEMMA EncodeType ==
  ASSUME NEW p \in Sent
  PROVE  /\ Encode(p) \in Seq(Bytes) /\ Len(Encode(p)) = HeaderSize + Len(p)
         /\ \A i \in 1 .. HeaderSize : Encode(p)[i] = Header(Len(p))[i]
         /\ \A i \in 1 .. Len(p) : Encode(p)[HeaderSize + i] = p[i]
<1>1. PICK h : h = Header(Len(p))
  OBVIOUS
<1>2. p \in Seq(Bytes) /\ Len(p) \in Nat /\ HeaderSize \in Nat
  BY CodecAssumption DEF Sent, Sizes
<1>3. h \in Seq(Bytes) /\ Len(h) = HeaderSize
  BY <1>1, <1>2, HeaderType
<1>4. Encode(p) = h \o p
  BY <1>1 DEF Encode
<1>5. /\ h \o p \in Seq(Bytes) /\ Len(h \o p) = HeaderSize + Len(p)
      /\ \A i \in 1 .. HeaderSize + Len(p) : (h \o p)[i] = IF i <= HeaderSize THEN h[i] ELSE p[i - HeaderSize]
  BY <1>2, <1>3, ConcatProperties, Zenon
<1>6. ASSUME NEW i \in 1 .. Len(p) PROVE (h \o p)[HeaderSize + i] = p[i]
  <2>1. PICK j : j = HeaderSize + i
    OBVIOUS
  <2>2. j \in 1 .. HeaderSize + Len(p) /\ ~(j <= HeaderSize) /\ j - HeaderSize = i
    BY <1>2, <2>1
  <2>3. (h \o p)[j] = p[j - HeaderSize]
    BY <1>5, <2>2
  <2> QED BY <2>1, <2>2, <2>3
<1>7. \A i \in 1 .. HeaderSize : (h \o p)[i] = h[i]
  BY <1>2, <1>5
<1> QED BY <1>1, <1>4, <1>5, <1>6, <1>7, Zenon

\* f[i] is the bytes of the first i payloads, frame by frame.
Joins(f, ps) ==
  /\ f \in [0 .. Len(ps) -> Seq(Bytes)] /\ f[0] = <<>>
  /\ \A i \in 1 .. Len(ps) : f[i] = f[i - 1] \o Encode(ps[i])

\* There is such an f: encoding one payload more never fails.
LEMMA JoinsExist == ASSUME NEW ps \in Seq(Sent) PROVE \E f : Joins(f, ps)
<1>1. PICK T, n, e : T = Seq(Bytes) /\ n = Len(ps) /\ e = <<>>
  OBVIOUS
<1>2. n \in Nat /\ e \in T
  BY <1>1, EmptySeq
<1>3. PICK g : g = [x \in (1 .. n) \X T |-> x[2] \o Encode(ps[x[1]])]
  BY Zenon
<1>4. ASSUME NEW i \in 1 .. n, NEW s \in T PROVE s \o Encode(ps[i]) \in T
  <2>1. ps[i] \in Sent
    BY <1>1
  <2>2. Encode(ps[i]) \in Seq(Bytes) /\ s \in Seq(Bytes)
    BY <1>1, <2>1, EncodeType
  <2> QED BY <1>1, <2>2, ConcatProperties
<1>5. ASSUME NEW x \in (1 .. n) \X T PROVE x[2] \o Encode(ps[x[1]]) \in T
  <2>1. x[1] \in 1 .. n /\ x[2] \in T
    OBVIOUS
  <2> QED BY <1>4, <2>1
<1>6. g \in [(1 .. n) \X T -> T]
  BY <1>3, <1>5
<1>7. PICK f : Iterated(f, n, T, e, g)
  BY <1>2, <1>6, Iterates, Zenon
<1>8. f \in [0 .. n -> T] /\ f[0] = e /\ \A i \in 1 .. n : f[i] = g[<<i, f[i - 1]>>]
  BY <1>7 DEF Iterated
<1>9. ASSUME NEW i \in 1 .. n PROVE f[i] = f[i - 1] \o Encode(ps[i])
  <2>1. i - 1 \in 0 .. n
    BY <1>2
  <2>2. <<i, f[i - 1]>> \in (1 .. n) \X T
    BY <1>8, <2>1
  <2> QED BY <1>3, <1>8, <2>2, Zenon
<1> QED BY <1>1, <1>8, <1>9, Zenon DEF Joins

\* Encoded is the last of them.
LEMMA EncodedIs ==
  ASSUME NEW ps \in Seq(Sent), NEW f, Joins(f, ps)
  PROVE  Encoded(ps) = f[Len(ps)]
<1>1. PICK n : n = Len(ps)
  OBVIOUS
<1>2. /\ f \in [0 .. n -> Seq(Bytes)] /\ f[0] = <<>> /\ n \in Nat
      /\ \A i \in 1 .. n : f[i] = f[i - 1] \o Encode(ps[i])
  BY <1>1 DEF Joins
<1> DEFINE Is(h) == h = [i \in 0 .. Len(ps) |-> IF i = 0 THEN <<>> ELSE h[i - 1] \o Encode(ps[i])]
<1>3. \E h : Is(h)
  <2>1. ASSUME NEW i \in 0 .. n PROVE f[i] = IF i = 0 THEN <<>> ELSE f[i - 1] \o Encode(ps[i])
    <3>1. CASE i = 0
      BY <1>2, <3>1
    <3>2. CASE i # 0
      <4>1. i \in 1 .. n
        BY <1>2, <3>2
      <4> QED BY <1>2, <3>2, <4>1, Zenon
    <3> QED BY <3>1, <3>2
  <2>2. f = [i \in 0 .. n |-> f[i]]
    BY <1>2
  <2>3. Is(f)
    BY <1>1, <2>1, <2>2
  <2> QED BY <2>3
<1>4. PICK h : Is(h) /\ Encoded(ps) = h[Len(ps)]
  BY <1>3, Zenon DEF Encoded
<1>5. \A i \in 0 .. n : h[i] = IF i = 0 THEN <<>> ELSE h[i - 1] \o Encode(ps[i])
  BY <1>1, <1>4, Zenon
<1> HIDE DEF Is
<1>6. PICK T : T = {k \in 0 .. n : h[k] = f[k]}
  BY Zenon
<1>7. 0 \in T
  BY <1>2, <1>5, <1>6
<1>8. ASSUME NEW k \in 0 .. n - 1, k \in T PROVE k + 1 \in T
  <2>1. PICK j : j = k + 1
    OBVIOUS
  <2>2. j \in 1 .. n /\ j \in 0 .. n /\ j # 0 /\ j - 1 = k
    BY <1>2, <2>1
  <2>3. h[j] = h[k] \o Encode(ps[j]) /\ f[j] = f[k] \o Encode(ps[j])
    BY <1>2, <1>5, <2>2, Zenon
  <2>4. h[k] = f[k]
    BY <1>6, <1>8
  <2> QED BY <1>6, <2>1, <2>2, <2>3, <2>4, Zenon
<1>9. n \in T
  <2>1. 0 .. n \subseteq T
    BY <1>2, <1>7, <1>8, UpTo, Zenon
  <2> QED BY <1>2, <2>1
<1> QED BY <1>1, <1>4, <1>6, <1>9

\* Nothing sent is no byte.
LEMMA EncodedEmpty == Encoded(<<>>) = <<>>
<1>1. PICK e : e = <<>>
  OBVIOUS
<1>2. e \in Seq(Sent) /\ Len(e) = 0
  BY <1>1, EmptySeq
<1>3. PICK f : Joins(f, e)
  BY <1>2, JoinsExist, Zenon
<1>4. f[0] = <<>> /\ Encoded(e) = f[Len(e)]
  BY <1>2, <1>3, EncodedIs, Zenon DEF Joins
<1> QED BY <1>1, <1>2, <1>4

\* The bytes of one frame more come after those of the others: the socket appends to
\* what is on the way.
LEMMA EncodedAppend ==
  ASSUME NEW ps \in Seq(Sent), NEW p \in Sent
  PROVE  Encoded(Append(ps, p)) = Encoded(ps) \o Encode(p) /\ Encoded(Append(ps, p)) \in Seq(Bytes)
<1>1. PICK n, qs : n = Len(ps) /\ qs = Append(ps, p)
  BY Zenon
<1>2. /\ qs \in Seq(Sent) /\ Len(qs) = n + 1 /\ n \in Nat
      /\ \A i \in 1 .. n : qs[i] = ps[i]
      /\ qs[n + 1] = p
  BY <1>1, AppendProperties
<1>3. PICK f : Joins(f, qs)
  BY <1>2, JoinsExist
<1>4. Encoded(qs) = f[n + 1]
  BY <1>2, <1>3, EncodedIs
<1>5. /\ f \in [0 .. n + 1 -> Seq(Bytes)] /\ f[0] = <<>>
      /\ \A i \in 1 .. n + 1 : f[i] = f[i - 1] \o Encode(qs[i])
  BY <1>2, <1>3, Zenon DEF Joins
<1>6. PICK h : h = [i \in 0 .. n |-> f[i]]
  BY Zenon
<1>7. h \in [0 .. n -> Seq(Bytes)] /\ h[0] = <<>> /\ h[n] = f[n]
  <2>1. \A i \in 0 .. n : i \in 0 .. n + 1
    BY <1>2
  <2> QED BY <1>2, <1>5, <1>6, <2>1
<1>8. ASSUME NEW i \in 1 .. n PROVE h[i] = h[i - 1] \o Encode(ps[i])
  <2>1. i \in 1 .. n + 1 /\ i \in 0 .. n /\ i - 1 \in 0 .. n
    BY <1>2
  <2>2. f[i] = f[i - 1] \o Encode(qs[i]) /\ qs[i] = ps[i] /\ h[i] = f[i] /\ h[i - 1] = f[i - 1]
    BY <1>2, <1>5, <1>6, <2>1, Zenon
  <2> QED BY <2>2, Zenon
<1>9. Joins(h, ps)
  BY <1>1, <1>7, <1>8, Zenon DEF Joins
<1>10. Encoded(ps) = f[n]
  BY <1>1, <1>7, <1>9, EncodedIs
<1>11. f[n + 1] = f[n] \o Encode(p) /\ f[n + 1] \in Seq(Bytes)
  <2>1. PICK m : m = n + 1
    OBVIOUS
  <2>2. m \in 1 .. n + 1 /\ m - 1 = n /\ m \in 0 .. n + 1 /\ qs[m] = p
    BY <1>2, <2>1
  <2>3. f[m] = f[m - 1] \o Encode(qs[m]) /\ f[m] \in Seq(Bytes)
    BY <1>5, <2>2, Zenon
  <2> QED BY <2>1, <2>2, <2>3, Zenon
<1> QED BY <1>1, <1>4, <1>10, <1>11

\* Frames are bytes.
LEMMA EncodedType == ASSUME NEW ps \in Seq(Sent) PROVE Encoded(ps) \in Seq(Bytes)
<1>1. CASE ps = <<>>
  BY <1>1, EncodedEmpty, EmptySeq, Zenon
<1>2. CASE ps # <<>>
  <2>1. PICK qs \in Seq(Sent), p \in Sent : ps = Append(qs, p)
    BY <1>2, SequenceEmptyOrAppend
  <2> QED BY <2>1, EncodedAppend
<1> QED BY <1>1, <1>2

\* The bytes of the first frame come first: that is the one decode looks for.
LEMMA EncodedCons ==
  ASSUME NEW ps \in Seq(Sent), ps # <<>>
  PROVE  Encoded(ps) = Encode(Head(ps)) \o Encoded(Tail(ps))
<1>1. PICK N, p : N = Len(ps) - 1 /\ p = Head(ps)
  OBVIOUS
<1>2. N \in Nat /\ Len(ps) = N + 1 /\ p \in Sent /\ p = ps[1]
  BY <1>1
<1>3. PICK T : T = {k \in 0 .. N : Encoded(SubSeq(ps, 1, k + 1)) = Encode(p) \o Encoded(SubSeq(ps, 2, k + 1))}
  BY Zenon
<1>4. 0 \in T
  <2>1. SubSeq(ps, 1, 1) = <<p>> /\ SubSeq(ps, 2, 1) = <<>>
    <3>1. SubSeq(ps, 2, 1) = <<>>
      BY SubSeqEmpty
    <3>2. 1 \in 1 .. Len(ps) /\ 1 \in 1 .. Len(ps)
      BY <1>2
    <3>3. SubSeq(ps, 1, 1) = <<ps[1]>> \o SubSeq(ps, 2, 1)
      <4>1. SubSeq(ps, 1, 1) = <<ps[1]>> \o SubSeq(ps, 1 + 1, 1)
        BY <3>2, SubSeqRecursiveFirst
      <4>2. 1 + 1 = 2
        OBVIOUS
      <4> QED BY <4>1, <4>2, Zenon
    <3>4. <<p>> \o <<>> = <<p>>
      BY <1>2, ConcatEmptySeq
    <3> QED BY <1>2, <3>1, <3>3, <3>4, Zenon
  <2>2. <<p>> = Append(<<>>, p) /\ <<>> \in Seq(Sent)
    OBVIOUS
  <2>3. Encoded(<<p>>) = Encode(p)
    <3>1. Encoded(Append(<<>>, p)) = Encoded(<<>>) \o Encode(p)
      BY <1>2, <2>2, EncodedAppend, Zenon
    <3>2. <<>> \o Encode(p) = Encode(p)
      BY <1>2, EncodeType, ConcatEmptySeq
    <3> QED BY <2>2, <3>1, <3>2, EncodedEmpty, Zenon
  <2>4. Encode(p) \o <<>> = Encode(p)
    BY <1>2, EncodeType, ConcatEmptySeq
  <2>5. Encoded(SubSeq(ps, 1, 1)) = Encode(p) \o Encoded(SubSeq(ps, 2, 1))
    BY <2>1, <2>3, <2>4, EncodedEmpty, Zenon
  <2>6. 0 \in 0 .. N /\ 0 + 1 = 1
    BY <1>2
  <2> QED BY <1>3, <2>5, <2>6
<1>5. ASSUME NEW k \in 0 .. N - 1, k \in T PROVE k + 1 \in T
  <2>1. PICK a, b, q : a = SubSeq(ps, 1, k + 1) /\ b = SubSeq(ps, 2, k + 1) /\ q = ps[k + 2]
    BY Zenon
  <2>2. a \in Seq(Sent) /\ b \in Seq(Sent) /\ q \in Sent
    BY <1>2, <2>1
  <2>3. SubSeq(ps, 1, k + 2) = Append(a, q) /\ SubSeq(ps, 2, k + 2) = Append(b, q)
    BY <1>2, <2>1
  <2>4. Encoded(a) = Encode(p) \o Encoded(b)
    BY <1>3, <1>5, <2>1
  <2>5. Encoded(Append(a, q)) = Encoded(a) \o Encode(q) /\ Encoded(Append(b, q)) = Encoded(b) \o Encode(q)
    BY <2>2, EncodedAppend, Zenon
  <2>6. Encode(p) \in Seq(Bytes) /\ Encoded(b) \in Seq(Bytes) /\ Encode(q) \in Seq(Bytes)
    BY <1>2, <2>2, EncodeType, EncodedType
  <2>7. (Encode(p) \o Encoded(b)) \o Encode(q) = Encode(p) \o (Encoded(b) \o Encode(q))
    BY SMTT(20)
  <2>8. Encoded(SubSeq(ps, 1, k + 2)) = Encode(p) \o Encoded(SubSeq(ps, 2, k + 2))
    BY <2>3, <2>4, <2>5, <2>7, Zenon
  <2>9. k + 1 \in 0 .. N /\ k + 1 + 1 = k + 2
    BY <1>2
  <2> QED BY <1>3, <2>8, <2>9
<1>6. N \in T
  <2>1. 0 .. N \subseteq T
    BY <1>2, <1>4, <1>5, UpTo, Zenon
  <2> QED BY <1>2, <2>1
<1>7. SubSeq(ps, 1, N + 1) = ps /\ SubSeq(ps, 2, N + 1) = Tail(ps)
  BY <1>2, SubSeqFull, TailIsSubSeq
<1> QED BY <1>1, <1>3, <1>6, <1>7, Zenon

\* What the decoder has not read, with what is on the way.
Pending(buffer, offset, tail) == SubSeq(buffer, offset + 1, Len(buffer)) \o tail

\* Bytes are joined in any order.
JoinsAfter(a) ==
  \A b \in Seq(Bytes), c \in Seq(Bytes) : (a \o b) \o c = a \o (b \o c)

LEMMA BytesJoin == \A a \in Seq(Bytes) : JoinsAfter(a)
BY ConcatAssociative DEF JoinsAfter

\* A part of some bytes.
LEMMA BytesPart ==
  ASSUME NEW s, NEW m \in Int, NEW n \in Int, \A i \in m .. n : s[i] \in Bytes, NEW f,
         f = SubSeq(s, m, n)
  PROVE  /\ f \in Seq(Bytes) /\ Len(f) = IF m <= n THEN n - m + 1 ELSE 0
         /\ \A i \in 1 .. n - m + 1 : f[i] = s[m + i - 1]
BY SubSeqProperties

\* The part of a sequence after an offset.
LEMMA AfterPlace ==
  ASSUME NEW S, NEW s \in Seq(S), NEW offset \in 0 .. Len(s)
  PROVE  /\ SubSeq(s, offset + 1, Len(s)) \in Seq(S)
         /\ Len(SubSeq(s, offset + 1, Len(s))) = Len(s) - offset
         /\ \A i \in 1 .. Len(s) - offset : SubSeq(s, offset + 1, Len(s))[i] = s[offset + i]
<1>1. PICK m, n : m = offset + 1 /\ n = Len(s)
  OBVIOUS
<1>2. m \in Int /\ n \in Int /\ \A i \in m .. n : s[i] \in S
  BY <1>1
<1>3. /\ SubSeq(s, m, n) \in Seq(S)
      /\ Len(SubSeq(s, m, n)) = IF m <= n THEN n - m + 1 ELSE 0
      /\ \A i \in 1 .. n - m + 1 : SubSeq(s, m, n)[i] = s[m + i - 1]
  BY <1>2, SubSeqProperties
<1>4. n \in Nat /\ n - m + 1 = n - offset /\ (m > n => n - offset = 0) /\ \A i \in Nat : m + i - 1 = offset + i
  BY <1>1
<1>5. Len(SubSeq(s, m, n)) = n - offset
  BY <1>1, <1>3, <1>4
<1>6. ASSUME NEW i \in 1 .. n - offset PROVE SubSeq(s, m, n)[i] = s[offset + i]
  <2>1. i \in 1 .. n - m + 1 /\ m + i - 1 = offset + i
    BY <1>4
  <2>2. SubSeq(s, m, n)[i] = s[m + i - 1]
    BY <1>3, <2>1, Zenon
  <2> QED BY <2>1, <2>2
<1> QED BY <1>1, <1>3, <1>5, <1>6

\* The pending bytes are x and then y: what has arrived of x is in the buffer, and
\* reading x leaves y.
Splits(buffer, offset, tail, x, y) ==
  /\ Len(buffer) - offset <= Len(x) + Len(y)
  /\ \A i \in 1 .. Len(x) : offset + i <= Len(buffer) => buffer[offset + i] = x[i]
  /\ Len(x) <= Len(buffer) - offset => Pending(buffer, offset + Len(x), tail) = y

\* Wherever x ends, in the buffer or on the way, the pending bytes split there.
LEMMA Cut ==
  ASSUME NEW buffer \in Seq(Bytes), NEW offset \in 0 .. Len(buffer), NEW tail \in Seq(Bytes),
         NEW x \in Seq(Bytes), NEW y \in Seq(Bytes), Pending(buffer, offset, tail) = x \o y
  PROVE  Splits(buffer, offset, tail, x, y)
<1>1. PICK u : u = SubSeq(buffer, offset + 1, Len(buffer))
  BY Zenon
<1>2. /\ u \in Seq(Bytes) /\ Len(u) = Len(buffer) - offset
      /\ \A i \in 1 .. Len(buffer) - offset : u[i] = buffer[offset + i]
  BY <1>1, AfterPlace
<1>3. u \o tail = x \o y
  BY <1>1, Zenon DEF Pending
<1>4. /\ Len(u \o tail) = Len(u) + Len(tail)
      /\ \A i \in 1 .. Len(u) + Len(tail) : (u \o tail)[i] = IF i <= Len(u) THEN u[i] ELSE tail[i - Len(u)]
  BY <1>2, ConcatProperties, Zenon
<1>5. /\ Len(x \o y) = Len(x) + Len(y)
      /\ \A i \in 1 .. Len(x) + Len(y) : (x \o y)[i] = IF i <= Len(x) THEN x[i] ELSE y[i - Len(x)]
  BY ConcatProperties
<1>6. /\ Len(buffer) \in Nat /\ Len(u) \in Nat /\ Len(tail) \in Nat /\ Len(x) \in Nat /\ Len(y) \in Nat
      /\ Len(u) + Len(tail) = Len(x) + Len(y)
  BY <1>2, <1>3, <1>4, <1>5
<1>7. Len(buffer) - offset <= Len(x) + Len(y)
  BY <1>2, <1>6
<1>8. ASSUME NEW i \in 1 .. Len(x), i <= Len(u) PROVE u[i] = x[i]
  <2>1. i \in 1 .. Len(u) + Len(tail) /\ i \in 1 .. Len(x) + Len(y) /\ i <= Len(x)
    BY <1>6, <1>8
  <2>2. (u \o tail)[i] = u[i] /\ (x \o y)[i] = x[i]
    BY <1>4, <1>5, <1>8, <2>1
  <2> QED BY <1>3, <2>2
<1>9. ASSUME NEW i \in 1 .. Len(x), offset + i <= Len(buffer) PROVE buffer[offset + i] = x[i]
  <2>1. i \in 1 .. Len(buffer) - offset /\ i <= Len(u)
    BY <1>2, <1>6, <1>9
  <2> QED BY <1>2, <1>8, <2>1, Zenon
<1>10. ASSUME Len(x) <= Len(buffer) - offset PROVE Pending(buffer, offset + Len(x), tail) = y
  <2>1. PICK v, w : v = SubSeq(u, 1, Len(x)) /\ w = SubSeq(u, Len(x) + 1, Len(u))
    BY Zenon
  <2>2. Len(x) \in 0 .. Len(u)
    BY <1>2, <1>6, <1>10
  <2>3. w \in Seq(Bytes) /\ Len(w) = Len(u) - Len(x) /\ \A i \in 1 .. Len(u) - Len(x) : w[i] = u[Len(x) + i]
    BY <1>2, <2>1, <2>2, AfterPlace, Zenon
  <2>4. w = SubSeq(buffer, offset + Len(x) + 1, Len(buffer))
    <3>1. PICK o, z : o = offset + Len(x) /\ z = SubSeq(buffer, offset + Len(x) + 1, Len(buffer))
      BY Zenon
    <3>2. o \in 0 .. Len(buffer) /\ z = SubSeq(buffer, o + 1, Len(buffer))
      BY <1>6, <1>10, <3>1
    <3>3. z \in Seq(Bytes) /\ Len(z) = Len(buffer) - o /\ \A i \in 1 .. Len(buffer) - o : z[i] = buffer[o + i]
      BY <3>2, AfterPlace
    <3>4. Len(w) = Len(z)
      BY <1>2, <1>6, <2>3, <3>1, <3>3
    <3>5. ASSUME NEW i \in 1 .. Len(w) PROVE w[i] = z[i]
      <4>1. PICK j : j = Len(x) + i
        OBVIOUS
      <4>2. j \in 1 .. Len(buffer) - offset /\ offset + j = o + i /\ i \in 1 .. Len(buffer) - o /\ i \in 1 .. Len(u) - Len(x)
        BY <1>2, <2>3, <3>1, <4>1
      <4>3. w[i] = u[j] /\ u[j] = buffer[offset + j] /\ z[i] = buffer[o + i]
        BY <1>2, <2>3, <3>3, <4>1, <4>2, Zenon
      <4> QED BY <4>2, <4>3, Zenon
    <3>6. w = z
      BY <2>3, <3>3, <3>4, <3>5, SeqEqual, Zenon
    <3> QED BY <3>1, <3>6
  <2>5. v = x
    <3>1. \A i \in 1 .. Len(x) : u[i] \in Bytes
      BY <1>2, <2>2
    <3>2. 1 \in Int /\ Len(x) \in Int
      BY <1>6
    <3>3. /\ v \in Seq(Bytes) /\ Len(v) = IF 1 <= Len(x) THEN Len(x) - 1 + 1 ELSE 0
          /\ \A i \in 1 .. Len(x) - 1 + 1 : v[i] = u[1 + i - 1]
      BY <2>1, <3>1, <3>2, SubSeqProperties
    <3>4. Len(v) = Len(x) /\ \A i \in 1 .. Len(x) : v[i] = u[i]
      BY <1>6, <3>3
    <3>5. \A i \in 1 .. Len(v) : v[i] = x[i]
      BY <1>8, <2>2, <3>4
    <3> QED BY <3>3, <3>4, <3>5, SeqEqual, SMTT(20)
  <2>6. v \o w = u
    <3>1. PICK k, n : k = Len(x) /\ n = Len(u)
      BY Zenon
    <3>2. 1 \in 1 .. Len(u) + 1 /\ k \in 1 - 1 .. Len(u) /\ n \in k .. Len(u)
      BY <1>6, <2>2, <3>1
    <3>3. SubSeq(u, 1, k) \o SubSeq(u, k + 1, n) = SubSeq(u, 1, n)
      BY <1>2, <3>2, ConcatAdjacentSubSeq, Zenon
    <3>4. SubSeq(u, 1, n) = u
      BY <1>2, <3>1, SubSeqFull
    <3> QED BY <2>1, <3>1, <3>3, <3>4, Zenon
  <2>7. (x \o w) \o tail = x \o (w \o tail)
    <3>1. x \in Seq(Bytes) /\ w \in Seq(Bytes) /\ tail \in Seq(Bytes)
      BY <2>3
    <3>2. JoinsAfter(x)
      BY <3>1, BytesJoin, Zenon
    <3> QED BY <3>1, <3>2, Zenon DEF JoinsAfter
  <2>8. x \o (w \o tail) = x \o y
    BY <1>3, <2>5, <2>6, <2>7, Zenon
  <2>9. w \o tail = y
    <3>1. w \o tail \in Seq(Bytes)
      BY <2>3, ConcatProperties
    <3> QED BY <2>8, <3>1, ConcatSimplifications, Zenon
  <2> QED BY <2>4, <2>9, Zenon DEF Pending
<1> QED BY <1>7, <1>9, <1>10, Zenon DEF Splits

\* A state of the loop of feed: the frames taken are the first of those sent, all of
\* a size that may be sent, and what follows is still to be read.
Turns(buffer) == [frames : Seq(Sent), offset : 0 .. Len(buffer), failed : BOOLEAN]

\* All payloads have a size that encode accepts.
Legal(ps) == \A i \in DOMAIN ps : MayEncode(ps[i])

Fits(turn, buffer, tail, ps) ==
  /\ turn \in Turns(buffer)
  /\ Legal(turn.frames)
  /\ turn.failed => ~Legal(ps)
  /\ \E rest \in Seq(Sent) :
       ps = turn.frames \o rest /\ Pending(buffer, turn.offset, tail) = Encoded(rest)

\* One turn of the loop: it waits for bytes, takes the frame that was sent next, or
\* fails on a length that no client may send (length_field_codec.cpp:58-75).
LEMMA TurnFits ==
  ASSUME NEW buffer \in Seq(Bytes), NEW tail \in Seq(Bytes), NEW ps \in Seq(Sent),
         NEW turn, Fits(turn, buffer, tail, ps)
  PROVE  Fits(Turn(buffer, turn), buffer, tail, ps)
<1>1. PICK fs, offset : fs = turn.frames /\ offset = turn.offset
  OBVIOUS
<1>2. /\ turn \in Turns(buffer) /\ fs \in Seq(Sent) /\ offset \in 0 .. Len(buffer)
      /\ Legal(fs)
  BY <1>1 DEF Fits, Turns
<1>3. PICK rest \in Seq(Sent) : ps = fs \o rest /\ Pending(buffer, offset, tail) = Encoded(rest)
  BY <1>1, Zenon DEF Fits
<1>4. HeaderSize \in Nat /\ HeaderSize > 0 /\ MaxFrame \in Nat /\ Len(buffer) \in Nat
  BY CodecAssumption
<1>5. PICK length, end : length = PeekLength(buffer, offset) /\ end = offset + HeaderSize + length
  OBVIOUS
<1>6. Turn(buffer, turn) =
        IF turn.failed \/ Len(buffer) - offset < HeaderSize THEN turn
        ELSE IF length = 0 \/ length > MaxFrame THEN [turn EXCEPT !.failed = TRUE]
        ELSE IF Len(buffer) < end THEN turn
        ELSE [turn EXCEPT !.frames = Append(fs, SubSeq(buffer, offset + HeaderSize + 1, end)),
                          !.offset = end]
  BY <1>1, <1>5 DEF Turn
<1>7. CASE turn.failed \/ Len(buffer) - offset < HeaderSize
  BY <1>6, <1>7
<1>8. CASE ~(turn.failed \/ Len(buffer) - offset < HeaderSize)
  <2>1. rest # <<>>
    <3>1. SUFFICES ASSUME rest = <<>> PROVE FALSE
      OBVIOUS
    <3>2. Pending(buffer, offset, tail) = <<>> \o <<>>
      BY <1>3, <3>1, EncodedEmpty, EmptySeq, ConcatEmptySeq
    <3>3. <<>> \in Seq(Bytes) /\ Len(<<>>) = 0
      BY EmptySeq
    <3>4. Len(buffer) - offset <= Len(<<>>) + Len(<<>>)
      BY <1>2, <3>2, <3>3, Cut, Zenon DEF Splits
    <3> QED BY <1>2, <1>4, <1>8, <3>3, <3>4
  <2>2. PICK p, more : p = Head(rest) /\ more = Tail(rest)
    BY Zenon
  <2>3. p \in Sent /\ more \in Seq(Sent) /\ rest = <<p>> \o more /\ rest[1] = p /\ Len(rest) >= 1
    BY <2>1, <2>2
  <2>4. PICK x, y : x = Encode(p) /\ y = Encoded(more)
    OBVIOUS
  <2>5. x \in Seq(Bytes) /\ y \in Seq(Bytes)
    BY <2>3, <2>4, EncodeType, EncodedType
  <2>6. Pending(buffer, offset, tail) = x \o y
    BY <1>3, <2>1, <2>2, <2>4, EncodedCons, Zenon
  <2>7. /\ \A i \in 1 .. Len(x) : offset + i <= Len(buffer) => buffer[offset + i] = x[i]
        /\ Len(x) <= Len(buffer) - offset => Pending(buffer, offset + Len(x), tail) = y
    <3>1. Splits(buffer, offset, tail, x, y)
      BY <1>2, <2>5, <2>6, Cut, Zenon
    <3> QED BY <3>1 DEF Splits
  <2>8. /\ Len(x) = HeaderSize + Len(p) /\ Len(p) \in 0 .. MaxFrame + 1
        /\ \A i \in 1 .. HeaderSize : x[i] = Header(Len(p))[i]
        /\ \A i \in 1 .. Len(p) : x[HeaderSize + i] = p[i]
    BY <2>3, <2>4, EncodeType, Zenon DEF Sent, Sizes
  <2>9. length = Len(p)
    <3>1. PICK size : size = Len(p)
      BY Zenon
    <3>2. ASSUME NEW i \in 1 .. HeaderSize PROVE buffer[offset + i] = Header(size)[i]
      <4>1. i \in 1 .. Len(x) /\ offset + i <= Len(buffer)
        BY <1>2, <1>4, <1>8, <2>8
      <4>2. buffer[offset + i] = x[i]
        BY <2>7, <4>1
      <4>3. x[i] = Header(size)[i]
        BY <2>8, <3>1
      <4> QED BY <4>2, <4>3
    <3>3. size \in 0 .. MaxFrame + 1 /\ offset \in Nat
      BY <1>2, <2>8, <3>1
    <3>4. PeekLength(buffer, offset) = size
      BY <3>2, <3>3, PeekReadsHeader
    <3> QED BY <1>5, <3>1, <3>4
  <2>10. CASE length = 0 \/ length > MaxFrame
    <3>1. ~MayEncode(p)
      BY <1>4, <2>8, <2>9, <2>10 DEF MayEncode
    <3>2. ~Legal(ps)
      <4>1. PICK j : j = Len(fs) + 1
        OBVIOUS
      <4>2. /\ Len(ps) = Len(fs) + Len(rest)
            /\ \A i \in 1 .. Len(fs) + Len(rest) : ps[i] = IF i <= Len(fs) THEN fs[i] ELSE rest[i - Len(fs)]
        BY <1>2, <1>3, ConcatProperties
      <4>3. j \in 1 .. Len(fs) + Len(rest) /\ ~(j <= Len(fs)) /\ j - Len(fs) = 1
        BY <1>2, <1>3, <2>3, <4>1
      <4>4. ps[j] = p /\ j \in DOMAIN ps
        BY <2>3, <4>2, <4>3
      <4> QED BY <3>1, <4>4 DEF Legal
    <3>3. PICK next : next = [turn EXCEPT !.failed = TRUE]
      BY Zenon
    <3>4. Turn(buffer, turn) = next
      BY <1>6, <1>8, <2>10, <3>3
    <3>5. next \in Turns(buffer) /\ next.frames = fs /\ next.offset = offset
      BY <1>1, <1>2, <3>3, Zenon DEF Turns
    <3> QED BY <1>2, <1>3, <3>2, <3>4, <3>5, Zenon DEF Fits
  <2>11. CASE ~(length = 0 \/ length > MaxFrame) /\ Len(buffer) < end
    BY <1>6, <1>8, <2>11
  <2>12. CASE ~(length = 0 \/ length > MaxFrame) /\ ~(Len(buffer) < end)
    <3>1. MayEncode(p)
      BY <1>4, <2>8, <2>9, <2>12 DEF MayEncode
    <3>2. end = offset + Len(x) /\ end \in 0 .. Len(buffer) /\ Len(x) <= Len(buffer) - offset
      BY <1>2, <1>4, <1>5, <2>8, <2>9, <2>12
    <3>3. PICK frame : frame = SubSeq(buffer, offset + HeaderSize + 1, end)
      BY Zenon
    <3>4. frame = p
      <4>1. PICK m : m = offset + HeaderSize + 1
        OBVIOUS
      <4>2. m \in Int /\ end \in Int /\ m >= 1 /\ end - m + 1 = Len(p) /\ (m > end => Len(p) = 0)
        BY <1>2, <1>4, <1>5, <2>8, <2>9, <3>2, <4>1
      <4>3. \A i \in m .. end : buffer[i] \in Bytes
        BY <3>2, <4>2
      <4>4. /\ frame \in Seq(Bytes) /\ Len(frame) = IF m <= end THEN end - m + 1 ELSE 0
            /\ \A i \in 1 .. end - m + 1 : frame[i] = buffer[m + i - 1]
        <5>1. frame = SubSeq(buffer, m, end)
          BY <3>3, <4>1
        <5> QED BY <4>2, <4>3, <5>1, BytesPart
      <4>5. Len(frame) = Len(p)
        BY <4>2, <4>4
      <4>6. ASSUME NEW i \in 1 .. Len(frame) PROVE frame[i] = p[i]
        <5>1. PICK j : j = HeaderSize + i
          OBVIOUS
        <5>2. j \in 1 .. Len(x) /\ offset + j <= Len(buffer) /\ m + i - 1 = offset + j /\ i \in 1 .. Len(p)
              /\ i \in 1 .. end - m + 1
          BY <1>2, <1>4, <2>8, <3>2, <4>1, <4>2, <4>5, <5>1
        <5>3. frame[i] = buffer[offset + j]
          BY <4>4, <5>2, Zenon
        <5>4. buffer[offset + j] = x[j]
          BY <2>7, <5>2
        <5>5. x[j] = p[i]
          BY <2>8, <5>1, <5>2, Zenon
        <5> QED BY <5>3, <5>4, <5>5
      <4>7. p \in Seq(Bytes)
        BY <2>3 DEF Sent
      <4> QED BY <4>4, <4>5, <4>6, <4>7, SeqEqual, Zenon
    <3>5. PICK next : next = [turn EXCEPT !.frames = Append(fs, p), !.offset = end]
      OBVIOUS
    <3>6. Turn(buffer, turn) = next
      BY <1>6, <1>8, <2>12, <3>3, <3>4, <3>5, Zenon
    <3>7. PICK gs : gs = Append(fs, p)
      BY Zenon
    <3>8. /\ gs \in Seq(Sent) /\ Len(gs) = Len(fs) + 1 /\ gs[Len(fs) + 1] = p
          /\ \A i \in 1 .. Len(fs) : gs[i] = fs[i]
      BY <1>2, <2>3, <3>7, AppendProperties
    <3>9. next \in Turns(buffer) /\ next.frames = gs /\ next.offset = end /\ ~next.failed
      BY <1>1, <1>2, <1>8, <3>2, <3>5, <3>7, <3>8, Zenon DEF Turns
    <3>10. Legal(gs)
      <4>1. DOMAIN gs = 1 .. Len(fs) + 1 /\ DOMAIN fs = 1 .. Len(fs) /\ Len(fs) \in Nat
        BY <1>2, <3>8
      <4> QED BY <1>2, <3>1, <3>8, <4>1 DEF Legal
    <3>11. ps = gs \o more
      <4>1. gs = fs \o <<p>> /\ <<p>> \in Seq(Sent)
        BY <1>2, <2>3, <3>7, AppendIsConcat
      <4>2. (fs \o <<p>>) \o more = fs \o (<<p>> \o more)
        BY <2>3, <4>1, ConcatAssociative
      <4> QED BY <1>3, <2>3, <4>1, <4>2, Zenon
    <3>12. Pending(buffer, end, tail) = Encoded(more)
      BY <2>4, <2>7, <3>2
    <3> QED BY <2>3, <3>6, <3>9, <3>10, <3>11, <3>12, Zenon DEF Fits
  <2> QED BY <2>10, <2>11, <2>12
<1> QED BY <1>7, <1>8

\* The loop: as many turns as the buffer has bytes, by induction over them.
LEMMA DecodeFits ==
  ASSUME NEW buffer \in Seq(Bytes), NEW tail \in Seq(Bytes), NEW ps \in Seq(Sent),
         NEW offset \in 0 .. Len(buffer), Pending(buffer, offset, tail) = Encoded(ps)
  PROVE  Fits(Decode(buffer, offset), buffer, tail, ps)
<1>1. PICK N, a, S : /\ N = Len(buffer) /\ a = [frames |-> <<>>, offset |-> offset, failed |-> FALSE]
                     /\ S = {turn \in Turns(buffer) : Fits(turn, buffer, tail, ps)}
  BY Zenon
<1>2. N \in Nat
  BY <1>1
<1>3. a \in S
  <2>1. <<>> \in Seq(Sent) /\ ps = <<>> \o ps
    BY EmptySeq, ConcatEmptySeq
  <2>2. a \in Turns(buffer) /\ a.frames = <<>> /\ a.offset = offset /\ ~a.failed
    BY <1>1, <2>1 DEF Turns
  <2>3. Legal(<<>>)
    BY DEF Legal
  <2> QED BY <1>1, <2>1, <2>2, <2>3, Zenon DEF Fits
<1>4. ASSUME NEW turn \in S PROVE Turn(buffer, turn) \in S
  <2>1. Fits(Turn(buffer, turn), buffer, tail, ps)
    BY <1>1, TurnFits
  <2> QED BY <1>1, <2>1, Zenon DEF Fits
<1> DEFINE Is(turns) == turns = [n \in 0 .. N |-> IF n = 0 THEN a ELSE Turn(buffer, turns[n - 1])]
<1>5. \E turns : Is(turns)
  <2>1. PICK g : g = [x \in (1 .. N) \X S |-> Turn(buffer, x[2])]
    BY Zenon
  <2>2. g \in [(1 .. N) \X S -> S]
    BY <1>4, <2>1
  <2>3. PICK f : Iterated(f, N, S, a, g)
    BY <1>2, <1>3, <2>2, Iterates, Zenon
  <2>4. f \in [0 .. N -> S] /\ f[0] = a /\ \A i \in 1 .. N : f[i] = g[<<i, f[i - 1]>>]
    BY <2>3 DEF Iterated
  <2>5. ASSUME NEW n \in 0 .. N PROVE f[n] = IF n = 0 THEN a ELSE Turn(buffer, f[n - 1])
    <3>1. CASE n = 0
      BY <2>4, <3>1
    <3>2. CASE n # 0
      <4>1. n \in 1 .. N /\ n - 1 \in 0 .. N
        BY <1>2, <3>2
      <4>2. <<n, f[n - 1]>> \in (1 .. N) \X S /\ f[n] = g[<<n, f[n - 1]>>]
        BY <2>4, <4>1, Zenon
      <4> QED BY <2>1, <3>2, <4>2
    <3> QED BY <3>1, <3>2
  <2>6. f = [n \in 0 .. N |-> f[n]]
    BY <2>4
  <2>7. Is(f)
    BY <2>5, <2>6, Zenon
  <2> QED BY <2>7, Zenon
<1>6. PICK turns : Is(turns) /\ Decode(buffer, offset) = turns[N]
  BY <1>1, <1>5, Zenon DEF Decode
<1>7. turns[0] = a /\ \A n \in 1 .. N : turns[n] = Turn(buffer, turns[n - 1])
  <2>1. \A n \in 0 .. N : turns[n] = IF n = 0 THEN a ELSE Turn(buffer, turns[n - 1])
    BY <1>6, Zenon
  <2> QED BY <1>2, <2>1
<1> HIDE DEF Is
<1>8. PICK T : T = {n \in 0 .. N : turns[n] \in S}
  BY Zenon
<1>9. 0 \in T
  BY <1>2, <1>3, <1>7, <1>8
<1>10. ASSUME NEW k \in 0 .. N - 1, k \in T PROVE k + 1 \in T
  <2>1. PICK j : j = k + 1
    OBVIOUS
  <2>2. j \in 1 .. N /\ j \in 0 .. N /\ j - 1 = k
    BY <1>2, <2>1
  <2>3. turns[j] = Turn(buffer, turns[k]) /\ turns[k] \in S
    BY <1>7, <1>8, <1>10, <2>2
  <2> QED BY <1>4, <1>8, <2>1, <2>2, <2>3
<1>11. N \in T
  <2>1. 0 .. N \subseteq T
    BY <1>2, <1>9, <1>10, UpTo, Zenon
  <2> QED BY <1>2, <2>1
<1>12. turns[N] \in S
  BY <1>8, <1>11
<1> QED BY <1>1, <1>6, <1>12

\* The states of a decoder.
Codecs == {c \in [buffer : Seq(Bytes), offset : Nat, failed : BOOLEAN] : c.offset <= Len(c.buffer)}

\* The decoder has taken the frames fs, and ps with its first bytes still to come are
\* the payloads sent.
Agrees(c, fs, tail, ps) ==
  \E rest \in Seq(Sent) : ps = fs \o rest /\ Pending(c.buffer, c.offset, tail) = Encoded(rest)

\* Bytes that have arrived pass from the way to the buffer.
LEMMA Arrives ==
  ASSUME NEW b \in Seq(Bytes), NEW offset \in 0 .. Len(b), NEW data \in Seq(Bytes), NEW tail \in Seq(Bytes)
  PROVE  /\ b \o data \in Seq(Bytes) /\ offset \in 0 .. Len(b \o data)
         /\ Pending(b \o data, offset, tail) = Pending(b, offset, data \o tail)
<1>1. PICK c, u, v : /\ c = b \o data /\ u = SubSeq(b, offset + 1, Len(b))
                     /\ v = SubSeq(b \o data, offset + 1, Len(b \o data))
  BY Zenon
<1>2. /\ c \in Seq(Bytes) /\ Len(c) = Len(b) + Len(data)
      /\ \A i \in 1 .. Len(b) + Len(data) : c[i] = IF i <= Len(b) THEN b[i] ELSE data[i - Len(b)]
  BY <1>1, ConcatProperties
<1>3. /\ u \in Seq(Bytes) /\ Len(u) = Len(b) - offset
      /\ \A i \in 1 .. Len(b) - offset : u[i] = b[offset + i]
  BY <1>1, AfterPlace, Zenon
<1>4. offset \in 0 .. Len(c) /\ Len(b) \in Nat /\ Len(data) \in Nat
  BY <1>2
<1>5. /\ v \in Seq(Bytes) /\ Len(v) = Len(c) - offset
      /\ \A i \in 1 .. Len(c) - offset : v[i] = c[offset + i]
  BY <1>1, <1>2, <1>4, AfterPlace, Zenon
<1>6. /\ u \o data \in Seq(Bytes) /\ Len(u \o data) = Len(u) + Len(data)
      /\ \A i \in 1 .. Len(u) + Len(data) : (u \o data)[i] = IF i <= Len(u) THEN u[i] ELSE data[i - Len(u)]
  BY <1>3, ConcatProperties, Zenon
<1>7. Len(v) = Len(u \o data)
  BY <1>2, <1>3, <1>4, <1>5, <1>6
<1>8. ASSUME NEW i \in 1 .. Len(v) PROVE v[i] = (u \o data)[i]
  <2>1. PICK j : j = offset + i
    OBVIOUS
  <2>2. /\ i \in 1 .. Len(c) - offset /\ j \in 1 .. Len(b) + Len(data) /\ i \in 1 .. Len(u) + Len(data)
        /\ (j <= Len(b) <=> i <= Len(u)) /\ j - Len(b) = i - Len(u)
    BY <1>2, <1>3, <1>4, <1>5, <2>1
  <2>3. v[i] = c[j]
    BY <1>5, <2>1, <2>2, Zenon
  <2>4. CASE i <= Len(u)
    <3>1. i \in 1 .. Len(b) - offset
      BY <1>3, <2>2, <2>4
    <3>2. u[i] = b[j]
      BY <1>3, <2>1, <3>1, Zenon
    <3> QED BY <1>2, <1>6, <2>2, <2>3, <2>4, <3>2, Zenon
  <2>5. CASE ~(i <= Len(u))
    BY <1>2, <1>6, <2>2, <2>3, <2>5, Zenon
  <2> QED BY <2>4, <2>5, Zenon
<1>9. v = u \o data
  BY <1>5, <1>6, <1>7, <1>8, SeqEqual, Zenon
<1>10. (u \o data) \o tail = u \o (data \o tail)
  <2>1. JoinsAfter(u)
    BY <1>3, BytesJoin, Zenon
  <2> QED BY <1>3, <2>1, Zenon DEF JoinsAfter
<1> QED BY <1>1, <1>2, <1>4, <1>9, <1>10, Zenon DEF Pending

\* compact moves the bytes and keeps them.
LEMMA CompactKeeps ==
  ASSUME NEW b \in Seq(Bytes), NEW offset \in 0 .. Len(b), NEW tail \in Seq(Bytes)
  PROVE  /\ Compact(b, offset).buffer \in Seq(Bytes)
         /\ Compact(b, offset).offset \in 0 .. Len(Compact(b, offset).buffer)
         /\ Pending(Compact(b, offset).buffer, Compact(b, offset).offset, tail) = Pending(b, offset, tail)
<1>1. PICK u, left : u = SubSeq(b, offset + 1, Len(b)) /\ left = Compact(b, offset)
  BY Zenon
<1>2. u \in Seq(Bytes)
  BY <1>1, AfterPlace, Zenon
<1>3. \/ left.buffer = u /\ left.offset = 0
      \/ left.buffer = b /\ left.offset = offset
  BY <1>1 DEF Compact
<1>4. CASE left.buffer = u /\ left.offset = 0
  <2>1. 0 \in 0 .. Len(u)
    BY <1>2
  <2>2. SubSeq(u, 0 + 1, Len(u)) = u
    <3>1. SubSeq(u, 1, Len(u)) = u /\ 0 + 1 = 1
      BY <1>2, SubSeqFull
    <3> QED BY <3>1, Zenon
  <2>3. Pending(u, 0, tail) = Pending(b, offset, tail)
    BY <1>1, <2>2, Zenon DEF Pending
  <2> QED BY <1>1, <1>2, <1>4, <2>1, <2>3
<1>5. CASE left.buffer = b /\ left.offset = offset
  BY <1>1, <1>5
<1> QED BY <1>3, <1>4, <1>5, Zenon

\* One frame at most is buffered whole: if the bytes are too many, then more than one
\* frame was sent, or one that is too long.
LEMMA OneFrameFits ==
  ASSUME NEW ps \in Seq(Sent), Len(Encoded(ps)) > MaxFrame + HeaderSize, Legal(ps)
  PROVE  Len(ps) > 1
<1>1. SUFFICES ASSUME ~(Len(ps) > 1) PROVE FALSE
  OBVIOUS
<1>2. HeaderSize \in Nat /\ MaxFrame \in Nat
  BY CodecAssumption
<1>3. CASE ps = <<>>
  <2>1. Len(Encoded(ps)) = 0
    BY <1>3, EncodedEmpty
  <2> QED BY <1>2, <2>1
<1>4. CASE ps # <<>>
  <2>1. PICK p, more : p = Head(ps) /\ more = Tail(ps)
    BY Zenon
  <2>2. p \in Sent /\ more \in Seq(Sent) /\ Len(more) = 0 /\ p = ps[1] /\ 1 \in DOMAIN ps
    <3>1. p \in Sent /\ more \in Seq(Sent) /\ Len(more) = Len(ps) - 1
      BY <1>4, <2>1, HeadTailProperties
    <3>2. Len(ps) \in Nat /\ Len(ps) # 0
      BY <1>4, EmptySeq
    <3>3. Len(ps) = 1
      BY <1>1, <3>2
    <3> QED BY <2>1, <3>1, <3>3
  <2>3. more = <<>>
    BY <2>2, EmptySeq
  <2>4. Encoded(ps) = Encode(p) \o <<>>
    BY <1>4, <2>1, <2>3, EncodedCons, EncodedEmpty, Zenon
  <2>5. Encode(p) \o <<>> = Encode(p) /\ Len(Encode(p)) = HeaderSize + Len(p)
    BY <2>2, EncodeType, ConcatEmptySeq
  <2>6. Len(p) \in 1 .. MaxFrame
    BY <2>2 DEF Legal, MayEncode
  <2>7. Len(Encoded(ps)) = HeaderSize + Len(p)
    BY <2>4, <2>5
  <2> QED BY <1>2, <2>6, <2>7
<1> QED BY <1>3, <1>4

\* A client that does not wait for its answer, or sends a frame of a wrong size.
Overrun(ps) == Len(ps) > 1 \/ ~Legal(ps)

\* A decoder and the frames it returned, for the payloads ps that are not yet handled,
\* the bytes tail of which are still on the way.
Fed(c, fs, tail, ps) ==
  /\ c \in Codecs /\ fs \in Seq(Sent) /\ Legal(fs)
  /\ c.failed => fs = <<>> /\ Overrun(ps)
  /\ ~c.failed => Agrees(c, fs, tail, ps)

\* feed: the frames it returns are the next ones sent, and it fails only on too many
\* bytes or a frame of a size that may not be sent.
LEMMA FeedAgrees ==
  ASSUME NEW c \in Codecs, NEW data \in Seq(Bytes), NEW tail \in Seq(Bytes), NEW ps \in Seq(Sent),
         c.failed => Overrun(ps),
         ~c.failed => Pending(c.buffer, c.offset, data \o tail) = Encoded(ps)
  PROVE  Fed(Feed(c, data).codec, Feed(c, data).frames, tail, ps)
<1>1. PICK b, o, failed : b = c.buffer /\ o = c.offset /\ failed = c.failed
  OBVIOUS
<1>2. b \in Seq(Bytes) /\ o \in 0 .. Len(b) /\ failed \in BOOLEAN /\ c = [buffer |-> b, offset |-> o, failed |-> failed]
  BY <1>1 DEF Codecs
<1>3. <<>> \in Seq(Sent) /\ Legal(<<>>)
  BY EmptySeq DEF Legal
<1>4. PICK buffer, result, left :
        /\ buffer = b \o data /\ result = Decode(buffer, o) /\ left = Compact(buffer, result.offset)
  BY Zenon
<1>5. Feed(c, data) =
        IF failed \/ TooMuch(c, data) THEN [codec |-> [c EXCEPT !.failed = TRUE], frames |-> <<>>]
        ELSE IF result.failed
        THEN [codec |-> [buffer |-> buffer, offset |-> result.offset, failed |-> TRUE], frames |-> <<>>]
        ELSE [codec |-> [buffer |-> left.buffer, offset |-> left.offset, failed |-> FALSE],
              frames |-> result.frames]
  BY <1>1, <1>4 DEF Feed
<1>6. CASE failed \/ TooMuch(c, data)
  <2>1. PICK d : d = [c EXCEPT !.failed = TRUE]
    BY Zenon
  <2>2. d \in Codecs /\ d.failed
    BY <1>2, <2>1, Zenon DEF Codecs
  <2>3. Feed(c, data).codec = d /\ Feed(c, data).frames = <<>>
    BY <1>5, <1>6, <2>1
  <2>4. Overrun(ps)
    <3>1. CASE failed
      BY <1>1, <3>1
    <3>2. CASE ~failed
      <4>1. PICK u : u = SubSeq(b, o + 1, Len(b))
        BY Zenon
      <4>2. u \in Seq(Bytes)
        BY <1>2, <4>1, AfterPlace, Zenon
      <4>3. Len(u) + Len(data) > MaxFrame + HeaderSize
        BY <1>1, <1>6, <3>2, <4>1, Zenon DEF TooMuch, Buffered
      <4>4. u \o (data \o tail) = Encoded(ps)
        BY <1>1, <3>2, <4>1, Zenon DEF Pending
      <4>5. data \o tail \in Seq(Bytes) /\ Len(data \o tail) = Len(data) + Len(tail)
        BY ConcatProperties, Zenon
      <4>6. Len(Encoded(ps)) = Len(u) + Len(data \o tail)
        BY <4>2, <4>4, <4>5, ConcatProperties
      <4>7. Len(Encoded(ps)) > MaxFrame + HeaderSize
        <5>1. Len(u) \in Nat /\ Len(data) \in Nat /\ Len(tail) \in Nat /\ MaxFrame \in Nat /\ HeaderSize \in Nat
          BY <4>2, CodecAssumption
        <5> QED BY <4>3, <4>5, <4>6, <5>1
      <4> QED BY <4>7, OneFrameFits DEF Overrun
    <3> QED BY <3>1, <3>2
  <2> QED BY <1>3, <2>2, <2>3, <2>4, Zenon DEF Fed
<1>7. CASE ~failed /\ ~TooMuch(c, data)
  <2>1. buffer \in Seq(Bytes) /\ o \in 0 .. Len(buffer) /\ Pending(buffer, o, tail) = Encoded(ps)
    BY <1>1, <1>2, <1>4, <1>7, Arrives
  <2>2. Fits(result, buffer, tail, ps)
    BY <1>4, <2>1, DecodeFits, Zenon
  <2>3. /\ result.frames \in Seq(Sent) /\ Legal(result.frames) /\ result.offset \in 0 .. Len(buffer)
        /\ result.failed => ~Legal(ps)
    BY <2>2 DEF Fits, Turns
  <2>4. CASE result.failed
    <3>1. PICK d : d = [buffer |-> buffer, offset |-> result.offset, failed |-> TRUE]
      BY Zenon
    <3>2. d \in Codecs /\ d.failed
      BY <2>1, <2>3, <3>1 DEF Codecs
    <3>3. Feed(c, data).codec = d /\ Feed(c, data).frames = <<>>
      BY <1>5, <1>7, <2>4, <3>1
    <3> QED BY <1>3, <2>3, <2>4, <3>2, <3>3, Zenon DEF Fed, Overrun
  <2>5. CASE ~result.failed
    <3>1. PICK d : d = [buffer |-> left.buffer, offset |-> left.offset, failed |-> FALSE]
      BY Zenon
    <3>2. PICK fs, at : fs = result.frames /\ at = result.offset
      OBVIOUS
    <3>3. PICK rest \in Seq(Sent) : ps = fs \o rest /\ Pending(buffer, at, tail) = Encoded(rest)
      BY <2>2, <3>2, Zenon DEF Fits
    <3>4. /\ left.buffer \in Seq(Bytes) /\ left.offset \in 0 .. Len(left.buffer)
          /\ Pending(left.buffer, left.offset, tail) = Pending(buffer, at, tail)
      BY <1>4, <2>1, <2>3, <3>2, CompactKeeps, Zenon
    <3>5. d \in Codecs /\ ~d.failed /\ d.buffer = left.buffer /\ d.offset = left.offset
      BY <3>1, <3>4 DEF Codecs
    <3>6. Feed(c, data).codec = d /\ Feed(c, data).frames = fs
      BY <1>5, <1>7, <2>5, <3>1, <3>2
    <3>7. Agrees(d, fs, tail, ps)
      BY <3>3, <3>4, <3>5, Zenon DEF Agrees
    <3> QED BY <2>3, <3>2, <3>5, <3>6, <3>7, Zenon DEF Fed
  <2> QED BY <2>4, <2>5
<1> QED BY <1>6, <1>7

\* What a client sends: a payload that encode accepts and that parses begins with a
\* request id and a number.
Wire == {p \in Sent : MayEncode(p) /\ Parses(p) => p[1] \in Requests /\ p[2] \in 1 .. MaxSequence}

\* The inductive invariant of the path: the frames that wait, the buffer and the bytes
\* on the way are what has been sent and not handled.
PathInv ==
  /\ load \in Loads /\ stream \in Seq(Bytes) /\ unheard \in Seq(Wire)
  /\ Fed(codec, frames, stream, unheard)

\* What a client sends are frames.
LEMMA WireIsSent == ASSUME NEW ps \in Seq(Wire) PROVE ps \in Seq(Sent)
  BY DEF Wire

\* Every envelope of the load, and every payload of a wrong size or form, is among
\* them.
LEMMA PayloadsAreWire ==
  ASSUME load \in Loads, NEW payload \in Payloads \cup Malformed PROVE payload \in Wire
<1>1. MaxFrame \in Nat /\ MaxFrame > 0 /\ Base \in Nat /\ MaxSequence \in Nat
  BY CodecAssumption, CacheAssumption
<1>2. CASE payload \in Payloads
  <2>1. PICK r \in load.requests, q \in 1 .. MaxSequence, body \in load.bodies : payload = Envelope(r, q, body)
    BY <1>2 DEF Payloads
  <2>2. r \in Requests /\ body \in Seq(0 .. Base - 1) /\ Len(body) + 2 <= MaxFrame
    BY LoadsAssumption
  <2>3. <<r, q>> \in Seq(Bytes) /\ body \in Seq(Bytes) /\ Len(<<r, q>>) = 2
    BY <1>1, <2>2 DEF Bytes
  <2>4. /\ payload \in Seq(Bytes) /\ Len(payload) = 2 + Len(body)
        /\ payload[1] = r /\ payload[2] = q
    <3>1. PICK s : s = <<r, q>>
      BY Zenon
    <3>2. s \in Seq(Bytes) /\ Len(s) = 2 /\ s[1] = r /\ s[2] = q /\ payload = s \o body /\ Len(body) \in Nat
      BY <2>1, <2>3, <3>1 DEF Envelope
    <3>3. /\ s \o body \in Seq(Bytes) /\ Len(s \o body) = Len(s) + Len(body)
          /\ \A i \in 1 .. Len(s) + Len(body) : (s \o body)[i] = IF i <= Len(s) THEN s[i] ELSE body[i - Len(s)]
      BY <2>3, <3>2, ConcatProperties, ZenonT(30)
    <3>4. 1 \in 1 .. Len(s) + Len(body) /\ 2 \in 1 .. Len(s) + Len(body) /\ 1 <= Len(s) /\ 2 <= Len(s)
      BY <3>2
    <3> QED BY <3>2, <3>3, <3>4
  <2>5. Len(payload) \in 0 .. MaxFrame + 1
    BY <1>1, <2>2, <2>3, <2>4
  <2> QED BY <2>1, <2>2, <2>4, <2>5, Zenon DEF Wire, Sent, Sizes
<1>3. CASE payload \in Malformed
  <2>1. payload \in {<<>>, [i \in 1 .. MaxFrame + 1 |-> 0], <<0>>}
    BY <1>3 DEF Malformed
  <2>2. CASE payload = <<>>
    <3>1. payload \in Seq(Bytes) /\ Len(payload) = 0
      BY <2>2, EmptySeq
    <3> QED BY <1>1, <3>1 DEF Wire, Sent, Sizes, MayEncode
  <2>3. CASE payload = [i \in 1 .. MaxFrame + 1 |-> 0]
    <3>1. payload \in [1 .. MaxFrame + 1 -> Bytes] /\ MaxFrame + 1 \in Nat
      BY <1>1, <2>3 DEF Bytes
    <3>2. payload \in Seq(Bytes) /\ Len(payload) = MaxFrame + 1
      BY <3>1
    <3> QED BY <1>1, <3>2 DEF Wire, Sent, Sizes, MayEncode
  <2>4. CASE payload = <<0>>
    <3>1. payload \in Seq(Bytes) /\ Len(payload) = 1
      BY <2>4 DEF Bytes
    <3>2. Len(payload) \in 0 .. MaxFrame + 1 /\ ~Parses(payload)
      BY <1>1, <3>1 DEF Parses
    <3> QED BY <3>1, <3>2, Zenon DEF Wire, Sent, Sizes
  <2> QED BY <2>1, <2>2, <2>3, <2>4
<1> QED BY <1>2, <1>3

\* A new connection starts with a new decoder and nothing on the way.
LEMMA FreshIsFed == Fed(NewCodec, <<>>, <<>>, <<>>)
<1>1. <<>> \in Seq(Bytes) /\ <<>> \in Seq(Sent) /\ Len(<<>>) = 0 /\ <<>> \o <<>> = <<>>
  BY EmptySeq, ConcatEmptySeq
<1>2. NewCodec \in Codecs /\ NewCodec.buffer = <<>> /\ NewCodec.offset = 0 /\ ~NewCodec.failed
  BY <1>1 DEF NewCodec, Codecs
<1>3. Pending(<<>>, 0, <<>>) = <<>>
  <2>1. SubSeq(<<>>, 0 + 1, Len(<<>>)) = <<>>
    BY <1>1, SubSeqEmpty
  <2> QED BY <1>1, <2>1 DEF Pending
<1>4. Agrees(NewCodec, <<>>, <<>>, <<>>)
  BY <1>1, <1>2, <1>3, EncodedEmpty, Zenon DEF Agrees
<1> QED BY <1>1, <1>2, <1>4 DEF Fed, Legal

\* A client sends a frame: its bytes are the last on the way.
LEMMA SendKeepsPath ==
  ASSUME PathInv, NEW payload \in Payloads \cup Malformed, Send(payload) PROVE PathInv'
<1>1. /\ load' = load /\ codec' = codec /\ frames' = frames
      /\ stream' = stream \o Encode(payload) /\ unheard' = Append(unheard, payload)
  BY DEF Send
<1>2. /\ load \in Loads /\ stream \in Seq(Bytes) /\ unheard \in Seq(Wire) /\ unheard \in Seq(Sent)
      /\ Fed(codec, frames, stream, unheard)
  BY WireIsSent DEF PathInv
<1>3. payload \in Wire /\ payload \in Sent
  <2>1. payload \in Wire
    BY <1>2, PayloadsAreWire
  <2> QED BY <2>1 DEF Wire
<1>4. PICK e, ps, qs : e = Encode(payload) /\ ps = unheard /\ qs = Append(unheard, payload)
  BY Zenon
<1>5. e \in Seq(Bytes) /\ stream \o e \in Seq(Bytes)
  BY <1>2, <1>3, <1>4, EncodeType, ConcatProperties, Zenon
<1>6. /\ qs \in Seq(Wire) /\ Len(qs) = Len(ps) + 1 /\ Len(ps) \in Nat
      /\ \A i \in 1 .. Len(ps) : qs[i] = ps[i]
  BY <1>2, <1>3, <1>4, AppendProperties
<1>7. Overrun(ps) => Overrun(qs)
  <2>1. DOMAIN ps = 1 .. Len(ps) /\ DOMAIN qs = 1 .. Len(ps) + 1
    BY <1>2, <1>4, <1>6
  <2> QED BY <1>6, <2>1 DEF Overrun, Legal
<1>8. ASSUME Agrees(codec, frames, stream, ps), codec \in Codecs, frames \in Seq(Sent)
      PROVE  Agrees(codec, frames, stream \o e, qs)
  <2>1. PICK rest \in Seq(Sent) : ps = frames \o rest /\ Pending(codec.buffer, codec.offset, stream) = Encoded(rest)
    BY <1>8, Zenon DEF Agrees
  <2>2. PICK u, more : u = SubSeq(codec.buffer, codec.offset + 1, Len(codec.buffer)) /\ more = Append(rest, payload)
    BY Zenon
  <2>3. u \in Seq(Bytes)
    <3>1. PICK b, o : b = codec.buffer /\ o = codec.offset
      OBVIOUS
    <3>2. b \in Seq(Bytes) /\ o \in 0 .. Len(b)
      BY <1>8, <3>1 DEF Codecs
    <3> QED BY <2>2, <3>1, <3>2, AfterPlace, Zenon
  <2>4. more \in Seq(Sent) /\ Encoded(more) = Encoded(rest) \o e
    BY <1>3, <1>4, <2>2, AppendProperties, EncodedAppend, Zenon
  <2>5. (u \o stream) \o e = u \o (stream \o e)
    OBVIOUS
  <2>6. Pending(codec.buffer, codec.offset, stream \o e) = Encoded(more)
    BY <2>1, <2>2, <2>4, <2>5, Zenon DEF Pending
  <2>7. qs = frames \o more
    <3>1. <<payload>> \in Seq(Sent) /\ qs = ps \o <<payload>> /\ more = rest \o <<payload>>
      <4>1. <<payload>> \in Seq(Sent)
        BY <1>3
      <4>2. qs = ps \o <<payload>>
        BY <1>2, <1>3, <1>4, AppendIsConcat, Zenon
      <4>3. more = rest \o <<payload>>
        BY <1>3, <2>2, AppendIsConcat
      <4> QED BY <4>1, <4>2, <4>3
    <3>2. (frames \o rest) \o <<payload>> = frames \o (rest \o <<payload>>)
      BY <1>8, <3>1, ConcatAssociative
    <3> QED BY <2>1, <3>1, <3>2, Zenon
  <2> QED BY <2>4, <2>6, <2>7, Zenon DEF Agrees
<1>9. Fed(codec, frames, stream \o e, qs)
  BY <1>2, <1>4, <1>7, <1>8, Zenon DEF Fed
<1> QED BY <1>1, <1>2, <1>4, <1>5, <1>6, <1>9, Zenon DEF PathInv

\* A sequence and its parts before and after a place.
LEMMA InTwo ==
  ASSUME NEW S, NEW s \in Seq(S), NEW n \in 0 .. Len(s)
  PROVE  /\ SubSeq(s, 1, n) \in Seq(S) /\ SubSeq(s, n + 1, Len(s)) \in Seq(S)
         /\ s = SubSeq(s, 1, n) \o SubSeq(s, n + 1, Len(s))
<1>1. PICK N : N = Len(s)
  OBVIOUS
<1>2. N \in Nat /\ 1 \in 1 .. Len(s) + 1 /\ n \in 1 - 1 .. Len(s) /\ N \in n .. Len(s)
  BY <1>1
<1>3. SubSeq(s, 1, n) \o SubSeq(s, n + 1, N) = SubSeq(s, 1, N)
  BY <1>2, ConcatAdjacentSubSeq
<1>4. SubSeq(s, 1, N) = s
  BY <1>1, SubSeqFull
<1>5. SubSeq(s, n + 1, Len(s)) \in Seq(S)
  BY AfterPlace
<1>6. \A i \in 1 .. n : s[i] \in S
  BY <1>1, <1>2
<1>7. SubSeq(s, 1, n) \in Seq(S)
  BY <1>6, SubSeqProperties
<1> QED BY <1>1, <1>3, <1>4, <1>5, <1>7, Zenon

\* Some of the bytes arrive, and onMessage feeds them to the decoder
\* (poker_tcp_server.cpp:106-126).
LEMMA ReceiveKeepsPath ==
  ASSUME PathInv, NEW size \in 1 .. Len(stream), Receive(size) PROVE PathInv'
<1>1. PICK data, tail : data = SubSeq(stream, 1, size) /\ tail = SubSeq(stream, size + 1, Len(stream))
  BY Zenon
<1>2. /\ load' = load /\ unheard' = unheard /\ stream' = tail /\ frames = <<>>
      /\ codec' = Feed(codec, data).codec /\ frames' = Feed(codec, data).frames
  BY <1>1 DEF Receive
<1>3. /\ load \in Loads /\ stream \in Seq(Bytes) /\ unheard \in Seq(Wire) /\ unheard \in Seq(Sent)
      /\ Fed(codec, frames, stream, unheard)
  BY WireIsSent DEF PathInv
<1>4. data \in Seq(Bytes) /\ tail \in Seq(Bytes) /\ stream = data \o tail
  <2>1. size \in 0 .. Len(stream)
    BY <1>3
  <2> QED BY <1>1, <1>3, <2>1, InTwo
<1>5. codec \in Codecs /\ (codec.failed => Overrun(unheard))
  BY <1>3 DEF Fed
<1>6. ASSUME ~codec.failed PROVE Pending(codec.buffer, codec.offset, data \o tail) = Encoded(unheard)
  <2>1. PICK rest \in Seq(Sent) : unheard = frames \o rest /\ Pending(codec.buffer, codec.offset, stream) = Encoded(rest)
    BY <1>3, <1>6, Zenon DEF Fed, Agrees
  <2>2. <<>> \o rest = rest
    BY ConcatEmptySeq
  <2>3. unheard = rest
    BY <1>2, <2>1, <2>2
  <2> QED BY <1>4, <2>1, <2>3
<1>7. PICK c, ps : c = codec /\ ps = unheard
  OBVIOUS
<1>8. /\ c \in Codecs /\ ps \in Seq(Sent) /\ (c.failed => Overrun(ps))
      /\ ~c.failed => Pending(c.buffer, c.offset, data \o tail) = Encoded(ps)
  BY <1>3, <1>5, <1>6, <1>7
<1>9. Fed(Feed(c, data).codec, Feed(c, data).frames, tail, ps)
  BY <1>4, <1>8, FeedAgrees, Zenon
<1>10. Fed(codec', frames', stream', unheard')
  BY <1>2, <1>7, <1>9
<1>11. load' \in Loads /\ stream' \in Seq(Bytes) /\ unheard' \in Seq(Wire)
  BY <1>2, <1>3, <1>4
<1> QED BY <1>10, <1>11 DEF PathInv

\* The frame that the loop handles is the first that was sent and not handled.
LEMMA FrontIsFirst ==
  ASSUME NEW fs \in Seq(Sent), NEW rest \in Seq(Sent), fs # <<>>
  PROVE  /\ Tail(fs) \in Seq(Sent) /\ Head(fs \o rest) = Head(fs) /\ fs \o rest # <<>>
         /\ Tail(fs \o rest) = Tail(fs) \o rest
<1>1. PICK ps : ps = fs \o rest
  BY Zenon
<1>2. /\ ps \in Seq(Sent) /\ Len(ps) = Len(fs) + Len(rest)
      /\ \A i \in 1 .. Len(fs) + Len(rest) : ps[i] = IF i <= Len(fs) THEN fs[i] ELSE rest[i - Len(fs)]
  BY <1>1, ConcatProperties
<1>3. Len(fs) \in Nat /\ Len(fs) >= 1 /\ Len(rest) \in Nat
  BY EmptySeq
<1>4. ps # <<>>
  <2>1. Len(ps) # 0
    BY <1>2, <1>3
  <2> QED BY <1>2, <2>1, EmptySeq
<1>5. PICK t, u : t = Tail(fs) /\ u = Tail(ps)
  BY Zenon
<1>6. t \in Seq(Sent) /\ Len(t) = Len(fs) - 1 /\ \A i \in 1 .. Len(t) : t[i] = fs[i + 1]
  BY <1>5, HeadTailProperties
<1>7. u \in Seq(Sent) /\ Len(u) = Len(ps) - 1 /\ \A i \in 1 .. Len(u) : u[i] = ps[i + 1]
  BY <1>2, <1>4, <1>5, HeadTailProperties
<1>8. /\ t \o rest \in Seq(Sent) /\ Len(t \o rest) = Len(t) + Len(rest)
      /\ \A i \in 1 .. Len(t) + Len(rest) : (t \o rest)[i] = IF i <= Len(t) THEN t[i] ELSE rest[i - Len(t)]
  BY <1>6, ConcatProperties, Zenon
<1>9. Len(u) = Len(t \o rest)
  BY <1>2, <1>3, <1>6, <1>7, <1>8
<1>10. ASSUME NEW i \in 1 .. Len(u) PROVE u[i] = (t \o rest)[i]
  <2>1. PICK j : j = i + 1
    OBVIOUS
  <2>2. /\ j \in 1 .. Len(fs) + Len(rest) /\ i \in 1 .. Len(t) + Len(rest)
        /\ (j <= Len(fs) <=> i <= Len(t)) /\ j - Len(fs) = i - Len(t)
    BY <1>2, <1>3, <1>6, <1>7, <2>1
  <2>3. u[i] = ps[j]
    BY <1>7, <2>1
  <2>4. CASE i <= Len(t)
    <3>1. t[i] = fs[j]
      BY <1>6, <2>1, <2>4
    <3> QED BY <1>2, <1>8, <2>2, <2>3, <2>4, <3>1, Zenon
  <2>5. CASE ~(i <= Len(t))
    BY <1>2, <1>8, <2>2, <2>3, <2>5, Zenon
  <2> QED BY <2>4, <2>5, Zenon
<1>11. u = t \o rest
  BY <1>7, <1>8, <1>9, <1>10, SeqEqual, Zenon
<1>12. Head(ps) = Head(fs)
  <2>1. 1 \in 1 .. Len(fs) + Len(rest) /\ 1 <= Len(fs)
    BY <1>3
  <2>2. ps[1] = fs[1]
    BY <1>2, <2>1
  <2> QED BY <2>2
<1> QED BY <1>1, <1>4, <1>5, <1>6, <1>11, <1>12, Zenon

\* What the loop finds at its front is what a client has sent.
LEMMA FrontIsWire ==
  ASSUME PathInv, frames # <<>>
  PROVE  /\ Head(frames) \in Wire /\ MayEncode(Head(frames))
         /\ Tail(unheard) \in Seq(Wire) /\ Fed(codec, Tail(frames), stream, Tail(unheard))
<1>1. /\ unheard \in Seq(Wire) /\ Fed(codec, frames, stream, unheard)
  BY DEF PathInv
<1>2. ~codec.failed /\ codec \in Codecs /\ frames \in Seq(Sent) /\ Legal(frames) /\ Agrees(codec, frames, stream, unheard)
  BY <1>1 DEF Fed
<1>3. PICK rest \in Seq(Sent) : unheard = frames \o rest /\ Pending(codec.buffer, codec.offset, stream) = Encoded(rest)
  BY <1>2, Zenon DEF Agrees
<1>4. PICK fs, ps : fs = frames /\ ps = unheard
  OBVIOUS
<1>5. /\ Tail(fs) \in Seq(Sent) /\ Head(ps) = Head(fs) /\ ps # <<>>
      /\ Tail(ps) = Tail(fs) \o rest
  BY <1>2, <1>3, <1>4, FrontIsFirst, Zenon
<1>6. Head(ps) \in Wire /\ Tail(ps) \in Seq(Wire)
  BY <1>1, <1>4, <1>5, HeadTailProperties
<1>7. Len(fs) \in Nat /\ Len(fs) # 0 /\ DOMAIN fs = 1 .. Len(fs) /\ Head(fs) = fs[1]
  BY <1>2, <1>4, EmptySeq
<1>8. MayEncode(Head(fs))
  BY <1>2, <1>4, <1>7 DEF Legal
<1>9. Legal(Tail(fs))
  <2>1. PICK t : t = Tail(fs)
    BY Zenon
  <2>2. t \in Seq(Sent) /\ Len(t) = Len(fs) - 1 /\ \A i \in 1 .. Len(t) : t[i] = fs[i + 1]
    BY <1>2, <1>4, <2>1, HeadTailProperties
  <2>3. ASSUME NEW i \in DOMAIN t PROVE MayEncode(t[i])
    <3>1. i \in 1 .. Len(t) /\ i + 1 \in DOMAIN fs
      BY <1>7, <2>2
    <3> QED BY <1>2, <1>4, <2>2, <3>1, Zenon DEF Legal
  <2> QED BY <2>1, <2>3 DEF Legal
<1>10. Agrees(codec, Tail(fs), stream, Tail(ps))
  BY <1>3, <1>5, Zenon DEF Agrees
<1>11. Fed(codec, Tail(fs), stream, Tail(ps))
  BY <1>2, <1>5, <1>9, <1>10 DEF Fed
<1> QED BY <1>4, <1>5, <1>6, <1>8, <1>11

\* The first frame is handled, and the payload it carries is no longer awaited.
LEMMA HandleKeepsPath == ASSUME PathInv, HandleFrame PROVE PathInv'
<1>1. /\ frames # <<>> /\ frames' = Tail(frames) /\ unheard' = Tail(unheard)
      /\ stream' = stream /\ codec' = codec /\ load' = load
  BY DEF HandleFrame
<1>2. Tail(unheard) \in Seq(Wire) /\ Fed(codec, Tail(frames), stream, Tail(unheard))
  BY <1>1, FrontIsWire
<1> QED BY <1>1, <1>2 DEF PathInv

\* A new connection agrees with a client that has sent nothing.
LEMMA FreshKeepsPath ==
  ASSUME load \in Loads, stream = <<>>, codec = NewCodec, frames = <<>>, unheard = <<>> PROVE PathInv
<1>1. <<>> \in Seq(Bytes) /\ <<>> \in Seq(Wire)
  BY EmptySeq
<1> QED BY <1>1, FreshIsFed DEF PathInv

\* A reconnect drops the connection and all that was on the way.
LEMMA AuthenticateKeepsPath == ASSUME PathInv, Authenticate PROVE PathInv'
<1>1. load' = load /\ stream' = <<>> /\ codec' = NewCodec /\ frames' = <<>> /\ unheard' = <<>>
  BY DEF Authenticate, NewConnection
<1>2. load' \in Loads /\ <<>> \in Seq(Bytes) /\ <<>> \in Seq(Wire)
  BY <1>1, EmptySeq DEF PathInv
<1> QED BY <1>1, <1>2, FreshIsFed DEF PathInv

\* Every step of the path keeps the invariant.
LEMMA PathKept == PathInv /\ [PathNext]_pathVars => PathInv'
<1> SUFFICES ASSUME PathInv, [PathNext]_pathVars PROVE PathInv'
  OBVIOUS
<1> DEFINE Same == UNCHANGED <<load, stream, codec, frames, unheard>>
<1>1. ASSUME Same PROVE PathInv'
  BY <1>1 DEF PathInv
<1>2. ASSUME NEW payload \in Payloads \cup Malformed, Send(payload) PROVE PathInv'
  BY <1>2, SendKeepsPath
<1>3. ASSUME NEW size \in 1 .. Len(stream), Receive(size) PROVE PathInv'
  BY <1>3, ReceiveKeepsPath
<1>4. CASE HandleFrame
  BY <1>4, HandleKeepsPath
<1>5. ASSUME NEW command, Answer(command) PROVE Same
  BY <1>5 DEF Answer, path
<1>6. CASE Authenticate
  BY <1>6, AuthenticateKeepsPath
<1>7. CASE ClockTicks \/ UNCHANGED pathVars
  <2>1. Same
    BY <1>7 DEF ClockTicks, pathVars, path
  <2> QED BY <1>1, <2>1
<1> QED BY <1>1, <1>2, <1>3, <1>4, <1>5, <1>6, <1>7 DEF PathNext

\* The invariant says that no frame is damaged and no legal one refused.
LEMMA IntactWhileFed == PathInv => StreamIntact /\ LegalFramesPass
<1> SUFFICES ASSUME PathInv PROVE StreamIntact /\ LegalFramesPass
  OBVIOUS
<1>1. unheard \in Seq(Wire) /\ unheard \in Seq(Sent) /\ Fed(codec, frames, stream, unheard)
  BY WireIsSent DEF PathInv
<1>2. LegalFramesPass
  BY <1>1 DEF Fed, Overrun, Legal, LegalFramesPass
<1>3. ASSUME ~codec.failed
      PROVE  /\ Len(frames) <= Len(unheard) /\ SubSeq(unheard, 1, Len(frames)) = frames
             /\ Encoded(SubSeq(unheard, Len(frames) + 1, Len(unheard))) = Buffered(codec) \o stream
  <2>1. frames \in Seq(Sent) /\ Agrees(codec, frames, stream, unheard)
    BY <1>1, <1>3 DEF Fed
  <2>2. PICK rest \in Seq(Sent) : unheard = frames \o rest /\ Pending(codec.buffer, codec.offset, stream) = Encoded(rest)
    BY <2>1, Zenon DEF Agrees
  <2>3. Pending(codec.buffer, codec.offset, stream) = Buffered(codec) \o stream
    BY DEF Pending, Buffered
  <2>4. PICK fs, ps, n : fs = frames /\ ps = unheard /\ n = Len(frames)
    OBVIOUS
  <2>5. /\ Len(ps) = Len(fs) + Len(rest) /\ n \in 0 .. Len(ps) /\ n \in Nat /\ Len(rest) \in Nat
        /\ \A i \in 1 .. Len(fs) + Len(rest) : ps[i] = IF i <= Len(fs) THEN fs[i] ELSE rest[i - Len(fs)]
    BY <2>2, <2>4
  <2>6. SubSeq(ps, n + 1, Len(ps)) = rest
    <3>1. PICK z : z = SubSeq(ps, n + 1, Len(ps))
      BY Zenon
    <3>2. z \in Seq(Sent) /\ Len(z) = Len(ps) - n /\ \A i \in 1 .. Len(ps) - n : z[i] = ps[n + i]
      BY <1>1, <2>4, <2>5, <3>1
    <3>3. Len(z) = Len(rest)
      BY <2>4, <2>5, <3>2
    <3>4. ASSUME NEW i \in 1 .. Len(z) PROVE z[i] = rest[i]
      <4>1. PICK j : j = n + i
        OBVIOUS
      <4>2. j \in 1 .. Len(fs) + Len(rest) /\ ~(j <= Len(fs)) /\ j - Len(fs) = i /\ i \in 1 .. Len(ps) - n
        BY <2>4, <2>5, <3>2, <3>3, <4>1
      <4>3. z[i] = ps[j] /\ ps[j] = rest[j - Len(fs)]
        BY <2>5, <3>2, <4>1, <4>2, Zenon
      <4> QED BY <4>2, <4>3, Zenon
    <3>5. z = rest
      BY <3>2, <3>3, <3>4, SeqEqual, Zenon
    <3> QED BY <3>1, <3>5
  <2>7. SubSeq(ps, 1, n) = SubSeq(fs, 1, n)
    <3>1. PICK a, b : a = SubSeq(ps, 1, n) /\ b = SubSeq(fs, 1, n)
      BY Zenon
    <3>2. \A i \in 1 .. n : ps[i] = fs[i] /\ fs[i] \in Sent /\ ps[i] \in Sent
      BY <2>1, <2>4, <2>5
    <3>3. /\ a \in Seq(Sent) /\ Len(a) = IF 1 <= n THEN n - 1 + 1 ELSE 0
          /\ \A i \in 1 .. n - 1 + 1 : a[i] = ps[1 + i - 1]
      BY <2>5, <3>1, <3>2, SubSeqProperties
    <3>4. /\ b \in Seq(Sent) /\ Len(b) = IF 1 <= n THEN n - 1 + 1 ELSE 0
          /\ \A i \in 1 .. n - 1 + 1 : b[i] = fs[1 + i - 1]
      BY <2>5, <3>1, <3>2, SubSeqProperties
    <3>5. Len(a) = Len(b) /\ \A i \in 1 .. Len(a) : a[i] = b[i]
      BY <2>5, <3>2, <3>3, <3>4
    <3> QED BY <3>1, <3>3, <3>4, <3>5, SeqEqual, Zenon
  <2>8. Len(ps) >= n /\ SubSeq(fs, 1, n) = fs
    BY <2>1, <2>4, <2>5, SubSeqFull
  <2> QED BY <2>2, <2>3, <2>4, <2>6, <2>7, <2>8, Zenon
<1> QED BY <1>2, <1>3 DEF StreamIntact

-----------------------------------------------------------------------------
(* The size of the cache. *)

\* The part of TypeOK that does not depend on what the decoder returns.
CacheBound ==
  /\ IsFiniteSet(DOMAIN entries) /\ Cardinality(DOMAIN entries) <= MaxRequests
  /\ \A r \in DOMAIN entries : entries[r] = Unanswered \/ entries[r] \in accepted
  /\ running \subseteq accepted

\* begin inserts only into a cache that has room once the answered entries are
\* evicted (idempotency_cache.cpp:38-46).
LEMMA BeginKeepsBound ==
  ASSUME NEW request, NEW sequence, CacheBound, Begin(request, sequence)
  PROVE  CacheBound'
<1> DEFINE left == [r \in DOMAIN entries \ Evicted(entries) |-> entries[r]]
<1>1. /\ IsFiniteSet(DOMAIN left) /\ Cardinality(DOMAIN left) <= Cardinality(DOMAIN entries)
      /\ Cardinality(DOMAIN left) \in Nat /\ Cardinality(DOMAIN entries) \in Nat
  BY FS_Subset, FS_CardinalityType, Zenon DEF CacheBound
<1>2. \A r \in DOMAIN left : left[r] = Unanswered \/ left[r] \in accepted
  BY DEF CacheBound
<1> HIDE DEF left
<1>3. CASE Full(left)
  <2>1. entries' = left /\ UNCHANGED <<running, accepted>>
    BY <1>3, Zenon DEF Begin, left
  <2> QED BY <1>1, <1>2, <2>1, CacheAssumption DEF CacheBound
<1>4. CASE ~Full(left)
  <2>1. PICK command :
          /\ entries' = [r \in DOMAIN left \cup {request} |-> IF r = request THEN Unanswered ELSE left[r]]
          /\ running' = running \cup {command} /\ accepted' = accepted \cup {command}
    BY <1>4, Zenon DEF Begin, left
  <2>2. Cardinality(DOMAIN left) < MaxRequests
    BY <1>1, <1>4, CacheAssumption DEF Full
  <2>3. /\ IsFiniteSet(DOMAIN left \cup {request})
        /\ \/ Cardinality(DOMAIN left \cup {request}) = Cardinality(DOMAIN left)
           \/ Cardinality(DOMAIN left \cup {request}) = Cardinality(DOMAIN left) + 1
    BY <1>1, FS_AddElement, Zenon
  <2>4. DOMAIN entries' = DOMAIN left \cup {request}
    BY <2>1
  <2>5. IsFiniteSet(DOMAIN entries') /\ Cardinality(DOMAIN entries') <= MaxRequests
    BY <1>1, <2>2, <2>3, <2>4, CacheAssumption
  <2>6. \A r \in DOMAIN entries' : entries'[r] = Unanswered \/ entries'[r] \in accepted'
    BY <1>2, <2>1
  <2> QED BY <2>1, <2>5, <2>6, Zenon DEF CacheBound
<1> QED BY <1>3, <1>4

\* Every step of the path keeps the bound: complete writes entries that are there.
LEMMA BoundKept == CacheBound /\ [PathNext]_pathVars => CacheBound'
<1> SUFFICES ASSUME CacheBound, [PathNext]_pathVars PROVE CacheBound'
  OBVIOUS
<1>1. ASSUME UNCHANGED <<entries, running, accepted>> PROVE CacheBound'
  BY <1>1 DEF CacheBound
<1>2. ASSUME NEW payload, Send(payload) PROVE CacheBound'
  BY <1>1, <1>2 DEF Send, cache
<1>3. ASSUME NEW size, Receive(size) PROVE CacheBound'
  BY <1>1, <1>3 DEF Receive, cache
<1>4. CASE HandleFrame
  <2>1. UNCHANGED cache \/ Begin(Head(frames)[1], Head(frames)[2])
    BY <1>4 DEF HandleFrame
  <2> QED BY <1>1, <2>1, BeginKeepsBound DEF cache
<1>5. ASSUME NEW command \in running, Answer(command) PROVE CacheBound'
  <2>1. /\ running' = running \ {command} /\ UNCHANGED accepted /\ DOMAIN entries' = DOMAIN entries
        /\ \A r \in DOMAIN entries : entries'[r] = entries[r] \/ entries'[r] = command
    BY <1>5 DEF Answer, Complete
  <2> QED BY <2>1, Zenon DEF CacheBound
<1>6. CASE Authenticate
  <2>1. DOMAIN entries' = {} /\ UNCHANGED <<running, accepted>>
    BY <1>6 DEF Authenticate, Reset
  <2> QED BY <2>1, FS_EmptySet, CacheAssumption DEF CacheBound
<1>7. CASE ClockTicks
  BY <1>1, <1>7 DEF ClockTicks, cache
<1>8. CASE UNCHANGED pathVars
  BY <1>1, <1>8 DEF pathVars, cache
<1> QED BY <1>2, <1>3, <1>4, <1>5, <1>6, <1>7, <1>8 DEF PathNext

\* The replay cache never holds more than max_requests_per_user entries, and an
\* entry is open or holds the answer to a command that was accepted
\* (idempotency_cache.cpp:38-46, docs/architecture.md:78).
THEOREM CacheIsBounded == PathSpec => []CacheBound
<1>1. PathInit => CacheBound
  <2> SUFFICES ASSUME PathInit PROVE CacheBound
    OBVIOUS
  <2>1. DOMAIN entries = {} /\ running = {} /\ accepted = {}
    BY DEF PathInit, CacheInit
  <2> QED BY <2>1, FS_EmptySet, CacheAssumption DEF CacheBound
<1> QED BY <1>1, BoundKept, PTL DEF PathSpec


-----------------------------------------------------------------------------
\* The rest of TypeOK: what is in the cache are the requests that clients send.
CommandInv ==
  /\ connection \in Nat \ {0} /\ last \in 0 .. MaxSequence
  /\ DOMAIN entries \subseteq Requests /\ accepted \subseteq Commands

\* begin is asked about requests and numbers that a client has sent.
LEMMA BeginKeepsCommands ==
  ASSUME CommandInv, NEW request \in Requests, NEW sequence \in 1 .. MaxSequence, Begin(request, sequence)
  PROVE  CommandInv'
<1> DEFINE left == [r \in DOMAIN entries \ Evicted(entries) |-> entries[r]]
           command == [connection |-> connection, request |-> request, sequence |-> sequence]
<1>1. connection' = connection /\ Commands' = Commands
  BY Zenon DEF Begin, Commands
<1>2. command \in Commands /\ DOMAIN left \subseteq Requests
  BY DEF CommandInv, Commands
<1>3. /\ \/ DOMAIN entries' = DOMAIN left
         \/ DOMAIN entries' = DOMAIN left \cup {request}
      /\ \/ UNCHANGED <<last, accepted>>
         \/ last' = sequence /\ accepted' = accepted \cup {command}
  BY Zenon DEF Begin
<1> HIDE DEF left, command
<1>4. DOMAIN entries' \subseteq Requests
  BY <1>2, <1>3, Zenon
<1>5. last' \in 0 .. MaxSequence /\ accepted' \subseteq Commands
  BY <1>2, <1>3, CacheAssumption DEF CommandInv
<1> QED BY <1>1, <1>4, <1>5, Zenon DEF CommandInv

\* Every step keeps what is in the cache within what clients send.
LEMMA CommandsKept == PathInv /\ CacheBound /\ CommandInv /\ [PathNext]_pathVars => CommandInv'
<1> SUFFICES ASSUME PathInv, CacheBound, CommandInv, [PathNext]_pathVars PROVE CommandInv'
  OBVIOUS
<1> DEFINE Same == UNCHANGED <<connection, last, accepted>> /\ DOMAIN entries' = DOMAIN entries
<1>1. ASSUME Same PROVE CommandInv'
  BY <1>1 DEF CommandInv, Commands
<1>2. ASSUME NEW payload, Send(payload) PROVE Same
  BY <1>2 DEF Send, cache
<1>3. ASSUME NEW size, Receive(size) PROVE Same
  BY <1>3 DEF Receive, cache
<1>4. CASE HandleFrame
  <2>1. PICK p : p = Head(frames)
    OBVIOUS
  <2>2. frames # <<>> /\ (UNCHANGED cache \/ (Parses(p) /\ Begin(p[1], p[2])))
    BY <1>4, <2>1, Zenon DEF HandleFrame
  <2>3. CASE UNCHANGED cache
    BY <1>1, <2>3 DEF cache
  <2>4. CASE Parses(p) /\ Begin(p[1], p[2])
    <3>1. p \in Wire /\ MayEncode(p)
      BY <2>1, <2>2, FrontIsWire
    <3>2. p[1] \in Requests /\ p[2] \in 1 .. MaxSequence
      BY <2>4, <3>1 DEF Wire
    <3> QED BY <2>4, <3>2, BeginKeepsCommands
  <2> QED BY <2>2, <2>3, <2>4
<1>5. ASSUME NEW command \in running, Answer(command) PROVE Same
  BY <1>5 DEF Answer, Complete
<1>6. CASE Authenticate
  <2>1. connection' = connection + 1 /\ last' = 0 /\ DOMAIN entries' = {} /\ accepted' = accepted
    BY <1>6 DEF Authenticate, Reset
  <2>2. 1 .. connection \subseteq 1 .. connection'
    BY <2>1 DEF CommandInv
  <2>3. Commands \subseteq Commands'
    BY <2>2 DEF Commands
  <2> QED BY <2>1, <2>3, CacheAssumption DEF CommandInv
<1>7. CASE ClockTicks \/ UNCHANGED pathVars
  <2>1. Same
    BY <1>7, Zenon DEF ClockTicks, pathVars, cache
  <2> QED BY <1>1, <2>1, Zenon
<1> QED BY <1>1, <1>2, <1>3, <1>4, <1>5, <1>6, <1>7, Zenon DEF PathNext

\* A connection starts with a new decoder.
LEMMA PathAtStart == PathInit => PathInv
BY FreshKeepsPath DEF PathInit

\* However the stream is cut and whatever compact does, no frame is lost, doubled,
\* merged or read at the wrong place (length_field_codec.cpp:36-80).
THEOREM StreamAlwaysIntact == PathSpec => []StreamIntact
<1>1. PathInv => StreamIntact
  BY IntactWhileFed
<1> QED BY <1>1, PathAtStart, PathKept, PTL DEF PathSpec

\* The decoder of a client that waits for each answer and sends frames of a legal size
\* never fails (docs/protocol.md:13, length_field_codec.cpp:43).
THEOREM LegalFramesAlwaysPass == PathSpec => []LegalFramesPass
<1>1. PathInv => LegalFramesPass
  BY IntactWhileFed
<1> QED BY <1>1, PathAtStart, PathKept, PTL DEF PathSpec

\* The cache holds what clients have sent, though the decoder only sees bytes.
THEOREM CacheTypeCorrect == PathSpec => []TypeOK
<1> DEFINE Inv == PathInv /\ CacheBound /\ CommandInv
<1>1. PathInit => Inv
  <2> SUFFICES ASSUME PathInit PROVE CacheBound /\ CommandInv
    BY PathAtStart
  <2>1. DOMAIN entries = {} /\ running = {} /\ accepted = {} /\ connection = 1 /\ last = 0
    BY DEF PathInit, CacheInit
  <2>2. CacheBound
    BY <2>1, FS_EmptySet, CacheAssumption DEF CacheBound
  <2> QED BY <2>1, <2>2, CacheAssumption DEF CommandInv
<1>2. Inv /\ [PathNext]_pathVars => Inv'
  BY PathKept, BoundKept, CommandsKept
<1>3. Inv => TypeOK
  BY DEF CacheBound, CommandInv, TypeOK
<1> QED BY <1>1, <1>2, <1>3, PTL DEF PathSpec

=============================================================================
