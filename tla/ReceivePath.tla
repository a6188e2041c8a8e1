---------------------------- MODULE ReceivePath -----------------------------
(***************************************************************************)
(* What becomes of the bytes a client sends: onMessage of                  *)
(* apps/server/poker_tcp_server.cpp feeds them to the codec, asks the      *)
(* token bucket about every frame, and hands the command to beginRequest   *)
(* of apps/server/protocol_service.cpp, which asks the replay cache.       *)
(*                                                                         *)
(* TCP may cut the stream anywhere.  The payload of a frame is the request *)
(* id and the client_sequence, with or without a body.  Each new            *)
(* authentication of the user comes on a connection of its own, while      *)
(* commands of the earlier one still run.                                  *)
(***************************************************************************)
EXTENDS IdempotencyCache, LengthFieldCodec

CONSTANTS
  Rate,   \* tokens a tick brings
  Loads   \* the loads a behaviour may have: the capacity of the bucket; and bounds: the
          \* request ids used, the bodies, the frames sent on a connection and those at
          \* once, the ticks, whether the user authenticates again, the stream is cut
          \* and malformed frames are sent

\* The constructor of TokenBucket refuses anything else.
ASSUME BucketAssumption ==
  /\ Rate \in Nat \ {0}
  /\ \A l \in Loads : l.burst \in Nat \ {0}

\* Clients send what encode accepts.
ASSUME LoadsAssumption ==
  \A l \in Loads :
    /\ l.requests \subseteq Requests
    /\ \A body \in l.bodies : body \in Seq(0 .. Base - 1) /\ Len(body) + 2 <= MaxFrame

VARIABLES
  stream,   \* bytes on the way
  codec,    \* the connection's decoder
  frames,   \* frames of the loop in onMessage that are still to be handled
  unheard,  \* payloads sent on the connection and not handled
  sends,    \* number of frames sent on the connection
  bucket,   \* its tokens, when they were filled up last, and the frames let through
  clock,    \* ticks since the connection was made
  load      \* the one of Loads that bounds this behaviour

cache == <<last, entries, order, connection, running, accepted>>
path == <<stream, codec, frames, unheard, sends, bucket, clock>>
pathVars == <<cache, path, load>>

Burst == load.burst

FullBucket == [tokens |-> Burst, filled |-> 0, passed |-> 0]

NewConnection ==
  /\ stream' = <<>> /\ codec' = NewCodec /\ frames' = <<>> /\ unheard' = <<>>
  /\ sends' = 0 /\ bucket' = FullBucket /\ clock' = 0

PathInit ==
  /\ CacheInit /\ load \in Loads
  /\ stream = <<>> /\ codec = NewCodec /\ frames = <<>> /\ unheard = <<>>
  /\ sends = 0 /\ bucket = FullBucket /\ clock = 0

Envelope(request, sequence, body) == <<request, sequence>> \o body

Payloads ==
  {Envelope(r, q, body) : r \in load.requests, q \in 1 .. MaxSequence, body \in load.bodies}

\* Payloads no client of ours sends: the two that encode refuses, and one that is no
\* Envelope.
Malformed ==
  IF load.malformed THEN {<<>>, [i \in 1 .. MaxFrame + 1 |-> 0], <<0>>} ELSE {}

Parses(payload) == Len(payload) > 1

Send(payload) ==
  /\ sends < load.sends /\ Len(unheard) < load.window
  /\ sends' = sends + 1
  /\ stream' = stream \o Encode(payload)
  /\ unheard' = Append(unheard, payload)
  /\ UNCHANGED <<cache, codec, frames, bucket, clock, load>>

\* The start of onMessage; muduo hands over what has arrived.
Receive(size) ==
  /\ frames = <<>>
  /\ load.cut \/ size = Len(stream)
  /\ LET result == Feed(codec, SubSeq(stream, 1, size)) IN
       /\ codec' = result.codec
       /\ frames' = result.frames
  /\ stream' = SubSeq(stream, size + 1, Len(stream))
  /\ UNCHANGED <<cache, unheard, sends, bucket, clock, load>>

\* The first half of allow.
Refilled ==
  LET gained == bucket.tokens + (clock - bucket.filled) * Rate
  IN [tokens |-> IF gained > Burst THEN Burst ELSE gained,
      filled |-> clock, passed |-> bucket.passed]

\* One turn of the loop: allow, ParseFromArray, then begin.
HandleFrame ==
  /\ frames # <<>>
  /\ frames' = Tail(frames)
  /\ unheard' = Tail(unheard)
  /\ IF Refilled.tokens < 1
     THEN bucket' = Refilled /\ UNCHANGED cache
     ELSE /\ bucket' = [tokens |-> Refilled.tokens - 1, filled |-> Refilled.filled,
                       passed |-> Refilled.passed + 1]
          /\ LET request == Head(frames)[1]
                 sequence == Head(frames)[2]
             IN IF Parses(Head(frames)) /\ request \notin DOMAIN entries /\ InSequence(sequence)
                THEN Begin(request, sequence) ELSE UNCHANGED cache
  /\ UNCHANGED <<stream, codec, sends, clock, load>>

\* A storage or room thread answers.
Answer(command) ==
  /\ Complete(command)
  /\ UNCHANGED <<path, load>>

\* The user authenticates on a new connection.
Authenticate ==
  /\ load.again
  /\ Reset
  /\ NewConnection
  /\ UNCHANGED load

ClockTicks ==
  /\ clock < load.ticks
  /\ clock' = clock + 1
  /\ UNCHANGED <<cache, stream, codec, frames, unheard, sends, bucket, load>>

PathNext ==
  \/ \E payload \in Payloads \cup Malformed : Send(payload)
  \/ \E size \in 1 .. Len(stream) : Receive(size)
  \/ HandleFrame
  \/ \E command \in running : Answer(command)
  \/ Authenticate
  \/ ClockTicks

PathSpec == PathInit /\ [][PathNext]_pathVars

-----------------------------------------------------------------------------
Encoded(payloads) ==
  LET bytes[i \in 0 .. Len(payloads)] ==
        IF i = 0 THEN <<>> ELSE bytes[i - 1] \o Encode(payloads[i])
  IN bytes[Len(payloads)]

\* However the stream is cut, and whatever compact does to the buffer, the frames of
\* the loop are the next ones sent, and the bytes buffered and on the way are the
\* rest: no frame is lost, doubled, merged or read at the wrong place.
StreamIntact ==
  ~codec.failed =>
    /\ Len(frames) <= Len(unheard) /\ SubSeq(unheard, 1, Len(frames)) = frames
    /\ Encoded(SubSeq(unheard, Len(frames) + 1, Len(unheard)))
         = Buffered(codec) \o stream

\* docs/protocol.md:13: only an empty frame, one too long, or several frames at once
\* can overrun the decoder; a client that waits for each answer is never cut off.
LegalFramesPass ==
  codec.failed => Len(unheard) > 1 \/ \E i \in DOMAIN unheard : ~MayEncode(unheard[i])

\* The token bucket lets through no more than a burst and what the time since the
\* connection was made has earned.
RateBound ==
  /\ bucket.tokens \in 0 .. Burst
  /\ bucket.passed <= Burst + clock * Rate
=============================================================================
