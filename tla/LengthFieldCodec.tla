-------------------------- MODULE LengthFieldCodec --------------------------
(***************************************************************************)
(* The frame codec of src/src/poker/net/length_field_codec.cpp as          *)
(* operators on its state: buffer_, read_offset_ and failed_.  A byte is a *)
(* digit below Base, a header is HeaderSize of them (256 and 4 in the      *)
(* code), so that small frames already fill headers and buffer.            *)
(***************************************************************************)
EXTENDS Naturals, Sequences

CONSTANTS
  Base,        \* values of a byte
  HeaderSize,  \* header_size
  MaxFrame,    \* max_frame_size_
  Compaction   \* offset from which compact always erases (4096 in the code)

\* A size, shifted right by 0, 1, ... bytes.
Shifted(size) ==
  LET by[i \in 0 .. HeaderSize] == IF i = 0 THEN size ELSE by[i - 1] \div Base IN by

\* A header holds the size of any frame that is refused only for being too long:
\* POKER_MAX_FRAME_BYTES is at most 16 MiB (server_config.cpp:83).
ASSUME CodecAssumption ==
  /\ {Base, HeaderSize, MaxFrame, Compaction} \subseteq Nat \ {0}
  /\ \A size \in 0 .. MaxFrame + 1 : Shifted(size)[HeaderSize] = 0

NewCodec == [buffer |-> <<>>, offset |-> 0, failed |-> FALSE]

Buffered(codec) == SubSeq(codec.buffer, codec.offset + 1, Len(codec.buffer))

\* The big-endian header; encode puts it before the payload.
Header(size) == [i \in 1 .. HeaderSize |-> Shifted(size)[HeaderSize - i] % Base]

Encode(payload) == Header(Len(payload)) \o payload

MayEncode(payload) == Len(payload) \in 1 .. MaxFrame

PeekLength(buffer, offset) ==
  LET value[i \in 0 .. HeaderSize] ==
        IF i = 0 THEN 0 ELSE value[i - 1] * Base + buffer[offset + i]
  IN value[HeaderSize]

\* A turn of the loop of feed: the next frame is taken if it is complete.
Turn(buffer, turn) ==
  LET length == PeekLength(buffer, turn.offset)
      end == turn.offset + HeaderSize + length
  IN IF turn.failed \/ Len(buffer) - turn.offset < HeaderSize THEN turn
     ELSE IF length = 0 \/ length > MaxFrame THEN [turn EXCEPT !.failed = TRUE]
     ELSE IF Len(buffer) < end THEN turn
     ELSE [turn EXCEPT !.frames = Append(@, SubSeq(buffer, turn.offset + HeaderSize + 1, end)),
                       !.offset = end]

\* The loop: a turn that takes a frame reads a byte at least, any other one is the last.
Decode(buffer, offset) ==
  LET turns[n \in 0 .. Len(buffer)] ==
        IF n = 0 THEN [frames |-> <<>>, offset |-> offset, failed |-> FALSE]
        ELSE Turn(buffer, turns[n - 1])
  IN turns[Len(buffer)]

\* Fault: what has been read is dropped and the offset stays.
Compact_KeepsOffset(buffer, offset) ==
  IF 2 * offset >= Len(buffer)
  THEN [buffer |-> SubSeq(buffer, offset + 1, Len(buffer)), offset |-> offset]
  ELSE [buffer |-> buffer, offset |-> offset]

Compact(buffer, offset) ==
  IF offset > 0 /\ (offset >= Compaction \/ 2 * offset >= Len(buffer))
  THEN [buffer |-> SubSeq(buffer, offset + 1, Len(buffer)), offset |-> 0]
  ELSE [buffer |-> buffer, offset |-> offset]

\* Fault: the limit leaves out the header.
TooMuch_NoHeader(codec, data) == Len(Buffered(codec)) + Len(data) > MaxFrame

TooMuch(codec, data) == Len(Buffered(codec)) + Len(data) > MaxFrame + HeaderSize

\* feed: a failure returns no frame, not even those before the bad one, and lasts.
Feed(codec, data) ==
  LET buffer == codec.buffer \o data
      result == Decode(buffer, codec.offset)
      left == Compact(buffer, result.offset)
  IN IF codec.failed \/ TooMuch(codec, data)
     THEN [codec |-> [codec EXCEPT !.failed = TRUE], frames |-> <<>>]
     ELSE IF result.failed
     THEN [codec |-> [buffer |-> buffer, offset |-> result.offset, failed |-> TRUE],
           frames |-> <<>>]
     ELSE [codec |-> [buffer |-> left.buffer, offset |-> left.offset, failed |-> FALSE],
           frames |-> result.frames]
=============================================================================
