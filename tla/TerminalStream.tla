--------------------------- MODULE TerminalStream ---------------------------
(***************************************************************************)
(* One terminal's output on its way to a browser: the bounded stream with  *)
(* its byte cursor (shared/session-replay.ts), the lane of one subscriber  *)
(* (server/ws-backpressure.ts, server/ws.ts) and the browser's connection  *)
(* (frontend/src/lib/ws.ts).                                               *)
(*                                                                         *)
(* Byte k is the number k, so a chunk is the range it covers. An envelope  *)
(* is a chunk, or a mark that carries only a cursor: metadata, a resize, a *)
(* lag notice, the start and the end of a replay. Marks of a replay that   *)
(* carry the same cursor are one mark.                                     *)
(***************************************************************************)
EXTENDS Integers, Sequences, SequencesExt

CONSTANTS
  Capacity,    \* capacityBytes
  MaxChunk,    \* the longest chunk a terminal writes at once
  \* Exploration bounds: bytes written and envelopes on the wire.
  MaxBytes, MaxWire

ASSUME TerminalConstants ==
  /\ {Capacity, MaxChunk} \subseteq Nat \ {0} /\ {MaxBytes, MaxWire} \subseteq Nat

VARIABLES
  stream,   \* TerminalStreamState: cursor, oldest, frames
  lane,     \* TerminalLaneState of the socket, and whether it is open
  wire,     \* envelopes sent and not yet received
  viewer    \* PtyConnection: cursor, socket up, and the bytes received

terminalVars == <<stream, lane, wire, viewer>>

Min2(x, y) == IF x < y THEN x ELSE y
Max2(x, y) == IF x > y THEN x ELSE y

Chunk(from, end) == [from |-> from, cursor |-> end]
Mark(cursor) == Chunk(cursor, cursor)

TerminalInit ==
  /\ stream = [cursor |-> 0, oldest |-> 0, frames |-> <<>>]
  /\ lane = [open |-> FALSE, lagging |-> FALSE, gap |-> 0]
  /\ wire = <<>>
  /\ viewer = [cursor |-> 0, up |-> FALSE, got |-> <<>>]

-----------------------------------------------------------------------------
(* The stream.                                                             *)

\* Where frame i begins when the ones before it are gone.
FrameStart(frames, oldest, i) == IF i = 1 THEN oldest ELSE frames[i - 1].cursor

\* trimTerminalStreamToCapacity: whole frames, and never the last one.
trimToCapacity(s) ==
  LET Oldest(k) == FrameStart(s.frames, s.oldest, k)
      Fits(k) == k = Len(s.frames) \/ s.cursor - Oldest(k) <= Capacity
      first == Min({k \in DOMAIN s.frames : Fits(k)})
  IN [s EXCEPT !.oldest = Oldest(first), !.frames = SubSeq(@, first, Len(@))]

appendData(s, n) ==
  trimToCapacity([s EXCEPT !.cursor = @ + n,
                           !.frames = Append(@, Chunk(s.cursor, s.cursor + n))])

\* Mutation: frames are dropped whole.
DropWholeFrames(s, n) ==
  LET oldest == Min2(s.cursor, s.oldest + n)
  IN [s EXCEPT !.oldest = oldest,
               !.frames = SelectSeq(@, LAMBDA f : f.from >= oldest)]

\* The frames that end behind a cursor, the first of them cut at it. Frames are
\* in order, so that they are those from the first one on.
FramesAfter(frames, from) ==
  LET behind == {i \in DOMAIN frames : frames[i].cursor > from}
      kept == IF behind = {} THEN <<>> ELSE SubSeq(frames, Min(behind), Len(frames))
  IN [i \in DOMAIN kept |-> Chunk(Max2(kept[i].from, from), kept[i].cursor)]

\* dropTerminalStreamPrefixBytes.
dropPrefixBytes(s, n) ==
  LET oldest == Min2(s.cursor, s.oldest + n)
  IN [s EXCEPT !.oldest = oldest, !.frames = FramesAfter(@, oldest)]

\* Mutation: the replay ends before the newest frame.
ShortReplay(s, requested) ==
  LET start == Max2(s.oldest, Min2(requested, s.cursor))
      after == FramesAfter(s.frames, start)
  IN <<Mark(start)>> \o (IF after = <<>> THEN after ELSE Front(after))

\* buildTerminalStreamReplay: from the requested cursor, or the oldest byte
\* that is left, or, for a cursor from the future, nothing.
replayFrom(s, requested) ==
  LET start == Max2(s.oldest, Min2(requested, s.cursor))
  IN <<Mark(start)>> \o FramesAfter(s.frames, start) \o <<Mark(s.cursor)>>

-----------------------------------------------------------------------------
(* The lane. bufferedAmount lies between watermarks; it is zero when all   *)
(* that was sent has arrived.                                              *)

Levels == {"low", "middle", "soft", "hard"}
Buffered == IF wire = <<>> THEN {"low"} ELSE Levels

\* Mutation: marks are sent to a subscriber that lags.
MarksPassLag(s, e, level) ==
  IF ~lane.open THEN UNCHANGED <<lane, wire>>
  ELSE IF level = "hard" THEN lane' = [lane EXCEPT !.open = FALSE] /\ UNCHANGED wire
  ELSE IF lane.lagging /\ level = "low"
  THEN lane' = [lane EXCEPT !.lagging = FALSE] /\ wire' = wire \o replayFrom(s, lane.gap)
  ELSE IF lane.lagging /\ e.from < e.cursor THEN UNCHANGED <<lane, wire>>
  ELSE IF level = "soft" /\ e.from < e.cursor
  THEN lane' = [lane EXCEPT !.lagging = TRUE, !.gap = e.from] /\ UNCHANGED wire
  ELSE wire' = Append(wire, e) /\ UNCHANGED lane

\* deliverTerminalEnvelope: close above the hard mark; while lagging, nothing,
\* or the replay of the gap once the queue has drained; shed a chunk above the
\* soft mark; otherwise send.
deliverTerminalEnvelope(s, e, level) ==
  IF ~lane.open THEN UNCHANGED <<lane, wire>>
  ELSE IF level = "hard" THEN lane' = [lane EXCEPT !.open = FALSE] /\ UNCHANGED wire
  ELSE IF lane.lagging
  THEN IF level = "low"
       THEN lane' = [lane EXCEPT !.lagging = FALSE] /\ wire' = wire \o replayFrom(s, lane.gap)
       ELSE UNCHANGED <<lane, wire>>
  ELSE IF level = "soft" /\ e.from < e.cursor
  THEN lane' = [lane EXCEPT !.lagging = TRUE, !.gap = e.from] /\ UNCHANGED wire
  ELSE wire' = Append(wire, e) /\ UNCHANGED lane

-----------------------------------------------------------------------------
(* Actions                                                                 *)

\* proc.onData
Output(n, level) ==
  /\ stream.cursor + n <= MaxBytes /\ Len(wire) < MaxWire /\ level \in Buffered
  /\ stream' = appendData(stream, n)
  /\ deliverTerminalEnvelope(stream', Chunk(stream.cursor, stream.cursor + n), level)
  /\ UNCHANGED viewer

\* Any viewer's resize is announced to all of them.
Resize(level) ==
  /\ Len(wire) < MaxWire /\ level \in Buffered
  /\ deliverTerminalEnvelope(stream, Mark(stream.cursor), level)
  /\ UNCHANGED <<stream, viewer>>

\* enforceGlobalScrollbackCap, on behalf of other sessions.
GlobalTrim(n) ==
  /\ n \in 1..(stream.cursor - stream.oldest)
  /\ stream' = dropPrefixBytes(stream, n)
  /\ UNCHANGED <<lane, wire, viewer>>

\* openPtySocket and the hub's connection handler: the replay is sent before
\* anything else can be.
Connect ==
  /\ ~viewer.up
  /\ viewer' = [viewer EXCEPT !.up = TRUE]
  /\ lane' = [open |-> TRUE, lagging |-> FALSE, gap |-> 0]
  /\ wire' = replayFrom(stream, viewer.cursor)
  /\ UNCHANGED stream

\* handleTerminalStreamEnvelope
Receive ==
  /\ viewer.up /\ wire # <<>>
  /\ LET e == Head(wire)
     IN viewer' = [viewer EXCEPT
                     !.cursor = Max2(@, e.cursor),
                     !.got = @ \o [i \in 1..(e.cursor - e.from) |-> e.from + i]]
  /\ wire' = Tail(wire)
  /\ UNCHANGED <<stream, lane>>

\* The socket is lost, reaped or given up after a missing pong, with whatever
\* is on it; or the hub's close arrives behind the last envelope.
Disconnect ==
  /\ viewer.up
  /\ viewer' = [viewer EXCEPT !.up = FALSE]
  /\ lane' = [lane EXCEPT !.open = FALSE]
  /\ wire' = <<>>
  /\ UNCHANGED stream

TerminalNext ==
  \/ \E n \in 1..MaxChunk, level \in Levels : Output(n, level)
  \/ \E level \in Levels : Resize(level)
  \/ \E n \in 1..MaxBytes : GlobalTrim(n)
  \/ Connect \/ Receive \/ Disconnect

TerminalSpec == TerminalInit /\ [][TerminalNext]_terminalVars

-----------------------------------------------------------------------------
(* Properties                                                              *)

\* The retained frames are exactly the bytes from the oldest to the cursor,
\* in order and without a hole, however they were trimmed.
FramesTile ==
  LET frames == stream.frames
      Begin(i) == FrameStart(frames, stream.oldest, i)
  IN /\ stream.oldest \in 0..stream.cursor
     /\ \A i \in DOMAIN frames : frames[i].from = Begin(i) /\ frames[i].cursor > Begin(i)
     /\ Begin(Len(frames) + 1) = stream.cursor

\* When all that was sent has arrived, an open subscriber that does not lag is
\* at the head of the stream: nothing was shed without a replay.
QuietCaughtUp ==
  viewer.up /\ lane.open /\ ~lane.lagging /\ wire = <<>> => viewer.cursor = stream.cursor

\* The lane, replays, reconnects and trimming together keep the promise of
\* ReliableStream: the viewer's cursor only ever advances over bytes it has
\* received, in order and once, or over bytes the hub no longer holds.
Promise == INSTANCE ReliableStream WITH
  produced <- stream.cursor, evicted <- stream.oldest,
  position <- viewer.cursor, shown <- viewer.got

ReliablyShown == Promise!StreamSpec
=============================================================================
