--------------------------- MODULE ReliableStream ---------------------------
(***************************************************************************)
(* What a terminal's viewer is promised: bytes are shown in order, none    *)
(* twice, and none is passed over that the hub still holds.                *)
(***************************************************************************)
EXTENDS Integers, Sequences

VARIABLES
  produced,   \* how many bytes the terminal has written
  evicted,    \* how many of them the hub has thrown away, oldest first
  position,   \* how far the viewer has got
  shown       \* the bytes it has been given, in order

streamVars == <<produced, evicted, position, shown>>

StreamInit == produced = 0 /\ evicted = 0 /\ position = 0 /\ shown = <<>>

Produce ==
  /\ produced' > produced /\ evicted' \in evicted..produced'
  /\ UNCHANGED <<position, shown>>

Evict ==
  /\ evicted' \in (evicted + 1)..produced
  /\ UNCHANGED <<produced, position, shown>>

Show ==
  /\ position' \in (position + 1)..produced
  /\ shown' = shown \o [i \in 1..(position' - position) |-> position + i]
  /\ UNCHANGED <<produced, evicted>>

\* Only what is gone is passed over.
Skip ==
  /\ position' \in (position + 1)..evicted
  /\ UNCHANGED <<produced, evicted, shown>>

StreamSpec == StreamInit /\ [][Produce \/ Evict \/ Show \/ Skip]_streamVars
=============================================================================
