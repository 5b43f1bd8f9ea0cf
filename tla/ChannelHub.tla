----------------------------- MODULE ChannelHub -----------------------------
(***************************************************************************)
(* The snapshot assembly and the per-subscriber backpressure discipline of *)
(* server/channel-hub.ts, as operators over the durable log, the in-memory *)
(* accumulators of open streams and one subscriber.                        *)
(*                                                                         *)
(* Byte limits are counted in rows and in queued events: a row and an      *)
(* event weigh one unit.                                                   *)
(***************************************************************************)
EXTENDS ChannelReducer, FiniteSetsExt

CONSTANTS SnapshotFullLimit,  \* SNAPSHOT_FULL_LIMIT: rows of a full snapshot
          CatchupMaxRows,     \* CATCHUP_MAX_ROWS: the largest catch-up gap
          SnapshotMaxRows,    \* the byte budget of one snapshot, in rows
          WatermarkLow, WatermarkHigh, HardLimit

ASSUME HubLimits ==
  /\ {SnapshotFullLimit, CatchupMaxRows, SnapshotMaxRows} \subseteq Nat \ {0}
  /\ {WatermarkLow, WatermarkHigh, HardLimit} \subseteq Nat
  /\ WatermarkLow <= WatermarkHigh /\ WatermarkHigh <= HardLimit

\* What the hub keeps in memory for one open stream.
Accumulator == [text : Seq(Nat), pending : Seq(Nat), deltaIndex : Int,
                update : Seq(Row)]

\* A reconnect cursor the client does not have yet (null in the code).
NoCursor == 0

-----------------------------------------------------------------------------
(* assembleWithBudget: the k newest, or the k oldest, members of S.        *)

Newest(S, k) == {s \in S : Cardinality({t \in S : t > s}) < k}
Oldest(S, k) == {s \in S : Cardinality({t \in S : t < s}) < k}

-----------------------------------------------------------------------------
(* buildSnapshot                                                           *)

\* Open streams are shown with the accumulated text, which is ahead of the
\* debounced database flush.
Materialize(log, acc, s) ==
  IF s \in DOMAIN acc /\ log[s].status = "streaming"
  THEN [log[s] EXCEPT !.text = acc[s].text]
  ELSE log[s]

Materialized(log, acc, S) == [s \in S |-> Materialize(log, acc, s)]

InFlightOf(log, acc, S) ==
  [s \in {t \in S \cap DOMAIN acc : log[t].status = "streaming"} |->
     acc[s].deltaIndex]

NeedsFull(log, since) ==
  \/ since = NoCursor
  \/ since > Len(log)
  \/ Len(log) - since > CatchupMaxRows

Snapshot(log, acc, mode, rows, replaced, latest, truncated) ==
  [type |-> "snapshot", mode |-> mode,
   messages |-> Materialized(log, acc, rows),
   inFlight |-> InFlightOf(log, acc, rows),
   replacements |-> Materialized(log, acc, replaced),
   replacementInFlight |-> InFlightOf(log, acc, replaced),
   latestSeq |-> latest, truncated |-> truncated]

FullSnapshot(log, acc) ==
  LET rows == Newest(Newest(DOMAIN log, SnapshotFullLimit), SnapshotMaxRows)
  IN Snapshot(log, acc, "full", rows, {}, Len(log),
              rows # {} /\ 1 \notin rows)

\* Mutation: agent streams that settled below the cursor are not sent again.
RevisedRowsOnly(log, since) ==
  Newest({s \in DOMAIN log : s <= since /\ log[s].mark \in {"edited", "deleted"}},
         CatchupMaxRows)

\* listResyncRows: the newest rows at or below the cursor that can have
\* changed in place.
ResyncRows(log, since) ==
  Newest({s \in DOMAIN log : /\ s <= since
                             /\ \/ log[s].kind \in {"prose", "card"}
                                \/ log[s].mark \in {"edited", "deleted"}},
         CatchupMaxRows)

\* Mutation: a truncated catch-up advertises the true head.
UncappedCatchup(log, acc, since) ==
  LET fresh == {s \in DOMAIN log : s > since}
      rows == Oldest(fresh, SnapshotMaxRows)
      replaced == Newest(ResyncRows(log, since),
                         SnapshotMaxRows - Cardinality(rows))
  IN Snapshot(log, acc, "catchup", rows, replaced, Len(log), rows # fresh)

\* Fresh rows use the budget first; a fresh truncation pulls the advertised
\* head back to the last row delivered.
CatchupSnapshot(log, acc, since) ==
  LET fresh == {s \in DOMAIN log : s > since}
      rows == Oldest(fresh, SnapshotMaxRows)
      resync == ResyncRows(log, since)
      replaced == Newest(resync, SnapshotMaxRows - Cardinality(rows))
      latest == IF rows # fresh THEN Max(rows) ELSE Len(log)
  IN Snapshot(log, acc, "catchup", rows, replaced, latest,
              rows # fresh \/ replaced # resync)

buildSnapshot(log, acc, since) ==
  IF NeedsFull(log, since) THEN FullSnapshot(log, acc)
                           ELSE CatchupSnapshot(log, acc, since)

-----------------------------------------------------------------------------
(* deliver: what one event does to a subscriber whose socket buffers       *)
(* `buffered` units. A subscriber is "none", "live" or "lagging".          *)

SubStates == {"none", "live", "lagging"}

\* A lagging subscriber whose buffer drained is told to resync first.
Drained(sub, buffered) == sub = "lagging" /\ buffered < WatermarkLow

Suppressed(sub, buffered, e) ==
  /\ e.type = "delta"
  /\ \/ sub = "lagging" /\ ~Drained(sub, buffered)
     \/ buffered > WatermarkHigh

\* Mutation: a subscriber that missed a delta is not marked as lagging.
ForgetfulSubAfter(sub, buffered, e) ==
  IF sub = "none" \/ buffered > HardLimit THEN "none" ELSE "live"

SubAfter(sub, buffered, e) ==
  IF sub = "none" \/ buffered > HardLimit THEN "none"
  ELSE IF Suppressed(sub, buffered, e) THEN "lagging"
  ELSE IF Drained(sub, buffered) THEN "live"
  ELSE sub

SentBy(sub, buffered, e) ==
  IF sub = "none" THEN <<>>
  ELSE IF buffered > HardLimit THEN <<CloseEvent>>
  ELSE (IF Drained(sub, buffered) THEN <<ResyncEvent>> ELSE <<>>)
       \o (IF Suppressed(sub, buffered, e) THEN <<>> ELSE <<e>>)
=============================================================================
