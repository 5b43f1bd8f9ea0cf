--------------------------- MODULE ChannelReducer ---------------------------
(***************************************************************************)
(* The pure client reducer of shared/channel-chat-protocol.ts: how a       *)
(* browser folds channel events into the timeline it renders.              *)
(*                                                                         *)
(* One channel is modelled, in one life of that channel, so the durable    *)
(* sequence number identifies a row and stands for its message id too.     *)
(* A row keeps what the reducer and the hub tell apart: who wrote it, its  *)
(* status, a prose stream's text (as the sequence of provider chunks), the *)
(* number of in-place changes made to it, and the meta marker that makes a *)
(* row eligible for re-sending or for a late terminal.                     *)
(***************************************************************************)
EXTENDS Integers, Sequences, FiniteSets, Functions

Kinds == {"human", "prose", "card", "system"}
Settled == {"complete", "truncated"}
Marks == {"none", "edited", "deleted", "provisional", "explicit"}

\* A stored or rendered channel row.
Row == [kind : Kinds, status : Settled \cup {"streaming"}, text : Seq(Nat),
        ver : Nat, mark : Marks]

\* Partial functions from sequence numbers into S.
Partial(S) == UNION {[D -> S] : D \in SUBSET Nat}

\* ChannelReducerState. The run projection is not part of the timeline.
ReducerState == [messages : Partial(Row), lastSeq : Nat,
                 inFlightDelta : Partial(Int), quarantined : SUBSET Nat,
                 needsCatchup : BOOLEAN]

Empty == [s \in {} |-> 0]

initialChannelReducerState ==
  [messages |-> Empty, lastSeq |-> 0, inFlightDelta |-> Empty,
   quarantined |-> {}, needsCatchup |-> FALSE]

-----------------------------------------------------------------------------
(* Events. `close` is the 4409 close frame, which follows the data in the  *)
(* socket; the rest are the ChannelEventV1 variants that touch rows.       *)

RowEvent(type, s, row) == [type |-> type, seq |-> s, row |-> row]
DeltaEvent(s, index, text) ==
  [type |-> "delta", seq |-> s, index |-> index, text |-> text]
ResyncEvent == [type |-> "resync"]
CloseEvent == [type |-> "close"]

\* Overlay(f, g): g's entries win.
Overlay(f, g) ==
  [x \in DOMAIN f \cup DOMAIN g |-> IF x \in DOMAIN g THEN g[x] ELSE f[x]]

Put(f, s, v) == [x \in DOMAIN f \cup {s} |-> IF x = s THEN v ELSE f[x]]

-----------------------------------------------------------------------------
(* applyChannelEventV1, one operator per case of its switch.               *)

ApplyFull(c, e) ==
  [messages |-> e.messages, lastSeq |-> e.latestSeq,
   inFlightDelta |-> e.inFlight, quarantined |-> {}, needsCatchup |-> FALSE]

\* applySnapshotStateReplacements overwrites rows already held, and takes
\* each one's stream cursor and quarantine with it.
ApplyCatchup(c, e) ==
  LET accepted == {s \in DOMAIN e.messages :
                     s \in DOMAIN c.messages \/ s > c.lastSeq}
      replaced == DOMAIN e.replacements \cap DOMAIN c.messages
      streaming == replaced \cap DOMAIN e.replacementInFlight
  IN [messages |-> Overlay(Overlay(c.messages, Restrict(e.messages, accepted)),
                           Restrict(e.replacements, replaced)),
      lastSeq |-> IF e.latestSeq > c.lastSeq THEN e.latestSeq ELSE c.lastSeq,
      inFlightDelta |->
        Overlay(Restrict(e.inFlight, DOMAIN e.inFlight \ replaced),
                Restrict(e.replacementInFlight, streaming)),
      quarantined |-> c.quarantined \ replaced,
      needsCatchup |-> FALSE]

ApplySnapshot(c, e) ==
  IF e.mode = "full" THEN ApplyFull(c, e) ELSE ApplyCatchup(c, e)

WithRow(c, s, row) == [c EXCEPT !.messages = Put(@, s, row)]
AskCatchup(c) == [c EXCEPT !.needsCatchup = TRUE]

ApplyCreated(c, e) ==
  CASE e.seq \in DOMAIN c.messages \/ e.seq <= c.lastSeq -> c
    [] e.seq \notin DOMAIN c.messages /\ e.seq > c.lastSeq + 1 -> AskCatchup(c)
    [] e.seq \notin DOMAIN c.messages /\ e.seq = c.lastSeq + 1 ->
         [WithRow(c, e.seq, e.row) EXCEPT !.lastSeq = e.seq]

ExpectedDelta(c, s) ==
  (IF s \in DOMAIN c.inFlightDelta THEN c.inFlightDelta[s] ELSE -1) + 1

\* Mutation: the delta index is not compared with the stream's cursor.
UncheckedDelta(c, e) ==
  IF e.seq \notin DOMAIN c.messages THEN AskCatchup(c)
  ELSE IF c.messages[e.seq].status # "streaming" THEN c
  ELSE [c EXCEPT !.messages[e.seq].text = @ \o e.text,
                 !.inFlightDelta = Put(@, e.seq, e.index)]

ApplyDelta(c, e) ==
  IF e.seq \notin DOMAIN c.messages THEN AskCatchup(c)
  ELSE IF c.messages[e.seq].status # "streaming" \/ e.seq \in c.quarantined
       THEN c
  ELSE IF e.index # ExpectedDelta(c, e.seq)
       THEN [c EXCEPT !.quarantined = @ \cup {e.seq}]
  ELSE [c EXCEPT !.messages[e.seq].text = @ \o e.text,
                 !.inFlightDelta = Put(@, e.seq, e.index)]

ApplyUpdated(c, e) ==
  IF e.seq \notin DOMAIN c.messages THEN AskCatchup(c)
  ELSE IF c.messages[e.seq].status # "streaming" \/ e.row.status # "streaming"
       THEN c
  ELSE WithRow(c, e.seq, e.row)

ApplyCompleted(c, e) ==
  IF e.seq \notin DOMAIN c.messages THEN AskCatchup(c)
  ELSE [WithRow(c, e.seq, e.row) EXCEPT
          !.inFlightDelta = Restrict(@, DOMAIN @ \ {e.seq}),
          !.quarantined = @ \ {e.seq}]

\* Edits and tombstones share their guards: an unknown row is outside the
\* loaded window and a live stream is never a target.
ApplyRevised(c, e) ==
  IF e.seq \in DOMAIN c.messages /\ c.messages[e.seq].status # "streaming"
  THEN WithRow(c, e.seq, e.row)
  ELSE c

applyChannelEventV1(c, e) ==
  CASE e.type = "snapshot" -> ApplySnapshot(c, e)
    [] e.type = "created" -> ApplyCreated(c, e)
    [] e.type = "delta" -> ApplyDelta(c, e)
    [] e.type = "updated" -> ApplyUpdated(c, e)
    [] e.type = "completed" -> ApplyCompleted(c, e)
    [] e.type \in {"edited", "deleted"} -> ApplyRevised(c, e)
    [] e.type = "resync" -> AskCatchup(c)

\* mergeHistoryPage: every page row is inserted, replacing a held copy.
mergeHistoryPage(c, page) ==
  LET merged == Overlay(c.messages, page)
      highest == {s \in DOMAIN merged : \A t \in DOMAIN merged : t <= s}
  IN IF DOMAIN page = {} THEN c
     ELSE [c EXCEPT !.messages = merged,
                    !.lastSeq = CHOOSE n \in highest \cup {@} :
                                  \A m \in highest \cup {@} : m <= n]
=============================================================================
