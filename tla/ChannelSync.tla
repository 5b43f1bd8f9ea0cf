---------------------------- MODULE ChannelSync ----------------------------
(***************************************************************************)
(* One channel from the durable log to one browser timeline: the message   *)
(* store, the agent bridge's streams, the hub's accumulators and           *)
(* subscriber, the socket between them, and the browser's reducer and      *)
(* reconnect logic.                                                        *)
(*                                                                         *)
(* The server is one Node process: a store write and the broadcast that    *)
(* follows it happen in one synchronous handler, so each handler is one    *)
(* action. Timers (delta coalescing, row-update and database flushes), the *)
(* socket, React's commit, REST responses and crashes interleave freely.   *)
(***************************************************************************)
EXTENDS ChannelHub

CONSTANTS StreamKinds,           \* the kinds of streams the agent opens
          BodyMaxChunks,         \* CHANNEL_MESSAGE_BODY_MAX_BYTES, in chunks
          MaxReconnectAttempts,  \* MAX_RECONNECT_ATTEMPTS
          HistoryPageLimit,      \* HISTORY_PAGE_LIMIT
          MaxRows, MaxVer, MaxNet, MaxFaults, MaxLoads  \* exploration bounds

ASSUME SyncLimits ==
  /\ StreamKinds \subseteq {"prose", "card"}
  /\ {BodyMaxChunks, HistoryPageLimit} \subseteq Nat \ {0}
  /\ {MaxReconnectAttempts, MaxRows, MaxVer, MaxNet, MaxFaults, MaxLoads}
       \subseteq Nat

VARIABLES
  log,      \* durable rows; a row's index is its seq
  acc,      \* open streams in memory: the bridge's text, the hub's cursor
  sub,      \* the hub's subscriber for the browser's current socket
  net,      \* events in that socket, oldest first
  sock,     \* the browser's view of its socket
  since,    \* the cursor in the URL of a socket being opened
  client,   \* the reducer state
  cursor,   \* cursorRef: lastSeq as of the last React commit
  seen,     \* needsCatchup as of the last React commit
  attempts, \* reconnectAttemptRef
  load,     \* the loadOlder request in flight
  hasMore,  \* hasMoreOlderRef
  faults,   \* crashes and losses so far (exploration bound)
  loads     \* loadOlder calls so far (exploration bound)

server == <<log, acc>>
wire == <<sub, net>>
socket == <<sock, since, attempts>>
react == <<cursor, seen>>
paging == <<load, hasMore, loads>>
vars == <<log, acc, sub, net, sock, since, client, cursor, seen, attempts,
          load, hasMore, faults, loads>>

SockStates == {"down", "connecting", "open"}
NoLoad == [state |-> "idle", before |-> 0, page |-> Empty, more |-> FALSE]

Init ==
  /\ log = <<>>
  /\ acc = Empty
  /\ sub = "none" /\ net = <<>>
  /\ sock = "connecting" /\ since = NoCursor /\ attempts = 0
  /\ client = initialChannelReducerState
  /\ cursor = NoCursor /\ seen = FALSE
  /\ load = NoLoad /\ hasMore = FALSE
  /\ faults = 0 /\ loads = 0

-----------------------------------------------------------------------------
(* Fan-out to the subscriber. Events have any size, so the bufferedAmount  *)
(* of a socket that holds one may be anything.                             *)

Buffered == IF net = <<>> THEN {0} ELSE 0..(HardLimit + 1)

Broadcast(e) ==
  \E buffered \in Buffered :
    /\ sub' = SubAfter(sub, buffered, e)
    /\ net' = net \o SentBy(sub, buffered, e)

\* Bound: the hub is asked to send only while the socket holds few events.
RoomOnWire == Len(net) <= MaxNet

BrowserUnchanged == UNCHANGED <<socket, client, react, paging, faults>>

-----------------------------------------------------------------------------
(* Store writes, each with the broadcast its handler ends in.              *)

NewRow(kind, status, text) ==
  [kind |-> kind, status |-> status, text |-> text, ver |-> 0, mark |-> "none"]

\* postToChannel: append a complete human row at MAX(seq) + 1.
Post ==
  LET row == NewRow("human", "complete", <<>>)
  IN /\ Len(log) < MaxRows /\ RoomOnWire
     /\ log' = Append(log, row)
     /\ Broadcast(RowEvent("created", Len(log) + 1, row))
     /\ UNCHANGED acc /\ BrowserUnchanged

\* Mutation: the accumulator is registered one past the row it streams.
MisplacedBeginStream(kind, text) ==
  LET row == NewRow(kind, "streaming", text)
      s == Len(log) + 1
  IN /\ Len(log) < MaxRows /\ RoomOnWire
     /\ kind = "card" => text = <<>>
     /\ log' = Append(log, row)
     /\ acc' = Put(acc, s + 1, [text |-> text, pending |-> <<>>,
                                deltaIndex |-> -1, update |-> <<>>])
     /\ Broadcast(RowEvent("created", s, row))
     /\ BrowserUnchanged

\* openStream and openDetailStream: insert a streaming row, start its
\* accumulator and announce it. Prose may start with text.
BeginStream(kind, text) ==
  LET row == NewRow(kind, "streaming", text)
      s == Len(log) + 1
  IN /\ Len(log) < MaxRows /\ RoomOnWire
     /\ kind = "card" => text = <<>>
     /\ log' = Append(log, row)
     /\ acc' = Put(acc, s, [text |-> text, pending |-> <<>>,
                            deltaIndex |-> -1, update |-> <<>>])
     /\ Broadcast(RowEvent("created", s, row))
     /\ BrowserUnchanged

\* Mutation: `completed` is broadcast though the durable write did not happen.
UnstoredFinalize(s, status, mark) ==
  LET row == [log[s] EXCEPT !.text = acc[s].text, !.status = status,
                            !.ver = @ + 1, !.mark = mark]
  IN /\ acc' = Restrict(acc, DOMAIN acc \ {s})
     /\ Broadcast(RowEvent("completed", s, row))
     /\ UNCHANGED log /\ BrowserUnchanged

\* finalize and finalizeDetail: the row is made durable before its stream is
\* released and `completed` is broadcast; unsent deltas are dropped. A card
\* settled by its own terminal is explicit, one settled by the turn's end is
\* provisional.
Finalize(s, status, mark) ==
  LET text == acc[s].text
      row == [log[s] EXCEPT !.text = text, !.status = status,
                            !.ver = @ + 1, !.mark = mark]
  IN /\ log' = [log EXCEPT ![s] = row]
     /\ acc' = Restrict(acc, DOMAIN acc \ {s})
     /\ Broadcast(RowEvent("completed", s, row))
     /\ BrowserUnchanged

FinalizeStream(s, status, mark) ==
  /\ s \in DOMAIN acc /\ log[s].status = "streaming" /\ RoomOnWire
  /\ IF log[s].kind = "card" THEN mark \in {"provisional", "explicit"}
                             ELSE mark = "none"
  /\ Finalize(s, status, mark)

\* appendDelta: the next chunk of a prose stream, or the size limit.
AppendDelta(s) ==
  LET chunk == Len(acc[s].text) + 1
  IN /\ s \in DOMAIN acc /\ log[s].kind = "prose" /\ RoomOnWire
     /\ IF chunk <= BodyMaxChunks
        THEN /\ acc' = [acc EXCEPT ![s].text = Append(@, chunk),
                                   ![s].pending = Append(@, chunk)]
             /\ UNCHANGED <<log, wire>> /\ BrowserUnchanged
        ELSE Finalize(s, "truncated", "none")

\* flushAccumulator: the coalesced delta of one tick.
FlushAccumulator(s) ==
  /\ s \in DOMAIN acc /\ acc[s].pending # <<>> /\ RoomOnWire
  /\ acc' = [acc EXCEPT ![s].deltaIndex = @ + 1, ![s].pending = <<>>]
  /\ Broadcast(DeltaEvent(s, acc[s].deltaIndex + 1, acc[s].pending))
  /\ UNCHANGED log /\ BrowserUnchanged

\* scheduleFlush's timer: the stream's text reaches the database. It is
\* armed with the first delta's tick, which is ten times shorter.
FlushStreamText(s) ==
  /\ s \in DOMAIN acc /\ log[s].text # acc[s].text
  /\ acc[s].deltaIndex >= 0
  /\ log' = [log EXCEPT ![s].text = acc[s].text]
  /\ UNCHANGED <<acc, wire>> /\ BrowserUnchanged

\* Mutation: the row held for the tick was read before the update.
StaleAgentDetail(s) ==
  /\ s \in DOMAIN acc /\ log[s].kind = "card" /\ log[s].ver < MaxVer
  /\ log' = [log EXCEPT ![s].ver = @ + 1]
  /\ acc' = [acc EXCEPT ![s].update = <<log[s]>>]
  /\ UNCHANGED wire /\ BrowserUnchanged

\* updateAgentDetail, then updateStreamBroadcast holds the row for its tick.
UpdateAgentDetail(s) ==
  /\ s \in DOMAIN acc /\ log[s].kind = "card" /\ log[s].ver < MaxVer
  /\ log' = [log EXCEPT ![s].ver = @ + 1]
  /\ acc' = [acc EXCEPT ![s].update = <<log'[s]>>]
  /\ UNCHANGED wire /\ BrowserUnchanged

FlushRowUpdate(s) ==
  /\ s \in DOMAIN acc /\ acc[s].update # <<>> /\ RoomOnWire
  /\ acc' = [acc EXCEPT ![s].update = <<>>]
  /\ Broadcast(RowEvent("updated", s, Head(acc[s].update)))
  /\ UNCHANGED log /\ BrowserUnchanged

\* A provider's late explicit terminal for a card that a turn's end or a
\* restart settled provisionally.
ResolveProvisional(s, status) ==
  LET row == [log[s] EXCEPT !.status = status, !.mark = "explicit", !.ver = @ + 1]
  IN /\ s \in DOMAIN log /\ log[s].mark = "provisional" /\ RoomOnWire
     /\ log' = [log EXCEPT ![s] = row]
     /\ acc' = Restrict(acc, DOMAIN acc \ {s})
     /\ Broadcast(RowEvent("completed", s, row))
     /\ BrowserUnchanged

\* editMessage: the operator's own complete row that is not a tombstone.
EditMessage(s) ==
  LET row == [log[s] EXCEPT !.ver = @ + 1, !.mark = "edited"]
  IN /\ s \in DOMAIN log /\ log[s].kind = "human" /\ log[s].mark # "deleted"
     /\ log[s].ver < MaxVer /\ RoomOnWire
     /\ log' = [log EXCEPT ![s] = row]
     /\ Broadcast(RowEvent("edited", s, row))
     /\ UNCHANGED acc /\ BrowserUnchanged

\* deleteMessage: a tombstone in place; a repeated delete changes nothing and
\* is broadcast again.
DeleteMessage(s) ==
  LET row == IF log[s].mark = "deleted" THEN log[s]
             ELSE [log[s] EXCEPT !.ver = @ + 1, !.mark = "deleted"]
  IN /\ s \in DOMAIN log /\ log[s].kind = "human"
     /\ log[s].ver < MaxVer \/ log[s].mark = "deleted"
     /\ RoomOnWire
     /\ log' = [log EXCEPT ![s] = row]
     /\ acc' = Restrict(acc, DOMAIN acc \ {s})
     /\ Broadcast(RowEvent("deleted", s, row))
     /\ BrowserUnchanged

-----------------------------------------------------------------------------
(* Connecting and losing the socket.                                       *)

\* flushPendingForChannel, as it leaves the accumulators.
Flushed == [s \in DOMAIN acc |->
              IF acc[s].pending = <<>> THEN acc[s]
              ELSE [acc[s] EXCEPT !.deltaIndex = @ + 1, !.pending = <<>>]]

\* The members of a finite set of numbers, smallest first.
InOrder(S) ==
  CHOOSE q \in [1..Cardinality(S) -> S] :
    \A i, j \in DOMAIN q : i < j => q[i] < q[j]

\* The flushed deltas queue behind the snapshot, and those the snapshot
\* already reflects are dropped when the queue drains.
QueuedDeltas(snapshot) ==
  LET recorded == DOMAIN snapshot.inFlight \cup
                  DOMAIN snapshot.replacementInFlight
      flushed == {s \in DOMAIN acc : acc[s].pending # <<>>}
      order == InOrder(flushed \ recorded)
  IN [i \in 1..Len(order) |->
        DeltaEvent(order[i], Flushed[order[i]].deltaIndex,
                   acc[order[i]].pending)]

\* subscribe: register, flush, snapshot, drain. The snapshot may fill the
\* socket, so any suffix of the drained deltas can meet the watermark, and
\* the hard limit closes the socket instead.
Subscribe ==
  LET snapshot == buildSnapshot(log, Flushed, since)
      queued == QueuedDeltas(snapshot)
  IN /\ sock = "connecting"
     /\ acc' = Flushed
     /\ \E k \in 0..Len(queued) :
          LET sent == <<snapshot>> \o SubSeq(queued, 1, k)
          IN \/ /\ sub' = IF k = Len(queued) THEN "live" ELSE "lagging"
                /\ net' = sent
             \/ /\ k < Len(queued)
                /\ sub' = "none" /\ net' = Append(sent, CloseEvent)
     /\ sock' = "open" /\ since' = NoCursor /\ attempts' = 0
     /\ UNCHANGED <<log, client, react, paging, faults>>

\* A restart loses the accumulators and every subscriber; sweepStaleStreaming
\* settles what was streaming and posts one notice. What the old process had
\* sent may still arrive. (The notice is not bounded by MaxRows.)
CrashRestart ==
  LET stale == {s \in DOMAIN log : log[s].status = "streaming"}
      swept == [s \in DOMAIN log |->
                  IF s \in stale
                  THEN [log[s] EXCEPT !.status = "truncated", !.ver = @ + 1,
                          !.mark = IF log[s].kind = "card" THEN "provisional"
                                                           ELSE "none"]
                  ELSE log[s]]
  IN /\ faults < MaxFaults
     /\ log' = IF stale = {} THEN log
               ELSE Append(swept, NewRow("system", "complete", <<>>))
     /\ acc' = Empty /\ sub' = "none"
     /\ faults' = faults + 1
     /\ UNCHANGED <<net, socket, client, react, paging>>

\* The socket dies without either end being told at once (half-open): the
\* server has dropped the subscriber, the browser still believes.
SilentDrop ==
  /\ faults < MaxFaults /\ sub # "none"
  /\ sub' = "none"
  /\ net' \in {SubSeq(net, 1, k) : k \in 0..Len(net)}
  /\ faults' = faults + 1
  /\ UNCHANGED <<server, socket, client, react, paging>>

\* connect: a new socket with the committed cursor; the old one is inert.
Connect ==
  /\ sock' = "connecting" /\ since' = cursor'
  /\ sub' = "none" /\ net' = <<>>

\* onclose with a code other than 4409, from an open or a failed socket.
SocketClosed ==
  /\ faults < MaxFaults \/ (sock = "open" /\ sub = "none" /\ net = <<>>)
  /\ sock \in {"connecting", "open"}
  /\ sock' = "down" /\ since' = NoCursor /\ sub' = "none" /\ net' = <<>>
  /\ faults' = IF faults < MaxFaults THEN faults + 1 ELSE faults
  /\ UNCHANGED <<server, attempts, client, react, paging>>

\* scheduleReconnect's timer, until the attempts run out.
ReconnectTimer ==
  /\ sock = "down" /\ attempts < MaxReconnectAttempts
  /\ attempts' = attempts + 1
  /\ UNCHANGED react /\ Connect
  /\ UNCHANGED <<server, client, paging, faults>>

\* forceReconnect: a woken tab or a returned network while the socket is
\* down, or the manual affordance at any time (bounded with the faults).
ForceReconnect ==
  /\ sock = "down" \/ faults < MaxFaults
  /\ faults' = IF sock = "down" THEN faults ELSE faults + 1
  /\ attempts' = 0
  /\ UNCHANGED react /\ Connect
  /\ UNCHANGED <<server, client, paging>>

\* Mutation: a head that is one ahead is taken for healthy.
LaxProbe ==
  LET known == IF cursor = NoCursor THEN client.lastSeq ELSE cursor
  IN /\ sock = "open" /\ Len(log) > known + 1
     /\ attempts' = 0
     /\ UNCHANGED react /\ Connect
     /\ UNCHANGED <<server, client, paging, faults>>

\* The liveness probe: a head above what the browser holds means that the
\* open socket dropped messages. (The REST answer is compared when it
\* arrives; an answer older than that can only be lower.)
Probe ==
  LET known == IF cursor = NoCursor THEN client.lastSeq ELSE cursor
  IN /\ sock = "open" /\ Len(log) > known
     /\ attempts' = 0
     /\ UNCHANGED react /\ Connect
     /\ UNCHANGED <<server, client, paging, faults>>

-----------------------------------------------------------------------------
(* The browser.                                                            *)

\* onmessage, and onclose 4409, which reconnects at once.
Receive ==
  /\ sock = "open" /\ net # <<>>
  /\ LET e == Head(net)
     IN IF e.type = "close"
        THEN /\ attempts' = 0
             /\ UNCHANGED <<client, react, hasMore>> /\ Connect
        ELSE /\ client' = applyChannelEventV1(client, e)
             /\ net' = Tail(net)
             /\ hasMore' = IF e.type = "snapshot" /\ e.mode = "full"
                           THEN e.truncated ELSE hasMore
             /\ UNCHANGED <<sub, socket, react>>
  /\ UNCHANGED <<server, load, loads, faults>>

\* React commits the reducer state and runs the effects whose inputs changed:
\* the cursor first, then a reconnect when needsCatchup became true.
Commit ==
  LET next == IF client.lastSeq > 0 THEN client.lastSeq ELSE cursor
  IN /\ cursor # next \/ seen # client.needsCatchup
     /\ cursor' = next
     /\ seen' = client.needsCatchup
     /\ IF client.needsCatchup /\ ~seen
        THEN attempts' = 0 /\ Connect
        ELSE UNCHANGED <<sub, net, socket>>
     /\ UNCHANGED <<server, client, paging, faults>>

\* loadOlder: ask for the page before the earliest row rendered, ...
LoadOlder ==
  /\ loads < MaxLoads /\ load.state = "idle" /\ hasMore
  /\ cursor = client.lastSeq
  /\ DOMAIN client.messages # {}
  /\ load' = [NoLoad EXCEPT !.state = "asked",
                            !.before = Min(DOMAIN client.messages)]
  /\ loads' = loads + 1
  /\ UNCHANGED <<server, wire, socket, client, react, hasMore, faults>>

\* ... the server reads it, newest rows first, without the accumulators, ...
ServeHistory ==
  /\ load.state = "asked"
  /\ LET older == {s \in DOMAIN log : s < load.before}
         rows == Newest(older, HistoryPageLimit)
     IN load' = [load EXCEPT !.state = "page", !.page = Restrict(log, rows),
                             !.more = rows # older]
  /\ UNCHANGED <<server, wire, socket, client, react, hasMore, loads, faults>>

\* ... and the answer is merged into whatever the timeline is by then.
MergePage ==
  /\ load.state = "page"
  /\ client' = mergeHistoryPage(client, load.page)
  /\ hasMore' = (load.more \/ Cardinality(DOMAIN load.page) >= HistoryPageLimit)
  /\ load' = NoLoad
  /\ UNCHANGED <<server, wire, socket, react, loads, faults>>

-----------------------------------------------------------------------------
ServerStep ==
  \/ Post
  \/ \E kind \in StreamKinds, text \in {<<>>, <<1>>} : BeginStream(kind, text)
  \/ \E s \in 1..Len(log) :
       \/ \E status \in Settled, mark \in {"none", "provisional", "explicit"} :
            FinalizeStream(s, status, mark)
       \/ \E status \in Settled : ResolveProvisional(s, status)
       \/ AppendDelta(s) \/ FlushAccumulator(s) \/ FlushStreamText(s)
       \/ UpdateAgentDetail(s) \/ FlushRowUpdate(s)
       \/ EditMessage(s) \/ DeleteMessage(s)
  \/ Subscribe
  \/ CrashRestart

BrowserStep ==
  \/ Receive \/ Commit \/ ReconnectTimer \/ ForceReconnect \/ Probe
  \/ LoadOlder \/ ServeHistory \/ MergePage

NetworkStep == SilentDrop \/ SocketClosed

Next == ServerStep \/ BrowserStep \/ NetworkStep

Spec == Init /\ [][Next]_vars

-----------------------------------------------------------------------------
(* Properties                                                              *)

\* The state keeps its shape: rows, cursors and queues have their types.
TypeOK ==
  /\ log \in Seq(Row)
  /\ DOMAIN acc \subseteq DOMAIN log
  /\ \A s \in DOMAIN acc : acc[s] \in Accumulator
  /\ sub \in SubStates /\ sock \in SockStates
  /\ since \in Nat /\ cursor \in Nat /\ attempts \in Nat
  /\ seen \in BOOLEAN /\ hasMore \in BOOLEAN

\* A prose row's text, wherever the browser shows it, is an exact prefix of
\* what the provider streamed: no chunk twice, none lost, none reordered,
\* through snapshots, coalesced deltas, suppression and reconnects.
ChunkExact ==
  \A s \in DOMAIN client.messages :
    LET text == client.messages[s].text
    IN \A i \in DOMAIN text : text[i] = i

\* The timeline is one unbroken run of the log that ends at the cursor, so
\* nothing the cursor claims is missing from it.
WindowContiguous ==
  \A s \in DOMAIN client.messages :
    s..client.lastSeq \subseteq DOMAIN client.messages

\* Nothing is shown that the log never held: a shown row is a version the
\* log has reached, and the current version is shown as the log has it.
ShownIsLogged ==
  \A s \in DOMAIN client.messages :
    LET row == client.messages[s]
    IN /\ s \in DOMAIN log
       /\ row.kind = log[s].kind /\ row.ver <= log[s].ver
       /\ row.ver = log[s].ver => row.status = log[s].status /\ row.mark = log[s].mark

\* Nothing is on its way to the browser and nothing is owed to it.
Quiet ==
  /\ sock = "open" /\ sub = "live" /\ net = <<>>
  /\ ~client.needsCatchup /\ load.state = "idle"
  /\ \A s \in DOMAIN acc : acc[s].pending = <<>> /\ acc[s].update = <<>>

\* A quiet browser shows the log: it is at the head, every row it holds is
\* the current one (an open stream with all its emitted text), and only an
\* open stream can be quarantined.
QuietMeansCurrent ==
  Quiet =>
    /\ client.lastSeq = Len(log)
    /\ \A s \in DOMAIN client.messages :
         \/ s \in client.quarantined /\ s \in DOMAIN acc
         \/ client.messages[s] = Materialize(log, acc, s)

\* A row the browser holds never goes back to an earlier version: a settled
\* stream does not reopen, an edit is not undone, a tombstone stays.
NeverBackwards ==
  [][\A s \in DOMAIN client.messages \cap DOMAIN client'.messages :
       client.messages[s].ver <= client'.messages[s].ver]_vars

-----------------------------------------------------------------------------
(* Fairness. A socket delivers what it holds if it is opened again and     *)
(* again; React commits; the server accepts; the backoff timer and, in a   *)
(* visible tab, the liveness probe fire. The operating system reports a    *)
(* socket whose peer is gone only in FairSpec.                             *)

BrowserFairness ==
  /\ SF_vars(Receive) /\ WF_vars(Commit) /\ WF_vars(Subscribe)
  /\ WF_vars(ReconnectTimer) /\ WF_vars(sock = "down" /\ ForceReconnect)
  /\ WF_vars(Probe)

ProbeSpec == Spec /\ BrowserFairness
FairSpec == ProbeSpec /\ WF_vars(sub = "none" /\ SocketClosed)

\* Once posting stops, the browser reaches the head of the log and stays,
\* whatever was lost, truncated or silently dropped on the way.
HeadReached == <>[](client.lastSeq = Len(log))

\* Once changes stop, every settled row the browser holds is shown as the log
\* has it: no row is left streaming, no edit or deletion is left out.
SettledShown ==
  <>[](\A s \in DOMAIN client.messages :
         log[s].status \in Settled => client.messages[s] = log[s])
=============================================================================
