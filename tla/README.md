# Relay IDE: a TLA+ development

Relay IDE is a hub that lets people and coding agents talk in durable channels.
Several of its parts are small distributed systems: a browser timeline kept in
step with a SQLite log over a socket that loses things, agents that delegate to
one another and must be called back exactly once, timers that race answers.
This directory models those parts in TLA+, checks them with TLC on small
instances, and proves what matters most with TLAPS for every instance.

Line numbers are those of `src/`. `PROJECT.json` maps every definition to its
lines, and lists the hazards, the runs, their mutants and the theorems.

## 1. The system

| Part | State it keeps | Operations | Hard because |
| --- | --- | --- | --- |
| message store (`server/channel-message-store.ts`) | rows of a channel, seq, status, revisions | append, begin/append/finalize stream, edit, delete, resolve a provisional terminal, startup sweep, history, resync query | a restart truncates open streams; queries are limited |
| agent bridge (`server/channel-agent-bridge.ts`) | open streams of a turn, text not yet stored | open, delta, detail update, finalize, queue the finalized message | three timers on one row; images delay finalization |
| hub (`server/channel-hub.ts`) | accumulators, subscribers and their lag | subscribe, snapshot, broadcast, flush timers, suppress, resync, close | a snapshot is taken while deltas are pending; slow sockets |
| reducer (`shared/channel-chat-protocol.ts`) | timeline, cursor, in-flight delta index, quarantine, needsCatchup | apply an event, merge a page | gaps, duplicates, reordering across sockets |
| browser socket (`frontend/src/hooks/useChannelChatSocket.ts`) | socket, cursor ref, backoff, page request | connect, receive, commit, reconnect, probe, load older | refs written after commit; REST answers merged late |
| completion callbacks (store and `server/channel-agent-binder.ts`) | one durable edge per delegated turn, intents, claims | create, satisfy, announce, claim, consume, release, terminalize, recover, prune | nested fan-in, acceptance vs terminal order, restart |
| turn engine (binder) | per agent: queue, active turn, steering queue, cursor, timers | route, enqueue, coalesce, pump, send, steer, finish, drain, rebind, retry | timers race patches; a send fails while a newer turn runs; a runtime dies with turns queued |
| async runs and delivery contracts (store, binder) | runs with one target per agent; contract result, pending mark, follow-up chain | post, transition, cancel, evaluate, follow up, recover | late transitions, two transactions in one step, restart |
| read state (store, `frontend/.../channel-activity.ts`) | one mark per channel on the hub, marks and heads per device | mark, push, merge, clamp, broadcast | answers of different age; a channel recreated with the same id |
| terminal stream (`shared/session-replay.ts`, `server/ws-backpressure.ts`) | frames of a bounded scrollback, byte cursor, lag per socket | append, trim, deliver, replay, attach | a slow socket is healed by the next frame; trimming cuts frames |
| node registry, link, link client | nodes, sockets, calls in flight, credentials and their rotation | admit, heartbeat, call, replace a link, rotate, revoke | late answers and closes of replaced sockets; delayed persistence |
| hub lock (`server/hub-lock.ts`) | one file | check, acquire, update, release | check-then-act between processes |
| membership, port allocator, confirmation challenges | rows; assignments; challenges | see `PROJECT.json` | capacity, two spellings of one member |

Interactions. The binder drives an agent's turn; the bridge turns the agent's
patches into store rows and hub broadcasts; the hub serves sockets; the browser
reduces events. A finalized message goes back from the bridge to the binder,
which routes its mentions to other agents: a delegation. The store's edges are
what survives a restart of all this. The parts not yet modelled are listed with
their reasons in `PROJECT.json`.

What makes the modelled parts correct: a timeline shows what the log holds,
without holes, without going back, and reaches the head. A delegation is
reported once, after everything done on its behalf, and is reported eventually.
A message to an agent reaches it once, or somebody is told that it did not. A
run ends, stays ended, and its contract is settled. A terminal shows the bytes
that were written, in order, with gaps only where bytes are gone. A node whose
credential is rotated can always come back, and a dead credential cannot. One
hub owns a directory. A message nobody has read is not shown as read.

## 2. Modules

    ChannelReducer -> ChannelHub -> ChannelSync -> MCChannelSync
    ChannelSync -> ChannelSyncProofs
    CompletionCallbacks -> MCCompletionCallbacks
    CompletionCallbacks -> CompletionCallbacksProofs
    TurnEngine -> MCTurnEngine
    TurnEngine -> TurnEngineProofs
    CompletionCallbacks, TurnEngine -> MCAgentsLive
    ReliableStream (abstract) <- TerminalStream -> TerminalStreamProofs
    AsyncRuns -> AsyncRunsProofs
    HubLock -> HubLockProofs
    NodeLink -> NodeLinkProofs
    ReadState -> ReadStateProofs
    TerminalStream, AsyncRuns, HubLock, NodeLink, ReadState -> MCParts

**ChannelReducer** is the reducer as functions of a reducer state and an event:
one operator per event type of `applyChannelEventV1`, and `mergeHistoryPage`. A
row is a kind, a status, a text (a sequence of chunk numbers, so that lost,
repeated or swapped chunks are visible), a version that grows with every change
the store makes in place, and a mark.

**ChannelHub** has the hub's pure parts: `buildSnapshot` with its full and
catch-up modes, row budgets and resync rows, and what `deliver` does to a
subscriber given its buffered bytes (live, lagging, closed).

**ChannelSync** composes them: the log and the streams on the server, one
subscriber and the events in its socket, and the browser. The hub is one Node
process, so a handler with its store write and its broadcast is one action;
timers, the socket, React's commit, REST answers and crashes are actions of
their own. `cursor` and `seen` are what the last commit saw, and differ from the
reducer state between commits, as in the code. `bufferedAmount` is any number
while the socket holds events, because events have any size.

**CompletionCallbacks** is the table `channel_completion_callbacks` and the
binder's turns. Each store transaction is an operator on the table with the
store's name; actions of the binder are put together from them. `routes` counts
the `routeOne` calls in flight for a parent, `target` is the delegatee's turn of
an edge, `turn` the requester's callback turn, `deferred` the terminal held until
the adapter accepts. A restart empties all four and recovers the table.

**TurnEngine** is one agent bound to one channel. `b` is its `LiveBinding` with
the calls in flight (sends, steers, rebinds, baseline probes) and the durable
cursor; a function of the binder is an operator from binding to binding, and an
action applies them in the order of the code. A message is its sequence number.
A packet speaks for a window of the log, the messages above the cursor and up to
its trigger (`Packet`); of these it shows the trigger and as many of the newest
others as there is room for, and only counts the rest (`Shown`, at most
`PacketRows`). How much room there is depends on sizes and on the rows of other
senders, neither of which the model has, so it is any number up to the limit.
`seen` is what accepted packets have shown and `cut` what they have only counted:
acceptance moves the cursor past both. A call whose binding was replaced meanwhile
keeps `own = FALSE`.

**AsyncRuns** is the store's runs and targets, the binder's transitions, and the
evaluation of contracts. `stranded` collects the targets that a known hole of
the code leaves open, so that `OpenHasOwner` can say that there is no other one.

**ReliableStream** is what a terminal's socket promises: bytes in order, gaps
only over evicted bytes. **TerminalStream** is the stream, the lane of one
subscriber and the browser's connection, and implements it.

**HubLock** has one step per call into the file system: the check and the health
probe, the acquisition, the owner's update of its lock, the guard that looks at
the lock again before each store is opened (`OpenStore`), listening, and the
release. A lock file is empty until its content is written, and an empty file
reads as no lock. **NodeLink** has the
registry and its file, the two ends of each socket, and the node's credential
file and process. **ReadState** has the hub's mark and one device; the other
devices meet it only in the hub, where they may push any mark.

**MCParts** and **MCAgentsLive** hold several parts that share no state. `focus`
is chosen at the start and says which part moves; the others stay at their
start, so the states of the parts add and do not multiply.

The modules named **...Proofs** hold the theorems about the module they extend and
their TLAPS proofs (section 5).

Definitions whose comment starts with "Mutation" are plausible bugs: each
replaces one definition to confirm that a property depends on it. They are not
part of any specification.

## 3. Runs

| Run | Constants that matter | Checks |
| --- | --- | --- |
| `sync_stream` | one row of any kind, 3 chunks, 2 in-place changes, 3 events in the socket, 2 faults | `TypeOK`; `ChunkExact`: a shown text is an exact prefix of what was streamed; `QuietMeansCurrent`: when nothing is on its way the browser shows the server's rows; `NeverBackwards`: no row returns to an earlier version |
| `sync_paging` | two rows, one older page, a window of one row | `ShownIsLogged`: a shown row is a version the log has had |
| `sync_live` | two rows, a stream, a human row edited or deleted, one fault | `SettledShown`: in the end settled rows are shown as settled |
| `sync_probe` | four rows, snapshots of one row, two faults, no close event | `WindowContiguous`: no hole below the cursor; `HeadReached`: the head is reached by the probe alone |
| `cb_faults` | three edges, fan-out two, one of each disturbance | `TypeOK`, `FanIn`, `ReportedAfterTurn`, `IntentsCoverRoutes`, `UndeliverableUpward`, `SettledStays`; and, as long as no callback turn is enqueued again, `ReleasedAfterContinuations`, `ClaimsAreOwned` |
| `turns` | four messages (two if one has a delivery contract), a queue of two, packets of one context row, an agent that takes steers, two disturbances, one operator retry | `TurnTypeOK`; `CursorCovered`: the cursor passes only messages that an accepted packet has shown or counted; `Accounted`: a message is waiting, reported, or was in the window of an accepted packet; `AtMostOnce`: a trigger or a steer is taken once unless the code or the operator sent it again; `OneTurnAtATime` |
| `agents_live` | three edges without disturbances; two messages of any kind, one disturbance | under fairness `EverySettles`, and `EveryMessageServed`: every message stops waiting and running |
| `parts` (terminal) | 5 bytes, a scrollback of 2, two envelopes in the socket | `FramesTile`, `QuietCaughtUp`, and the refinement `ReliablyShown` |
| `parts` (runs) | two agents, three targets, follow-ups one deep, one fault | `RunTypeOK`: the shapes of runs, targets and what agents hold; `OpenHasOwner`, `PendingHasEvaluator`, `ContractSettles`, `FollowupChain`, `OutcomeStays` |
| `parts` (lock) | three processes | as long as no two processes acquire the lock at the same time, `SerialOneHub`: one hub at most owns the directory, and its lock is in place; `RefusedByLive`: a boot is refused, by the lock, the port or the guard of a store, only while another process lives |
| `parts` (link) | three credentials, two sockets, two faults | `NeverLockedOut`: the credential in the node's file is accepted by this hub and the next one; `DeadStayDead`, `LinkedIsOnline`, `RevokedForGood` |
| `parts` (read) | two messages, two lives, one push at a time, one upset | `DevicesAgree`: with nothing on its way a device and the hub hold one mark; `RaisedStays`: a repair never erases a message the device has heard of since |

Four runs show that the code disagrees with what it says of itself; the
quotations are under "findings" in `PROJECT.json`.

| Run | What happens |
| --- | --- |
| `sync_page_hole` | an older page is asked for, a reconnect's full snapshot replaces the window, the page is merged below it: a hole that no flag reports |
| `cb_stuck_death` | a runtime dies during an accepted callback turn: the cleanup takes the turn for an unaccepted one and the continuation never completes |
| `run_absorbed` | a steer is accepted after its turn has ended and the next has started: the absorbed run stays working |
| `lock_race` | a hub has created its lock and not yet written it; another fails to create its own, reads the empty file as no lock, and unlinks it when it has been written (`hub-lock.ts:272`, `:283`). While there is no lock the first one's update changes nothing and its guard lets it open the stores; the second creates its own lock, and its guard lets it open them too |

### Seen in the same models, without a run

Channel sync: a stream older than the resync limit that settles while the
browser is away stays "streaming" after the reconnect (`channel-hub.ts:497`; line
494 says "This heals every reconnect path"); an edit is dropped while the page
with the old body is on its way; a page that was read ahead of what the socket
still holds is merged first, and the socket then takes its rows back to an earlier
version, until their next change (`NeverBackwards` with `MaxLoads = 1`), or adds the
first delta of an open row to a text that has it already (`ChunkExact` with two
prose rows and `MaxLoads = 1`: a page has no delta cursors, so the reducer expects
index 0); a second gap found while `needsCatchup` is still set is not retried by the
effect at `useChannelChatSocket.ts:278`.

Completion callbacks: a nested delegatee that answers its requester explicitly
leaves the grandparent waiting (`channel-message-store.ts:5687`, `MaxReturns =
1`); so do a restart during an accepted callback turn and a route that fails
after its sibling's continuation has ended; a callback turn that is enqueued
again is completed by the terminal of its first attempt
(`channel-agent-binder.ts:4168`) or lost to a full queue.

Turn engine: messages that wait behind a turn are merged into one that the newest
triggers, and `channel-agent-binder.ts:3276` says "older ones are not lost", since
they "arrive as context rows of that one packet". The packet keeps the newest 16 rows
of whatever senders, and drops the oldest until it fits 16 KiB
(`channel-context-packet.ts:345`, `:431`), while its acceptance moves the cursor past
all of them: a merged message that was cut is then in no packet, no queue and no
notice, and the agent is told only how many rows were left out. Three messages, no
steering and no disturbance are enough for a state in which
`\A m \in cut \ b.told : NotLost(m)` fails. Also: `handleSendFailure` ends whatever turn is active when its rebind has
failed (line 4216), against "never clobber it" at line 4160; a suppressed turn id
outlives its drain (line 2218), so the terminal of a drained message that the
operator retries is dropped and the watchdog has to end it; a steer in flight
when its binding is replaced vanishes without a report; an adapter that reports
idle after `turn-completed` (`hermes-adapter.ts:1668`, `TrailingIdle = TRUE`) can
end the next turn with the idle of the last one; a retried message is routed
without the mark that keeps it out of a merged packet (line 7095). The count of
occupied turn slots may exceed the queue's cap: the answer to a steer into a
disconnected runtime clears `steeringInFlight` (lines 3220, 3233, 4331) while a
later steer is in flight. `TurnTypeOK` therefore bounds what waits in the two
queues, and not what is in flight.

Async runs: the death of a runtime, a packet that cannot be built, human triggers
coalesced into another turn, and an ambiguous steer failure leave a target open
until the next restart (all in `stranded`); a run with a contract and no
eligible target is rejected without a result, where `docs/CHANNEL_CHAT.md` says
that non-completed terminal states "record a result immediately"; a crash between
the transition and the settling of the contract leaves neither (`torn`); a
retried turn of a run whose evaluation is pending starts a second evaluation, and
two follow-ups are posted.

Terminal: after a restart the stream is numbered anew if bytes had been evicted,
and a browser's old cursor means other bytes (`ws-backpressure.ts:40` calls the
refetch "lossless"); the browser's write queue may drop output it has counted as
received; a lagging socket is healed only by the next frame.

Hub lock: two processes that have both read the lock of a dead hub unlink one
after the other, and the second removes the first one's new lock (`hub-lock.ts:253`;
`OneHub` with no process at the second attempt, 27 states); both come to open the
stores as in `lock_race`. The guard of the stores refuses only the process that
finds the other's lock complete, so it stops neither race.

Node link: a hub that dies between a proof and the delayed write revives the
previous credential until the next heartbeat; clearing a failed rotation the node
has in fact written locks it out (both documented in the repository); a failed
rotation blocks scheduled ones until it is cleared; a timed-out stream request
leaves a stream on the node.

Read state: a broadcast that is ignored because the device remembers a higher
head from an earlier life leaves no stamp, and a push's answer then lowers the
head below it (`channel-activity.ts:22` says "a repair can never erase a message
the operator has not seen"); a full snapshot is applied without a fence and may
take back a mark that came over the other socket; the first open of the events
socket fetches nothing, so a mark published between the boot fetch and the open
is missed (`useEventSocket.ts:711`); a lost push of a channel's first mark is not
repeated, because there is no row to compare with. `DevicesAgree` and
`RaisedStays` except these (`synced`, `raised`, `Missed`).

### Bounds

Limits of the code (watermarks, snapshot and catch-up sizes, page size,
reconnect attempts, body size, queue, scrollback, follow-up depth) are constants
with the code's order and small values: every case of lagging, closing,
truncation, capping and merging happens with one or two rows, messages or bytes.
`MaxRows`, `MaxVer`, `MaxNet`, `MaxFaults`, `MaxLoads`, `MaxPosts`, `MaxTargets`,
`MaxBytes`, `MaxWire`, `MaxCredentials`, `MaxLinks`, `MaxLinkFaults`, `MaxHead`,
`MaxLives`, `MaxEvents`, `MaxPuts`, `MaxUpsets` bound the exploration. The row
properties speak of one row at a time and the window properties of neighbours,
which is why one row with many changes (`sync_stream`) and four rows without
changes (`sync_probe`) complement each other. Three edges give a chain of two and
a fan-out of two, the two shapes nesting is made of. Four messages fill a queue
of two behind a running turn and leave one to be refused or merged. Three
processes are the owner of a stale lock and two that find it. A limit of one context
row is enough for packets that show all of their window and packets that cut it. Two
further constraints bound the exploration: `Explored` (turns: of three messages at
most one does not coalesce; four that all do, with a disturbance only where nothing
is steered or cut) and `RunsExplored` (a third run only for agents that take
steers). The proofs have none of these bounds.
`Room` only keeps the number of delegations within the edges of the instance.

Edges are interchangeable, so `cb_faults` uses symmetry; liveness runs do not.
Deadlock checking is off: with the bounds spent, a system in which nobody posts
rests.

### Fairness

`BrowserFairness`: the socket delivers (strongly fair, since it may be replaced
again and again), React commits, the server accepts a connection, the backoff
timer fires, a socket that is down can be reopened by a wake-up event, and the
probe's interval fires in a visible tab. `FairSpec` adds that the operating
system reports a socket whose peer is gone; `ProbeSpec` does not, and that is
the point of `sync_probe`. Crashes, losses, posts and page loads are never fair.

`Progress` for the callbacks: routes finish, queues are pumped, drain timers
fire; a turn ends, at the latest by its watchdog or its ceiling
(`channel-agent-binder.ts:2041`, `:2148`); binding a requester, sending to it and
its acceptance fail only for a while, hence strong fairness. Failures
themselves are not fair.

`TurnFairness` for the turn engine: a route, a rebind and a probe come to an end
(each has a timeout or ends with its process), the ceiling of a turn fires, and
the sweep of dead bindings runs on its interval. The provider is not assumed to
do anything.

## 4. Abstractions

One channel, one browser, one subscriber; other subscribers do not share state
with it. Message bodies, mentions, threads, senders and metadata are left out;
bytes are counted in rows, chunks and buffer units. Presence, roster and
run-lifecycle events do not touch the timeline. An agent's provider is
arbitrary: it accepts, rejects, ends or dies at any time.

For the callbacks, `Busy` says that an agent runs one turn at a time for one
delegation; that different delegations to the same agent exclude each other too
is not used by any property and leaves the model with more interleavings, not
fewer. A settlement of a send by a runtime that was already declared dead, and
SQLite errors inside a transaction's retry loop, are not modelled.

TurnEngine has one agent and one channel; who may address it, and the brake on
consecutive agent turns, decide which messages are posted and are left to the
environment. In AsyncRuns an agent's queue is a set, since no property speaks of
its order, and the verdict of a contract is arbitrary. TerminalStream counts
bytes; what a terminal does with them is not its subject. HubLock has one host
and no reuse of process ids, and a process opens any number of stores. Of the calls over a node's link only
`credential.rotate` is modelled, because it alone changes what both ends keep.
In ReadState times are compared only through the order of events on the device,
and events in one millisecond are not told apart.

### Not modelled

The operator's slash commands (interrupt, release and restart scope reach the
turn engine as the end of a turn or of a runtime), pruning of runs, `channels
wait`; streams over the node link,
pairing and proof of possession; the renderer's write queue and the restoring of
terminal sessions. Channel membership, confirmation challenges, agent profiles,
the control engine and the records of automations and handoffs are synchronous
changes of one table or map, where nothing interleaves; the port allocator's
hazards (a sweep that releases a port while its worktree is being created,
`server/index.ts:1646`; two reconciliations of one worktree,
`port-allocator.ts:470`) come from its callers and would need a module of their
own. Provider adapters, git, GitHub, self update, the command line, attachments,
context packets' text, images and rendering, with the root a thread's packet
keeps and the rows it filters, are I/O, translation or layout; together
they are most of the repository's lines. `PROJECT.json` has the reason for each.

## 5. Proofs

TLC checks small instances; the theorems hold for every value of the constants.
They assume what the modules assume of them: the bounds are naturals
(`HubLimits`, `SyncLimits`, `CallbackConstants`, `TerminalConstants`, `NodeLinkConstants`, `TurnConstants`,
`RunConstants`, `ReadConstants`), `NoEdge` is not an edge, and finitely many
processes can exist (`PidsFinite`). Sets of edges and agents may be infinite. The
bounds on disturbances are constants too, so they are proved for any number.

| Component | Theorem | States |
| --- | --- | --- |
| channel sync | `SyncTypes`, `ShowsTheLog`, `NeverGoesBack`, `NoHoles`, `ChunksInOrder`, `QuietIsCurrent` | `TypeOK`, `ShownIsLogged`, `NeverBackwards`, `WindowContiguous`, `ChunkExact`, `QuietMeansCurrent` |
| callbacks | `TypeCorrect`, `FanInHolds`, `IntentsHold`, `SettledHolds`, `UpwardHolds`, `ReportedHolds`, `ClaimsHold`, `ReleasedHold` | `TypeOK`, `FanIn`, `IntentsCoverRoutes`, `SettledStays`, `UndeliverableUpward`, `ReportedAfterTurn`, `ClaimsAreOwned`, `ReleasedAfterContinuations` |
| turn engine | `TurnsWellFormed`, `CursorNeverSkips`, `NothingVanishes`, `TurnsAreSerial`, `AcceptedAtMostOnce` | `TurnTypeOK`, `CursorCovered`, `Accounted`, `OneTurnAtATime`, `AtMostOnce` |
| async runs | `RunTypes`, `PendingEvaluated`, `ContractsSettle`, `OutcomesStay`, `OpenOwned`, `FollowupsChain` | `RunTypeOK`, `PendingHasEvaluator`, `ContractSettles`, `OutcomeStays`, `OpenHasOwner`, `FollowupChain` |
| terminal | `RetainedFramesTile`, `QuietSubscriberCaughtUp`, `TerminalKeepsPromise` | `FramesTile`, `QuietCaughtUp`, and the refinement `ReliablyShown` |
| node link | `NodeNeverLockedOut`, `DeadCredentials`, `LinkedNodeIsOnline`, `RevocationIsFinal` | `NeverLockedOut`, `DeadStayDead`, `LinkedIsOnline`, `RevokedForGood` |
| hub lock | `OneHubWhenSerial`, `RefusalNeedsLive` | `SerialOneHub`, `RefusedByLive` |
| read state | `RepairsHold`, `DevicesReconciled`, `RaisedHeadStays` | `ReadInv`, `DevicesAgree`, `RaisedStays` |

Conditions. `NeverGoesBack`, `NoHoles`, `ChunksInOrder` and `QuietIsCurrent` are
about behaviours that merge no page of older rows (`[][~MergePage]_vars`), the other
two theorems of the channel sync about all of them. With pages the four properties
are false (section 3): a page is read from the log at another moment than the
socket's events, so it can leave a hole, bring an older body back, or hold chunks
that a delta in the socket is about to add again.

`QuietIsCurrent` also assumes that no catch-up is cut short
(`[][Subscribe => CatchupFits]_vars`): the snapshot is a full one, or it is not
truncated and no more rows below the cursor can have changed than the resync query
reads. Neither half can be left out, and TLC finds a quiet browser that shows a row
as it was before the reconnect without either (`MaxRows = 3`). With
`SnapshotMaxRows = 1` a row added meanwhile takes the whole budget, and the row a
restart has settled is not sent again; with `CatchupMaxRows = 1` the resync query
reads the newest row only, and misses the edit of an older one
(`channel-hub.ts:497`).

Both theorems of the hub lock speak of behaviours in which no two acquisitions have
overlapped; that overlapping ones may both succeed is what `lock_race` shows.
`CursorNeverSkips` and `NothingVanishes` speak of the window of a packet, whose
messages are shown or counted; which of them are shown is not proved, and merged
ones may not be (section 3).

`TurnsAreSerial` is about providers without a trailing idle (`~TrailingIdle`): with
one the property is false (section 3). `FollowupChain` speaks of runs until a turn is
retried, and `ClaimsAreOwned` and `ReleasedAfterContinuations` of callbacks until a
turn is enqueued again, for the reasons in section 3; the properties state this
themselves.

### Why the invariants are not inductive, and what is

**Channel sync.** That a shown row is one the log has had needs that of every other
copy: in a page, in the socket, held for a tick, in a snapshot (`Logged`). A row
changes in place, but keeps its kind and never changes what a version fixes
(`Grows`), so copies stay versions of it. What the hub sends is the log's own at
that moment (`Current`), and what the reducer shows it had before, or the event
has it (`From`; `ReducerOK` goes through the event types, `BuildOK` through the
snapshots). That no row goes back is then a matter of order: nothing in the socket
is older than what is shown or arrives before it (`SocketInOrder`), because it is
sent as current behind copies that are not.

That the timeline has no holes (`WindowInv`) rests on what an event may join on to.
A snapshot is only ever first in the socket, and is a window that ends at its head or
a run that starts at or before where the timeline ends (`Joined`); a new row behind
it is the next one of the log (`Follows`), or the reducer reports a gap and keeps
its cursor (`Reach`).

For the chunks (`ChunkInv`), `Emitted` says how much of an open stream its
broadcasts and snapshots have carried: the rest is pending, or was flushed to the
log ahead of the timeline. The last delta in the socket ends there (`Sent`), each
delta goes on where the delta or the row before it ended (`Chained`), a timeline that
has the stream's last index has as much (`Held`), and the delta it expects next
goes on where its row ends (`Awaits`). An index without its text would break this, and
the code has such cases: a snapshot that is being built flushes a delta to the
subscribers it is not yet sent to, and a catch-up drops the indices of streams it does
not record. So the last two are stated of the timeline as it will be once a snapshot
that arrives first is applied (`Ahead`), and a dropped index always belongs to a row
that is not in the timeline or is in the snapshot.

That a quiet browser is current needs both ends. A copy of the current version of a
row has its text, unless the row is an open prose stream (`Copy`, `Copied`); an open
row is one with a stream, and a row of the operator or of the system that nothing
marks as revised was never changed (`Plain`), which is why a catch-up may leave it
out (`CopyInv`). And a browser that nothing tells to reconnect (`Warned`: its
subscriber is live, it has found no gap, no resync is in the socket) is owed no more
than its socket and the ticks will bring (`QuietInv`, `Owes`): each row past the end
of the timeline as a new row, for each row it holds or will get the event that makes
it current (`Due`), and for each open stream that it has not given up every delta
from the one it expects to the last one broadcast. A step of the server leaves
nothing untold that its event does not tell (`Tells`), a subscriber that stays live
got that event behind what it had (`BroadcastLive`), an event that the reducer takes
settles what it brings (`Advances`), and a snapshot that is not cut short leaves
nothing owed (`Covers`). With the socket empty, nothing is.

**Callbacks.** A parent is released by arithmetic (no intents left) and by a
query over its children, so one must know that the intents never fall behind the
routes in flight, that a parent which is not awaiting has no intents and no
unfinished child, and that a row which does not exist yet has neither. `Row`
states that of one row, `Table` of all. `WriteRow` shows that a transaction which
writes one row in place keeps `Table` if the new row `Fits`; one lemma per
transaction follows. The same lemmas carry `Keeps`, from which the action
property follows. `UndeliverableUpward` needs no induction over depth: `Ancestors`
is the least set the parents lead into, so almost every transaction `Closes`
(adds no ancestor, reopens nothing, gives nothing up) and the terminalization
reaches all of them, because ancestors nest. For `ReportedAfterTurn`, `Serial` adds
that the children's callbacks run only after the parent's own turn. For the last
two, `OwnedRow` ties a row to its callback turn and to the terminal held for it:
an accepted turn's claim is consumed, a terminal is held only for a turn that has
ended or whose row was settled meanwhile by an explicit return, and a
continuation that is done has no turn that runs or could still start.

**Turn engine.** That the cursor covers only what was shown or counted rests on the
packets in flight: the window of each holds everything from the cursor of today on
up to its trigger, because the cursor only grows after it was built (`Packets`). That
nothing is lost rests on where a message below the cursor can be: marked as
enqueued again, or the trigger of a call (`Kept`). `AtMostOnce` is a matter of
ownership: until a runtime takes it a message is in one place of the binding, and
every function of the binding moves it but never copies it (`Alone`, `Absent`,
`Keeps`).

**Async runs.** The store keeps each run `Sound` and `Settled` by itself; what an
agent holds is a run of its own (`HoldsOwn`). Every action is shown to keep both
and to take nothing back from a run (`Grows`), and types, contracts, owners and
outcomes follow. That follow-ups form chains needs more: an agent holds a run once
and only while its target is open (`Orderly`), so no run completes twice and at
most one evaluation of it exists (`OneEvaluation`).

**Terminal.** What the viewer will be shown is on the wire. `Way` says that the
wire leads on from the viewer's cursor without a hole but for marks behind which
the hub holds nothing, and `TerminalInv` that it leads to where the lane goes on.
The refinement has one step per action. The code filters its frames; that this
keeps a suffix is an induction over data, so `FramesAfter` is the suffix from the
first frame that ends behind the cursor, and `FilterKeepsSuffix` in `MCParts` has
TLC compare it with the filter on all short streams. Least elements (`LeastNat`)
stand in for induction elsewhere.

**Node link.** Whether the hub may replace the active credential depends on who
has the next one. `Rotation` says that until the node's file has it nobody can
present it, whether it is in a message or carried by hand, and that once it may be
presented the file has it, or it was cleared. `Behind` says that the registry's
file lags by nothing but a proof.

**Hub lock.** `Acquisition` says what a process in the middle of an acquisition
knows of the file at each step, and `Alone` that it has no running hub beside it.

**Read state.** Agreement holds only when nothing is on the way; inductive is
what makes up for a disagreement meanwhile. A device ahead of the hub has its mark
armed, on the way up, refused by an answer still to be read, or is about to hear
from the hub (`Ahead`); in a first life a device behind has the hub's mark among
the events (`Behind`); a raised head is stamped against every push in flight
(`Fence`).

TLC checked each of these invariants on an instance before it was proved.

### What the proofs found

`Strand`, which collects the targets that a hole of the code lets go of, used to
ask whether a target was open before the step instead of after it. With two faults
TLC saw no difference; the attempt to prove `OpenOwned` did, and with four faults
TLC found `OpenHasOwner` violated by an agent that held a run twice. Only the
bookkeeping was wrong, not the transitions.
The bound on turn slots in `TurnTypeOK` was stated of occupied slots at first,
which the code does not keep (section 3). A first form of `OwnedRow` said that a
terminal is held only for a turn that has ended: an explicit return settles the
row under the turn, and its acceptance then leaves the held terminal behind, to
no effect.

### Only model-checked

Liveness under fairness is out of the prover's reach: `SettledShown`,
`HeadReached`, `EverySettles`, `EveryMessageServed`. Every safety property that a
passing run checks has a theorem. How `InOrder` sorts the deltas behind a snapshot is
not defined by recursion: it is the increasing sequence of the set's members, whose
existence `InOrderExists` proves from a smallest counterexample.

## 6. Plan

An abstract timeline that the channel sync implements without paging.
