----------------------------- MODULE TurnEngine -----------------------------
(***************************************************************************)
(* The turn engine of server/channel-agent-binder.ts: one agent bound to   *)
(* one channel, the queue of messages addressed to it, the turn that runs, *)
(* the messages steered into that turn, and the delivery cursor.           *)
(*                                                                         *)
(* A message is its sequence number, and a turn is named by the message    *)
(* that triggers it (channelTurnId is a function of the message), so a     *)
(* message that is sent again runs under the same turn id. A packet speaks *)
(* for a window of the log, shows the newest rows of it and counts the     *)
(* others. Handlers run to completion; what is awaited (a send, a steer, a *)
(* rebind, a baseline probe) is a call in flight.                          *)
(***************************************************************************)
EXTENDS Integers, Sequences, FiniteSets, SequencesExt

CONSTANTS
  Kinds,          \* of messages: "human", "single" (an agent's, or with images)
                  \* and "contract" (human, with a delivery contract)
  QueueCap,       \* QUEUE_CAP
  PacketRows,     \* PACKET_MAX_ROWS
  Steerable,      \* does the adapter take messages into a running turn?
  TrailingIdle,   \* does it report idle after every turn it completes?
  \* Exploration bounds: messages posted, disturbances (a call that fails, a
  \* runtime that dies, an approval) and retries by the operator.
  MaxPosts, MaxFaults, MaxRedone

ASSUME TurnConstants ==
  /\ Kinds \subseteq {"human", "single", "contract"}
  /\ QueueCap \in Nat \ {0} /\ PacketRows \in Nat
  /\ {Steerable, TrailingIdle} \subseteq BOOLEAN
  /\ {MaxPosts, MaxFaults, MaxRedone} \subseteq Nat

VARIABLES
  log,       \* the kinds of the posted messages, in order
  b,         \* the LiveBinding, its calls in flight and its durable row
  arriving,  \* messages whose routeOne has not reached enqueueTurn
  owed,      \* messages handed to the binder that no accepted packet spoke for since
  seen,      \* messages shown in a packet that a runtime has accepted
  cut,       \* messages that such packets have only counted
  taken,     \* how often a message was accepted as a trigger or a steer
  redone,    \* messages the operator has retried
  faults     \* disturbances so far (exploration bound)

turnVars == <<log, b, arriving, owed, seen, cut, taken, redone, faults>>

Seqs == 1..MaxPosts
NoTurn == 0

\* `own` is FALSE for a call whose LiveBinding was replaced by a new one, and
\* `tried` then keeps whether that binding had spent the turn's one retry.
Send == [seq : Seqs, rows : SUBSET Seqs, own : BOOLEAN, tried : BOOLEAN]
Steer == [seq : Seqs, rows : SUBSET Seqs, turn : Seqs, own : BOOLEAN]
Probe == [seq : Seqs, rows : SUBSET Seqs, own : BOOLEAN]

NewBinding ==
  [cursor |-> 0,            \* lastDeliveredSeq
   captured |-> {},         \* messages whose contract has a baseline
   bound |-> FALSE,         \* adapter is set
   queue |-> <<>>,          \* queue, of [seq, again]
   steerQ |-> <<>>,         \* steeringQueue
   busy |-> FALSE,          \* steeringInFlight
   absorbed |-> 0,          \* steeringAcceptedCount
   active |-> NoTurn, rows |-> {},  \* activeTurnId, activeContent
   preflight |-> FALSE,     \* sendPreflight
   waiting |-> FALSE,       \* waitingOn
   approvals |-> {},        \* announcedApprovals, by turn
   suppressed |-> {}, retried |-> {},
   sends |-> {}, steers |-> {}, rebinds |-> {}, probes |-> {},
   work |-> {},             \* turns the provider is working on
   told |-> {},             \* messages reported as not delivered
   failed |-> {}]           \* messages whose send was given up

TurnInit ==
  /\ log = <<>>
  /\ b = NewBinding
  /\ arriving = {} /\ owed = {} /\ seen = {} /\ cut = {}
  /\ taken = [m \in Seqs |-> 0]
  /\ redone = {} /\ faults = 0

-----------------------------------------------------------------------------
(* The binding's own functions, as operators on the record x.              *)

\* Mutation: the trigger alone.
TriggerOnly(x, m) == {m}

\* buildPacket: the window that the packet speaks for, the rows after the cursor
\* and up to the trigger.
Packet(x, m) == {m} \cup (x.cursor + 1)..m

coalescesIntoOneTurn(earlier, later) ==
  /\ log[earlier] # "single" /\ log[later] # "single" /\ later > earlier

\* Mutation: a message that was enqueued again may join a run.
RunAnyway(q) ==
  LET joins(i) == coalescesIntoOneTurn(q[1].seq, q[i].seq)
  IN CHOOSE n \in 1..Len(q) :
       /\ \A i \in 2..n : joins(i)
       /\ n = Len(q) \/ ~joins(n + 1)

\* How many entries the next turn takes: a run of messages that coalesce with
\* the first. A message that was enqueued again neither starts nor joins one.
RunLength(q) ==
  LET joins(i) == /\ ~q[1].again /\ ~q[i].again
                  /\ coalescesIntoOneTurn(q[1].seq, q[i].seq)
  IN CHOOSE n \in 1..Len(q) :
       /\ \A i \in 2..n : joins(i)
       /\ n = Len(q) \/ ~joins(n + 1)

deliver(x, m, rows) ==
  [x EXCEPT !.sends = @ \cup {[seq |-> m, rows |-> rows, own |-> TRUE, tried |-> FALSE]},
            !.work = @ \cup {m}]

startTurn(x, m, rows) ==
  deliver([x EXCEPT !.active = m, !.rows = rows, !.waiting = FALSE], m, rows)

\* pump and sendTurn: the newest of the run triggers, and a message with a
\* delivery contract waits for a probe of its baseline first.
pump(x) ==
  LET n == RunLength(x.queue)
      batch == {x.queue[i].seq : i \in 1..n}
      m == CHOOSE s \in batch : \A t \in batch : t <= s
      rest == [x EXCEPT !.queue = SubSeq(@, n + 1, Len(@))]
  IN IF x.active # NoTurn \/ x.preflight \/ ~x.bound \/ x.queue = <<>> THEN x
     ELSE IF log[m] = "contract" /\ m \notin x.captured
     THEN [rest EXCEPT !.preflight = TRUE,
                       !.probes = @ \cup {[seq |-> m, rows |-> Packet(x, m), own |-> TRUE]}]
     ELSE startTurn(rest, m, Packet(x, m))

occupiedTurnSlots(x) ==
  Len(x.queue) + Len(x.steerQ) + x.absorbed + (IF x.busy THEN 1 ELSE 0)

\* drainSteering: one steer at a time.
drainSteering(x) ==
  IF x.busy \/ x.active = NoTurn \/ ~Steerable \/ x.steerQ = <<>> THEN x
  ELSE LET m == Head(x.steerQ)
       IN [x EXCEPT !.steerQ = Tail(@), !.busy = TRUE,
                    !.steers = @ \cup {[seq |-> m, rows |-> Packet(x, m),
                                        turn |-> x.active, own |-> TRUE]}]

\* Mutation: what is enqueued again needs no slot.
EnqueueAgainAnyway(x, m, interrupt, again) ==
  IF ~again /\ ~interrupt /\ x.active # NoTurn /\ Steerable
  THEN IF occupiedTurnSlots(x) >= QueueCap THEN [x EXCEPT !.told = @ \cup {m}]
       ELSE drainSteering([x EXCEPT !.steerQ = Append(@, m)])
  ELSE IF again \/ occupiedTurnSlots(x) < QueueCap
  THEN pump([x EXCEPT !.queue = Append(@, [seq |-> m, again |-> again])])
  ELSE [x EXCEPT !.told = @ \cup {m}]

\* enqueueTurn: into the running turn when the adapter steers, else to the
\* queue; when all slots are taken a message that coalesces with the last one
\* takes its place, and any other is dropped with a notice.
enqueueTurn(x, m, interrupt, again) ==
  LET tail == Last(x.queue)
      entry == [seq |-> m, again |-> again]
  IN IF ~again /\ ~interrupt /\ x.active # NoTurn /\ Steerable
     THEN IF occupiedTurnSlots(x) >= QueueCap THEN [x EXCEPT !.told = @ \cup {m}]
          ELSE drainSteering([x EXCEPT !.steerQ = Append(@, m)])
     ELSE IF occupiedTurnSlots(x) < QueueCap
     THEN pump([x EXCEPT !.queue = Append(@, entry)])
     ELSE IF x.queue # <<>> /\ ~tail.again /\ ~again /\ coalescesIntoOneTurn(tail.seq, m)
     THEN pump([x EXCEPT !.queue = Append(Front(@), entry)])
     ELSE [x EXCEPT !.told = @ \cup {m}]

\* finishTurn: steers that were not handed over fall back to the queue.
finishTurn(x) ==
  IF x.active = NoTurn THEN x
  ELSE pump([x EXCEPT !.active = NoTurn, !.rows = {}, !.waiting = FALSE,
                      !.absorbed = 0, !.steerQ = <<>>,
                      !.queue = @ \o [i \in 1..Len(x.steerQ) |->
                                        [seq |-> x.steerQ[i], again |-> FALSE]]])

\* drainBoundedTurn: whatever the provider still says of this turn is ignored.
drainBoundedTurn(x) == finishTurn([x EXCEPT !.suppressed = @ \cup {x.active}])

\* handleLiveState for a bare idle.
idle(x) == IF x.active # NoTurn /\ x.approvals = {} /\ ~x.waiting
           THEN finishTurn(x) ELSE x

\* markDeadRuntimeIdle and dropQueuedTurns: every waiting message is reported.
markDead(x) ==
  [x EXCEPT !.told = @ \cup {x.queue[i].seq : i \in DOMAIN x.queue}
                       \cup Range(x.steerQ),
            !.queue = <<>>, !.steerQ = <<>>, !.busy = FALSE, !.absorbed = 0,
            !.active = NoTurn, !.rows = {}, !.waiting = FALSE, !.approvals = {},
            !.work = {}]

\* releaseBinding: the binding is forgotten, unless a probe will come back to
\* it. The calls it made are still to be answered.
releaseBinding(x) ==
  LET dead == [markDead(x) EXCEPT !.bound = FALSE]
      lose(c) == [c EXCEPT !.own = FALSE]
  IN IF x.preflight THEN [dead EXCEPT !.preflight = FALSE]
     ELSE [dead EXCEPT
             !.suppressed = {}, !.retried = {},
             !.sends = {IF c.own THEN [c EXCEPT !.own = FALSE,
                                                !.tried = c.seq \in x.retried] ELSE c : c \in @},
             !.steers = {lose(c) : c \in @}, !.rebinds = {lose(c) : c \in @},
             !.probes = {lose(c) : c \in @}]

-----------------------------------------------------------------------------
(* Messages arrive.                                                        *)

Disturb == faults < MaxFaults /\ faults' = faults + 1

Post(k) ==
  /\ Len(log) < MaxPosts
  /\ log' = Append(log, k)
  /\ arriving' = arriving \cup {Len(log) + 1}
  /\ owed' = owed \cup {Len(log) + 1}
  /\ UNCHANGED <<b, seen, cut, taken, redone, faults>>

\* routeOne: the binding is ensured, which may start a runtime, and the
\* message is enqueued.
Route(m, interrupt) ==
  /\ m \in arriving
  /\ arriving' = arriving \ {m}
  /\ b' = enqueueTurn([b EXCEPT !.bound = TRUE], m, interrupt, FALSE)
  /\ UNCHANGED <<log, owed, seen, cut, taken, redone, faults>>

RouteFails(m) ==
  /\ m \in arriving /\ Disturb
  /\ arriving' = arriving \ {m}
  /\ b' = [b EXCEPT !.told = @ \cup {m}]
  /\ UNCHANGED <<log, owed, seen, cut, taken, redone>>

\* The operator retries a message whose turn has failed: it is routed again
\* while nothing runs or waits.
RetryMessage(m) ==
  /\ Cardinality(redone) < MaxRedone /\ redone' = redone \cup {m}
  /\ m \in (seen \cup cut) \ (arriving \cup redone) /\ b.active = NoTurn /\ b.queue = <<>>
  /\ \A c \in b.sends \cup b.rebinds : c.seq # m
  /\ arriving' = arriving \cup {m} /\ owed' = owed \cup {m}
  /\ b' = [b EXCEPT !.told = @ \ {m}]
  /\ UNCHANGED <<log, seen, cut, taken, faults>>

-----------------------------------------------------------------------------
(* Calls are answered.                                                     *)

\* advanceCursor: never lowered.
advanceCursor(x, m) == [x EXCEPT !.cursor = IF m > @ THEN m ELSE @]

\* What buildMentionContextPacketEnvelope shows of the window: the trigger and
\* the newest rows before it, as many as the limit on rows, the budget of bytes
\* and what other senders have posted leave room for. The summary counts all.
Shown(c, room) ==
  LET context == c.rows \ {c.seq}
  IN {c.seq} \cup {m \in context : Cardinality({n \in context : n > m}) < room}

\* What a packet shows was decided when it was built, and matters from here on.
Accepted(c) ==
  /\ \E room \in 0..PacketRows :
       /\ seen' = seen \cup Shown(c, room)
       /\ cut' = (cut \cup c.rows) \ seen'
  /\ owed' = owed \ c.rows
  /\ taken' = [taken EXCEPT ![c.seq] = @ + 1]

SendAccepted(c) ==
  /\ c \in b.sends
  /\ b' = advanceCursor([b EXCEPT !.sends = @ \ {c}], c.seq)
  /\ Accepted(c)
  /\ UNCHANGED <<log, arriving, redone, faults>>

\* The end of handleSendFailure: a notice, and the end of the turn that runs.
SendGivenUp(x, c) ==
  LET y == [x EXCEPT !.told = @ \cup {c.seq}, !.failed = @ \cup {c.seq}]
  IN IF c.own THEN finishTurn(y) ELSE y

\* handleSendFailure: the first time, the binding is ensured again.
SendRejected(c) ==
  LET tried == IF c.own THEN c.seq \in b.retried ELSE c.tried
      x == [b EXCEPT !.sends = @ \ {c}, !.work = @ \ {c.seq},
                     !.retried = IF c.own THEN @ \cup {c.seq} ELSE @]
  IN /\ c \in b.sends /\ Disturb
     /\ b' = IF tried THEN SendGivenUp(x, c)
             ELSE [x EXCEPT !.rebinds = @ \cup {[seq |-> c.seq, own |-> c.own]}]
     /\ owed' = owed \cup {c.seq}
     /\ UNCHANGED <<log, arriving, seen, cut, taken, redone>>

\* Mutation: the retry is sent whatever runs by now.
ResendAtOnce(r) ==
  /\ r \in b.rebinds
  /\ b' = deliver([b EXCEPT !.rebinds = @ \ {r}, !.bound = TRUE], r.seq,
                   Packet(b, r.seq))
  /\ UNCHANGED <<log, arriving, owed, seen, cut, taken, redone, faults>>

\* The turn is still there: the same packet again. Otherwise it goes back to
\* the queue, behind what has arrived since.
Rebound(r) ==
  LET x == [b EXCEPT !.rebinds = @ \ {r}, !.bound = TRUE]
  IN /\ r \in b.rebinds
     /\ b' = IF x.active = r.seq THEN deliver(x, r.seq, x.rows)
             ELSE enqueueTurn(x, r.seq, FALSE, TRUE)
     /\ UNCHANGED <<log, arriving, owed, seen, cut, taken, redone, faults>>

ReboundFails(r) ==
  /\ r \in b.rebinds /\ Disturb
  /\ b' = SendGivenUp([b EXCEPT !.rebinds = @ \ {r}], r)
  /\ UNCHANGED <<log, arriving, owed, seen, cut, taken, redone>>

\* The runtime takes a steer. A binding that was replaced does not note it.
SteerAccepted(c) ==
  LET x == [b EXCEPT !.steers = @ \ {c}]
      noted == [x EXCEPT !.busy = FALSE,
                         !.absorbed = IF x.active = c.turn THEN @ + 1 ELSE @]
  IN /\ c \in b.steers
     /\ b' = IF c.own THEN drainSteering(advanceCursor(noted, c.seq)) ELSE x
     /\ Accepted(c)
     /\ UNCHANGED <<log, arriving, redone, faults>>

\* AgentSteerRejectedError: the message has certainly not been taken.
SteerRejected(c) ==
  LET x == [b EXCEPT !.steers = @ \ {c}]
  IN /\ c \in b.steers /\ Disturb
     /\ b' = IF c.own THEN drainSteering(enqueueTurn([x EXCEPT !.busy = FALSE],
                                                     c.seq, FALSE, TRUE))
             ELSE x
     /\ owed' = IF c.own THEN owed \cup {c.seq} ELSE owed
     /\ UNCHANGED <<log, arriving, seen, cut, taken, redone>>

\* Mutation: an ambiguous failure is replayed.
SteerReplayed(c, heard) ==
  LET x == [b EXCEPT !.steers = @ \ {c}, !.busy = FALSE]
  IN /\ c \in b.steers /\ Disturb
     /\ b' = drainSteering(enqueueTurn(x, c.seq, FALSE, TRUE))
     /\ IF heard THEN Accepted(c) ELSE UNCHANGED <<owed, seen, cut, taken>>
     /\ UNCHANGED <<log, arriving, redone>>

\* Any other error: the message may or may not have been taken (heard), and
\* is not sent again.
SteerFails(c, heard) ==
  LET x == [b EXCEPT !.steers = @ \ {c}]
  IN /\ c \in b.steers /\ Disturb
     /\ b' = IF c.own THEN drainSteering([x EXCEPT !.busy = FALSE, !.told = @ \cup {c.seq}])
             ELSE x
     /\ IF heard THEN Accepted(c) ELSE UNCHANGED <<owed, seen, cut, taken>>
     /\ UNCHANGED <<log, arriving, redone>>

\* The baseline probe returns: the turn starts with the packet built before,
\* unless the binding has a turn again or has lost its runtime.
ProbeReturns(p) ==
  LET x == [b EXCEPT !.probes = @ \ {p}, !.captured = @ \cup {p.seq},
                     !.preflight = @ /\ ~p.own]
  IN /\ p \in b.probes
     /\ b' = IF p.own
             THEN IF x.active # NoTurn \/ ~x.bound THEN enqueueTurn(x, p.seq, FALSE, TRUE)
                  ELSE startTurn(x, p.seq, p.rows)
             ELSE IF x.bound THEN enqueueTurn(x, p.seq, FALSE, TRUE)
                  ELSE [x EXCEPT !.told = @ \cup {p.seq}]
     /\ UNCHANGED <<log, arriving, owed, seen, cut, taken, redone, faults>>

-----------------------------------------------------------------------------
(* The provider, and the timers that bound it.                             *)

\* handleTurnCompletedPatch and handleAgentErrorPatch.
completed(x, m) ==
  IF m \notin x.suppressed /\ x.active = m THEN finishTurn(x) ELSE x

\* A turn completes, fails or is interrupted.
TurnCompleted(m) ==
  LET x == completed([b EXCEPT !.work = @ \ {m}], m)
  IN /\ m \in b.work
     /\ b' = IF TrailingIdle THEN idle(x) ELSE x
     /\ UNCHANGED <<log, arriving, owed, seen, cut, taken, redone, faults>>

\* The provider goes idle without a word about its turn.
BareIdle(m) ==
  /\ b.work = {m}
  /\ b' = idle([b EXCEPT !.work = {}])
  /\ UNCHANGED <<log, arriving, owed, seen, cut, taken, redone, faults>>

\* handleApprovalStarted and updateWaiting.
ApprovalAsked(m) ==
  /\ m \in b.work \ (b.suppressed \cup b.approvals) /\ Disturb
  /\ b' = [b EXCEPT !.approvals = @ \cup {m}, !.waiting = TRUE]
  /\ UNCHANGED <<log, arriving, owed, seen, cut, taken, redone>>

\* handleApprovalResolved and updateWaiting.
ApprovalAnswered(m) ==
  /\ m \in b.work \cap b.approvals
  /\ b' = IF m \in b.suppressed THEN b
          ELSE [b EXCEPT !.approvals = @ \ {m}, !.waiting = FALSE]
  /\ UNCHANGED <<log, arriving, owed, seen, cut, taken, redone, faults>>

\* The watchdog fires on a turn that is silent, has no open tool call and no
\* live child process, and waits for nobody.
Watchdog ==
  /\ b.active # NoTurn /\ ~b.waiting
  /\ b' = drainBoundedTurn(b)
  /\ UNCHANGED <<log, arriving, owed, seen, cut, taken, redone, faults>>

\* Mutation: the ceiling is paused like the watchdog.
PausedCeiling ==
  /\ b.active # NoTurn /\ ~b.waiting
  /\ b' = drainBoundedTurn(b)
  /\ UNCHANGED <<log, arriving, owed, seen, cut, taken, redone, faults>>

\* The ceiling of a turn is neither paused nor extended.
TurnCeiling ==
  /\ b.active # NoTurn
  /\ b' = drainBoundedTurn(b)
  /\ UNCHANGED <<log, arriving, owed, seen, cut, taken, redone, faults>>

\* handleLiveState for a provider that has disconnected.
Disconnected ==
  /\ b.bound /\ Disturb
  /\ b' = markDead(b)
  /\ UNCHANGED <<log, arriving, owed, seen, cut, taken, redone>>

\* handleRuntimeEnd.
RuntimeEnds ==
  /\ b.bound /\ Disturb
  /\ b' = releaseBinding(b)
  /\ UNCHANGED <<log, arriving, owed, seen, cut, taken, redone>>

\* sweepDeadBindings, for a binding that was kept for its probe.
Sweep ==
  /\ ~b.bound /\ b.queue # <<>>
  /\ b' = releaseBinding(b)
  /\ UNCHANGED <<log, arriving, owed, seen, cut, taken, redone, faults>>

TurnNext ==
  \/ \E k \in Kinds : Post(k)
  \/ \E m \in Seqs :
       \/ \E interrupt \in BOOLEAN : Route(m, interrupt)
       \/ RouteFails(m) \/ RetryMessage(m)
       \/ TurnCompleted(m) \/ BareIdle(m) \/ ApprovalAsked(m) \/ ApprovalAnswered(m)
  \/ \E c \in b.sends : SendAccepted(c) \/ SendRejected(c)
  \/ \E r \in b.rebinds : Rebound(r) \/ ReboundFails(r)
  \/ \E c \in b.steers : SteerAccepted(c) \/ SteerRejected(c)
                           \/ \E heard \in BOOLEAN : SteerFails(c, heard)
  \/ \E p \in b.probes : ProbeReturns(p)
  \/ Watchdog \/ TurnCeiling \/ Disconnected \/ RuntimeEnds \/ Sweep

TurnSpec == TurnInit /\ [][TurnNext]_turnVars

\* Routes, rebinds and probes end, and timers fire. Nothing is assumed of the
\* provider: a turn may run, wait for an approval or stay silent for ever.
TurnFairness ==
  /\ \A m \in Seqs : WF_turnVars(\E interrupt \in BOOLEAN : Route(m, interrupt))
  /\ WF_turnVars(\E r \in b.rebinds : Rebound(r))
  /\ WF_turnVars(\E p \in b.probes : ProbeReturns(p))
  /\ WF_turnVars(TurnCeiling) /\ WF_turnVars(Sweep)

-----------------------------------------------------------------------------
(* Properties                                                              *)

\* The binding and its calls keep their shape, and no more messages wait than
\* there are slots. (occupiedTurnSlots itself may exceed QueueCap: the answer to
\* a steer into a runtime that has disconnected clears the mark of a later one.)
TurnTypeOK ==
  /\ log \in Seq(Kinds) /\ Len(log) <= MaxPosts
  /\ {arriving, owed, seen, cut} \subseteq SUBSET (1..Len(log))
  /\ taken \in [Seqs -> Nat]
  /\ b.cursor \in 0..Len(log) /\ b.active \in 0..Len(log)
  /\ b.sends \subseteq Send /\ b.steers \subseteq Steer /\ b.probes \subseteq Probe
  /\ Len(b.queue) + Len(b.steerQ) <= QueueCap

\* The cursor never passes a message behind the agent's back: every message at or
\* below it was in the window of a packet that a runtime has accepted, and so was
\* shown to the agent or counted among the rows it was told of. Every packet is
\* built from the cursor on, and packets overtake one another freely.
CursorCovered == \A m \in 1..b.cursor : m \in seen \cup cut

\* No message vanishes without a trace: one that was handed to the binder, was not
\* in the window of a packet accepted since and was not reported, is either above
\* the cursor, where the next window picks it up, or still in a queue or a call.
\* (Not so one that an accepted packet has only counted: it may be gone, unshown
\* and unreported.) A message the operator has retried is excepted: it is routed
\* without the mark of one that is enqueued again, and may be coalesced into a
\* window that leaves it out.
NotLost(m) ==
  \/ m > b.cursor \/ m \in arriving \/ m \in Range(b.steerQ)
  \/ \E i \in DOMAIN b.queue : b.queue[i].seq = m
  \/ \E c \in b.sends \cup b.steers \cup b.probes : m \in c.rows
  \/ \E r \in b.rebinds : r.seq = m

Accounted == \A m \in owed \ (b.told \cup redone) : NotLost(m)

\* A message triggers or steers a turn that a runtime accepts at most once,
\* across resends, fallbacks from steering and replaced bindings, unless the
\* operator asks for it again.
AtMostOnce == \A m \in Seqs \ redone : taken[m] <= 1

\* The provider never works on two turns, unless one of them was given up by
\* a timer or a send has failed for good.
OneTurnAtATime ==
  b.failed = {} => Cardinality(b.work \ b.suppressed) <= 1

\* Every message that waits or runs stops waiting or running, whatever the
\* provider does.
Waiting(m) ==
  \/ m \in arriving \/ m = b.active \/ m \in Range(b.steerQ)
  \/ \E i \in DOMAIN b.queue : b.queue[i].seq = m
  \/ \E c \in b.probes \cup b.rebinds : c.seq = m

EveryMessageServed == \A m \in Seqs : Waiting(m) ~> ~Waiting(m)
=============================================================================
