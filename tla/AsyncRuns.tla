------------------------------ MODULE AsyncRuns ------------------------------
(***************************************************************************)
(* Correlated asynchronous runs: a post that can route work creates a run  *)
(* with one target per agent (channel-message-store.ts); the binder moves  *)
(* the targets as its turns go (channel-agent-binder.ts), and when a run   *)
(* with a delivery contract completes, evaluates the contract and posts    *)
(* bounded follow-up runs.                                                 *)
(*                                                                         *)
(* A run is durable; everything in `agent` and `evals` is lost in a crash. *)
(* An agent's queue is a set: TurnEngine models its order, and here a turn *)
(* may start on any of its members. Each JavaScript step is one action;    *)
(* the crashes inside such a step, between two transactions, are actions   *)
(* of their own.                                                           *)
(***************************************************************************)
EXTENDS Integers, Sequences, FiniteSets

CONSTANTS
  Agents,
  Steerable,       \* the agents whose adapter takes steers
  MaxFollowups,    \* deliveryContractMaxFollowups
  \* Exploration bounds: the targets of all runs together, and the crashes,
  \* deaths, losses, retries, turns cut by a bound and turns without a run that
  \* happen among them.
  MaxTargets, MaxFaults

ASSUME RunConstants ==
  /\ Steerable \subseteq Agents
  /\ {MaxFollowups, MaxTargets, MaxFaults} \subseteq Nat

VARIABLES
  runs,      \* channel_async_runs with their targets
  agent,     \* LiveBinding of each agent: the runs its routing and turns hold
  evals,     \* evaluateDeliveryContractForCompletedRun calls in flight
  stranded,  \* open targets that a known hole left without an owner
  budget     \* faults that may still happen, and whether one was a retry

runVars == <<runs, agent, evals, stranded, budget>>

Nobody == 0      \* no turn
Foreign == -1    \* a turn no run asked for: an agent's mention, a callback

TargetEnd == {"completed", "failed", "cancelled", "rejected", "refused"}
RunEnd == {"completed", "completed_unmet", "failed", "cancelled", "rejected"}

NoSteer == [run |-> Nobody, into |-> Nobody, live |-> FALSE, mapped |-> FALSE]

\* `steering` waits for a steer, `steer` is the one in flight; `drained` turns
\* were ended by a bound, and `late` ones of them may still end by themselves.
NewAgent == [routing |-> {}, queued |-> {}, turn |-> Nobody, absorbed |-> {},
             steering |-> {}, steer |-> NoSteer, drained |-> {}, late |-> {}]

RunInit ==
  /\ runs = <<>>
  /\ agent = [a \in Agents |-> NewAgent]
  /\ evals = {} /\ stranded = {}
  /\ budget = [faults |-> MaxFaults, retried |-> FALSE]

-----------------------------------------------------------------------------
(* The store. A target is `revisable` when it was cancelled for a reason   *)
(* that leaves it open to a later outcome.                                 *)

To(state) == [state |-> state, revisable |-> FALSE]
Cut == [state |-> "cancelled", revisable |-> TRUE]

Open(target) == target.state \notin TargetEnd

\* Mutation: the outcome that all targets share is the run's.
SharedOutcome(targets) ==
  LET states == {targets[a].state : a \in DOMAIN targets}
  IN IF Cardinality(states) = 1 /\ states # {"queued"} THEN CHOOSE st \in states : TRUE
     ELSE IF states = {} THEN "rejected"
     ELSE IF states \subseteq TargetEnd THEN "failed" ELSE "submitted"

aggregateAsyncRunState(targets) ==
  LET states == {targets[a].state : a \in DOMAIN targets}
  IN IF states = {} THEN "rejected"
     ELSE IF ~(states \subseteq TargetEnd)
     THEN IF "input-required" \in states THEN "input-required"
          ELSE IF "working" \in states THEN "working" ELSE "submitted"
     ELSE IF states = {"completed"} THEN "completed"
     ELSE IF states \subseteq {"rejected", "refused"} THEN "rejected"
     ELSE IF states \cap {"failed", "rejected", "refused"} # {} THEN "failed"
     ELSE "cancelled"

\* appendCompleteWithAsyncRun.
NewRun(contract, depth, parent, targets) ==
  LET queued == [a \in targets |-> To("queued")]
  IN [targets |-> queued, state |-> aggregateAsyncRunState(queued),
      contract |-> contract, pending |-> FALSE, result |-> "none",
      depth |-> depth, parent |-> parent, child |-> Nobody,
      decided |-> FALSE, abandoned |-> FALSE, torn |-> FALSE]

\* Mutation: the update does not look at the target's state.
ReviseAnyway(run, a, target) ==
  LET targets == [run.targets EXCEPT ![a] = target]
  IN [run EXCEPT !.targets = targets, !.state = aggregateAsyncRunState(targets)]

transitionAsyncRunTarget(run, a, target) ==
  LET targets == [run.targets EXCEPT ![a] = target]
  IN IF Open(run.targets[a]) \/ run.targets[a].revisable
     THEN [run EXCEPT !.targets = targets, !.state = aggregateAsyncRunState(targets)]
     ELSE run

\* finalizeAsyncRunDeliveryContract: the first result stays.
finalizeAsyncRunDeliveryContract(run, result) ==
  LET kept == IF run.result = "none" THEN result ELSE run.result
  IN [run EXCEPT !.pending = FALSE, !.result = kept,
                 !.state = IF kept = "unmet" /\ @ = "completed" THEN "completed_unmet" ELSE @]

\* Restart abandons a contract that has no result.
Abandon(run) ==
  IF run.contract /\ run.result = "none"
  THEN [run EXCEPT !.abandoned = TRUE, !.result = "unknown"] ELSE run

CancelOpen(run) ==
  LET targets == [a \in DOMAIN run.targets |->
                    IF Open(run.targets[a]) THEN Cut ELSE run.targets[a]]
  IN [run EXCEPT !.targets = targets, !.state = aggregateAsyncRunState(targets)]

\* Mutation: an evaluation that the restart interrupted is not closed.
RecoverOpenOnly(run) == IF run.state \in RunEnd THEN run ELSE Abandon(CancelOpen(run))

\* recoverAsyncRuns, on one run.
recoverAsyncRun(run) ==
  IF run.state \notin RunEnd THEN Abandon(CancelOpen(run))
  ELSE IF run.pending THEN [Abandon(run) EXCEPT !.pending = FALSE] ELSE run

-----------------------------------------------------------------------------
(* What the binder does with a run that has moved.                         *)

Unsettled(run) == run.contract /\ run.result = "none" /\ run.state \in RunEnd

\* Mutation: only a completed run's contract is dealt with.
CompletedContractOnly(run, bound) ==
  IF Unsettled(run) /\ run.state = "completed" /\ bound
  THEN [run EXCEPT !.pending = TRUE] ELSE run

\* A completed run's contract waits for an evaluation when the caller has a
\* binding to evaluate it with; every other end makes it unknown at once.
handleTerminalDeliveryContract(run, bound) ==
  IF ~Unsettled(run) THEN run
  ELSE IF run.state = "completed" /\ bound THEN [run EXCEPT !.pending = TRUE]
  ELSE finalizeAsyncRunDeliveryContract(run, "unknown")

\* transitionAsyncRunTargetForTurn and ForRun, for each run in the domain of ts.
\* The store answers with the run even when nothing has changed, so a contract
\* that is still unsettled is evaluated again. A third evaluation and any after
\* it are the second one.
Settle(a, ts) ==
  LET moved == [r \in DOMAIN ts |-> transitionAsyncRunTarget(runs[r], a, ts[r])]
      started == {r \in DOMAIN ts : Unsettled(moved[r]) /\ moved[r].state = "completed"}
  IN /\ runs' = [r \in DOMAIN runs |->
                   IF r \in DOMAIN ts THEN handleTerminalDeliveryContract(moved[r], TRUE)
                   ELSE runs[r]]
     /\ evals' = evals \cup
          {[run |-> r, by |-> a, step |-> "probe",
            again |-> \E e \in evals : e.run = r] : r \in started}

\* The same for a target that has no binding.
Refused(run, a, state) ==
  handleTerminalDeliveryContract(transitionAsyncRunTarget(run, a, To(state)), FALSE)

\* The targets of a that a hole leaves open, with nothing that will end them.
Strand(a, rs) ==
  stranded \cup {<<r, a>> : r \in {q \in rs \ {Nobody, Foreign} : Open(runs'[q].targets[a])}}

\* A run without targets takes a place too.
Places(targets) == IF targets = {} THEN {Nobody} ELSE targets

RoomFor(targets) ==
  LET taken == UNION {{r} \X Places(DOMAIN runs[r].targets) : r \in DOMAIN runs}
  IN Cardinality(taken) + Cardinality(Places(targets)) <= MaxTargets

Fault == budget.faults > 0 /\ budget' = [budget EXCEPT !.faults = @ - 1]

-----------------------------------------------------------------------------
(* Posts and routing.                                                      *)

\* postToChannel: broadcastCreated routes the new run to each target.
Post(contract, targets) ==
  /\ RoomFor(targets)
  /\ runs' = Append(runs, NewRun(contract, 0, Nobody, targets))
  /\ agent' = [a \in Agents |->
       IF a \in targets THEN [agent[a] EXCEPT !.routing = @ \cup {Len(runs) + 1}]
       ELSE agent[a]]
  /\ UNCHANGED <<evals, stranded, budget>>

\* routeOne and enqueueTurn: into the queue, or to be steered into the turn.
Admit(a, r, steered) ==
  /\ r \in agent[a].routing
  /\ steered => a \in Steerable /\ agent[a].turn # Nobody
  /\ agent' = [agent EXCEPT ![a].routing = @ \ {r},
                            ![a].queued = IF steered THEN @ ELSE @ \cup {r},
                            ![a].steering = IF steered THEN @ \cup {r} ELSE @]
  /\ UNCHANGED <<runs, evals, stranded, budget>>

\* rejectAsyncTarget, rejectPreAdmittedTargets and a routing error.
Refuse(a, r, state) ==
  /\ r \in agent[a].routing
  /\ agent' = [agent EXCEPT ![a].routing = @ \ {r}]
  /\ runs' = [runs EXCEPT ![r] = Refused(@, a, state)]
  /\ UNCHANGED <<evals, stranded, budget>>

\* retry: a turn of this run has left a failed, interrupted or truncated row.
\* The retried turn has the same id.
Retry(a, r) ==
  /\ budget.faults > 0
  /\ agent[a].turn = Nobody /\ agent[a].queued = {} /\ agent[a].routing = {}
  /\ a \in DOMAIN runs[r].targets
  /\ runs[r].targets[a].state \notin {"queued", "rejected", "refused"}
  /\ agent' = [agent EXCEPT ![a].routing = {r}]
  /\ budget' = [faults |-> budget.faults - 1, retried |-> TRUE]
  /\ stranded' = stranded \ {<<r, a>>}
  /\ UNCHANGED <<runs, evals>>

-----------------------------------------------------------------------------
(* Turns.                                                                  *)

\* startTurn: requestMessageIdByTurn forgets the turns before it that were not
\* drained, and a steer in flight into one of them loses its way back.
Begin(ag, turn) ==
  LET again == turn = ag.steer.into /\ turn # Foreign
  IN [ag EXCEPT !.turn = turn, !.queued = @ \ {turn}, !.steer.live = again,
                !.steer.mapped = again \/ (@ /\ ag.steer.into \in ag.drained)]

\* pump and startTurn. The members of a coalesced batch other than the newest
\* are context rows of its turn; their runs are not told.
Start(a, r, batch) ==
  /\ agent[a].turn = Nobody /\ r \in agent[a].queued
  /\ batch \subseteq {q \in agent[a].queued : q < r}
  /\ IF batch = {} THEN UNCHANGED budget ELSE Fault
  /\ agent' = [agent EXCEPT ![a] = [Begin(agent[a], r) EXCEPT !.queued = @ \ batch]]
  /\ runs' = [runs EXCEPT ![r] = transitionAsyncRunTarget(@, a, To("working"))]
  /\ stranded' = Strand(a, batch)
  /\ UNCHANGED evals

\* A turn whose trigger has no run.
StartForeign(a) ==
  /\ agent[a].turn = Nobody
  /\ agent' = [agent EXCEPT ![a] = Begin(@, Foreign)]
  /\ Fault
  /\ UNCHANGED <<runs, evals, stranded>>

\* handleApprovalStarted and handleApprovalResolved.
Approval(a, state) ==
  /\ agent[a].turn > 0
  /\ Settle(a, [r \in {agent[a].turn} |-> To(state)])
  /\ UNCHANGED <<agent, stranded, budget>>

\* Mutation: the runs a turn has absorbed are not ended with it.
OwnOutcome(ag, target) == [r \in {ag.turn} \ {Foreign} |-> target]

\* The targets that finishTurn ends: the turn's own, and those of the runs it
\* has absorbed, these without a reason.
Outcomes(ag, target) ==
  [r \in ({ag.turn} \ {Foreign}) \cup ag.absorbed |->
     IF r = ag.turn THEN target ELSE To(target.state)]

\* finishTurn on the binding: what waits to be steered falls back to the queue.
Ended(ag) ==
  [ag EXCEPT !.turn = Nobody, !.absorbed = {}, !.steer.live = FALSE,
             !.queued = @ \cup ag.steering, !.steering = {}]

\* A terminal patch, a bare idle or a failed send. The terminal patch of a
\* turn whose id is suppressed does not finish it.
Finish(a, state, patch) ==
  /\ agent[a].turn # Nobody
  /\ patch => agent[a].turn \notin agent[a].drained
  /\ Settle(a, Outcomes(agent[a], To(state)))
  /\ agent' = [agent EXCEPT ![a] = Ended(@)]
  /\ UNCHANGED <<stranded, budget>>

\* drainBoundedTurn: the ceiling cancels and the watchdog fails the turn; the
\* provider is interrupted and its patches are suppressed from here on.
DrainBounded(a, target) ==
  /\ agent[a].turn # Nobody /\ Fault
  /\ Settle(a, Outcomes(agent[a], target))
  /\ agent' = [agent EXCEPT ![a] =
       LET own == {agent[a].turn} \ {Foreign}
       IN [Ended(agent[a]) EXCEPT !.drained = @ \cup own, !.late = @ \cup own]]
  /\ UNCHANGED stranded

\* handleSuppressedBindingPatch: the terminal of a drained turn, or of its retry.
LateTerminal(a, r, state) ==
  /\ r \in agent[a].late \/ (r \in agent[a].drained /\ r = agent[a].turn)
  /\ Settle(a, [q \in {r} |-> To(state)])
  /\ agent' = [agent EXCEPT ![a].late = @ \ {r}]
  /\ UNCHANGED <<stranded, budget>>

-----------------------------------------------------------------------------
(* Steering.                                                               *)

\* drainSteering.
Steer(a, r) ==
  /\ r \in agent[a].steering /\ agent[a].steer = NoSteer
  /\ agent' = [agent EXCEPT ![a].steering = @ \ {r},
       ![a].steer = [run |-> r, into |-> agent[a].turn, live |-> TRUE,
                     mapped |-> agent[a].turn # Foreign]]
  /\ UNCHANGED <<runs, evals, stranded, budget>>

\* The outcome of the turn that accepted a steer, once that turn is over.
AbsorberState(a) ==
  LET s == agent[a].steer
  IN IF s.mapped /\ ~Open(runs[s.into].targets[a]) THEN runs[s.into].targets[a].state
     ELSE "working"

\* The steer is accepted while its turn lives, which then ends both, or after
\* it: the run takes the outcome of the turn, if that can still be looked up.
SteerAccepted(a) ==
  LET s == agent[a].steer
      state == IF s.live THEN "working" ELSE AbsorberState(a)
  IN /\ s # NoSteer
     /\ Settle(a, [r \in {s.run} |-> To(state)])
     /\ agent' = [agent EXCEPT ![a].steer = NoSteer,
                               ![a].absorbed = IF s.live THEN @ \cup {s.run} ELSE @]
     /\ IF s.live \/ state \in TargetEnd THEN UNCHANGED <<stranded, budget>>
        ELSE Fault /\ stranded' = Strand(a, {s.run})

\* AgentSteerRejectedError.
SteerRejected(a) ==
  /\ agent[a].steer # NoSteer
  /\ agent' = [agent EXCEPT ![a].steer = NoSteer,
                            ![a].queued = @ \cup {agent[a].steer.run}]
  /\ UNCHANGED <<runs, evals, stranded, budget>>

\* Any other failure of a steer: a row says so, and nothing is sent again.
SteerFailed(a) ==
  /\ agent[a].steer # NoSteer /\ Fault
  /\ UNCHANGED <<runs, evals>>
  /\ stranded' = Strand(a, {agent[a].steer.run})
  /\ agent' = [agent EXCEPT ![a].steer = NoSteer]

-----------------------------------------------------------------------------
(* Holes and crashes.                                                      *)

\* A queued trigger is dropped: its packet cannot be built, a newer trigger
\* takes its place in a full queue, or a steer comes back to a full queue.
Drop(a, r) ==
  /\ r \in agent[a].queued /\ Fault
  /\ UNCHANGED <<runs, evals>>
  /\ stranded' = Strand(a, {r})
  /\ agent' = [agent EXCEPT ![a].queued = @ \ {r}]

\* releaseBinding, markDeadRuntimeIdle and dropQueuedTurns.
Die(a) ==
  LET ag == agent[a]
  IN /\ ag # [NewAgent EXCEPT !.routing = ag.routing] /\ Fault
     /\ UNCHANGED <<runs, evals>>
     /\ stranded' = Strand(a, {ag.turn, ag.steer.run} \cup ag.queued \cup ag.steering \cup ag.absorbed)
     /\ agent' = [agent EXCEPT ![a] = [NewAgent EXCEPT !.routing = ag.routing]]

\* The hub stops, having last written `db`, and starts again.
Restart(db) ==
  /\ Fault
  /\ runs' = [r \in DOMAIN db |-> recoverAsyncRun(db[r])]
  /\ agent' = [a \in Agents |-> NewAgent]
  /\ evals' = {} /\ stranded' = {}

Crash == runs # <<>> /\ Restart(runs)

\* The hub stops between a target's transition and its contract's.
CrashEnding(a, target) ==
  LET ends == Outcomes(agent[a], target)
      Torn(run) == [run EXCEPT !.torn = Unsettled(run)]
  IN /\ agent[a].turn > 0
     /\ Restart([runs EXCEPT ![agent[a].turn] =
                   Torn(transitionAsyncRunTarget(@, a, ends[agent[a].turn]))])

-----------------------------------------------------------------------------
(* Delivery contracts.                                                     *)

\* Mutation: one follow-up more than the bound allows.
SpentLater(run) == run.depth > MaxFollowups

\* The chain has used its follow-ups, or there are none to use.
Spent(run) == run.depth >= MaxFollowups

\* evaluateDeliveryContractForCompletedRun up to its last await, with the
\* decision of maybePostDeliveryContractFollowup: go on, or stamp the run.
Evaluate(e, verdict, paused) ==
  LET done == finalizeAsyncRunDeliveryContract(runs[e.run], verdict)
      unmet == verdict = "unmet"
      may == unmet /\ done.child = Nobody /\ ~paused
      follow == may /\ ~Spent(done)
  IN /\ e \in evals /\ e.step = "probe"
     /\ runs' = [runs EXCEPT ![e.run] =
          [done EXCEPT !.decided = @ \/ (unmet /\ ~follow),
                       !.abandoned = @ \/ (may /\ ~follow /\ MaxFollowups > 0)]]
     /\ evals' = (evals \ {e}) \cup (IF follow THEN {[e EXCEPT !.step = "post"]} ELSE {})
     /\ UNCHANGED <<agent, stranded, budget>>

Child(e) == NewRun(TRUE, runs[e.run].depth + 1, e.run, {e.by})

\* postDeliveryContractFollowupTrigger: the row is routed to the same agent, or
\* refused because the chain is paused or the agent's profile is gone.
PostFollowup(e, routed) ==
  LET child == IF routed THEN Child(e) ELSE Refused(Child(e), e.by, "rejected")
      next == Len(runs) + 1
  IN /\ e \in evals /\ e.step = "post" /\ RoomFor({e.by})
     /\ runs' = Append([runs EXCEPT ![e.run].child = IF @ = Nobody THEN next ELSE @], child)
     /\ agent' = IF routed THEN [agent EXCEPT ![e.by].routing = @ \cup {next}] ELSE agent
     /\ evals' = evals \ {e}
     /\ UNCHANGED <<stranded, budget>>

\* The row cannot be written: the chain is abandoned.
FollowupFails(e) ==
  /\ e \in evals /\ e.step = "post" /\ Fault
  /\ runs' = [runs EXCEPT ![e.run].abandoned = TRUE]
  /\ evals' = evals \ {e}
  /\ UNCHANGED <<agent, stranded>>

\* The hub stops between the follow-up and its parent's record of it.
CrashFollowing(e) ==
  /\ e \in evals /\ e.step = "post" /\ RoomFor({e.by})
  /\ Restart(Append(runs, Child(e)))

-----------------------------------------------------------------------------

RoutingStep ==
  \/ \E contract \in BOOLEAN, targets \in SUBSET Agents : Post(contract, targets)
  \/ \E a \in Agents, r \in DOMAIN runs :
       \/ \E steered \in BOOLEAN : Admit(a, r, steered)
       \/ \E state \in {"refused", "failed"} : Refuse(a, r, state)
       \/ Retry(a, r)

TurnStep(a) ==
  \/ \E r \in DOMAIN runs : \E batch \in SUBSET agent[a].queued : Start(a, r, batch)
  \/ StartForeign(a)
  \/ \E state \in {"input-required", "working"} : Approval(a, state)
  \/ \E state \in {"completed", "failed", "cancelled"}, patch \in BOOLEAN : Finish(a, state, patch)
  \/ \E target \in {Cut, To("failed")} : DrainBounded(a, target)
  \/ \E r \in DOMAIN runs, state \in {"completed", "failed", "cancelled"} : LateTerminal(a, r, state)
  \/ \E r \in DOMAIN runs : Steer(a, r)
  \/ SteerAccepted(a) \/ SteerRejected(a) \/ SteerFailed(a)

HoleStep ==
  \/ \E a \in Agents : Die(a) \/ \E r \in DOMAIN runs : Drop(a, r)
  \/ Crash
  \/ \E a \in Agents, target \in {Cut, To("completed"), To("failed")} : CrashEnding(a, target)

ContractStep(e) ==
  \/ \E verdict \in {"met", "unmet", "unknown"}, paused \in BOOLEAN : Evaluate(e, verdict, paused)
  \/ \E routed \in BOOLEAN : PostFollowup(e, routed)
  \/ FollowupFails(e) \/ CrashFollowing(e)

RunNext ==
  \/ RoutingStep
  \/ \E a \in Agents : TurnStep(a)
  \/ HoleStep
  \/ \E e \in evals : ContractStep(e)

RunSpec == RunInit /\ [][RunNext]_runVars

-----------------------------------------------------------------------------
(* Properties                                                              *)

TargetStates == {"queued", "working", "input-required"} \cup TargetEnd

RunTypeOK ==
  /\ \A r \in DOMAIN runs :
       /\ DOMAIN runs[r].targets \subseteq Agents
       /\ \A a \in DOMAIN runs[r].targets : runs[r].targets[a].state \in TargetStates
       /\ runs[r].state \in RunEnd \cup {"submitted", "working", "input-required"}
       /\ runs[r].result \in {"none", "met", "unmet", "unknown"}
  /\ \A a \in Agents :
       /\ agent[a].turn \in DOMAIN runs \cup {Nobody, Foreign}
       /\ agent[a].routing \cup agent[a].queued \cup agent[a].steering \cup agent[a].absorbed
            \subseteq {r \in DOMAIN runs : a \in DOMAIN runs[r].targets}
  /\ \A e \in evals : e.run \in DOMAIN runs /\ e.step \in {"probe", "post"}

\* A target that has not ended is in its agent's hands, and will be moved by the
\* end of a route, a turn or a steer; unless it went through one of the holes.
OpenHasOwner ==
  \A r \in DOMAIN runs : \A a \in DOMAIN runs[r].targets :
    Open(runs[r].targets[a]) =>
      LET ag == agent[a]
      IN \/ r \in ag.routing \cup ag.queued \cup ag.steering \cup ag.absorbed
         \/ r \in {ag.turn, ag.steer.run}
         \/ <<r, a>> \in stranded

\* A steer that is accepted, at once or late, leaves its run to the turn that
\* took it, so that nobody waits for a run that no turn will end (#1570).
SteersSettle == [][\A a \in Agents : SteerAccepted(a) => stranded' \subseteq stranded]_runVars

\* A pending contract has an evaluation under way that will clear the mark,
\* across crashes too.
PendingHasEvaluator ==
  \A r \in DOMAIN runs :
    runs[r].pending => \E e \in evals : e.run = r /\ e.step = "probe"

\* A run that has ended has its contract's result, or is pending on it; a crash
\* between the two writes and a run without targets excepted.
ContractSettles ==
  \A r \in DOMAIN runs :
    Unsettled(runs[r]) /\ DOMAIN runs[r].targets # {} /\ ~runs[r].torn => runs[r].pending

\* A chain of follow-ups is a chain: each hangs below a run whose contract is
\* unmet, one level deeper and within the bound, and no run has two; as long as
\* no turn is retried.
FollowupChain ==
  ~budget.retried =>
    \A r \in DOMAIN runs : runs[r].parent # Nobody =>
      LET p == runs[runs[r].parent]
      IN /\ p.state = "completed_unmet" /\ p.result = "unmet"
         /\ runs[r].depth = p.depth + 1 /\ runs[r].depth <= MaxFollowups
         /\ \A q \in DOMAIN runs : runs[q].parent = runs[r].parent => q = r

\* A contract's result is never replaced, and a completed run never becomes
\* anything but unmet, whatever arrives late, is retried or restarts.
OutcomeStays ==
  [][\A r \in DOMAIN runs :
       /\ runs[r].result # "none" => runs'[r].result = runs[r].result
       /\ runs[r].state = "completed" => runs'[r].state \in {"completed", "completed_unmet"}
       /\ runs[r].state = "completed_unmet" => runs'[r].state = "completed_unmet"]_runVars
=============================================================================
