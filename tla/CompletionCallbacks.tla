------------------------- MODULE CompletionCallbacks -------------------------
(***************************************************************************)
(* Delegation completion callbacks: when one agent mentions another, the   *)
(* durable edge of server/channel-message-store.ts that brings the         *)
(* delegatee's completion back up, and the turns of                        *)
(* server/channel-agent-binder.ts that drive it.                           *)
(*                                                                         *)
(* An edge is the delegation of one target turn. The child of an edge p is *)
(* a delegation made while handling p: its requester is p's delegatee, and *)
(* p waits for it (fan-in). Every store operation is one transaction, so   *)
(* it is an operator on the table and happens inside one action; what the  *)
(* binder keeps in memory (queues, turns, routes in flight) is lost when   *)
(* the hub restarts.                                                       *)
(***************************************************************************)
EXTENDS Integers, FiniteSets, FiniteSetsExt

CONSTANTS Edges,    \* identities of delegated target turns
          NoEdge,   \* the parent of a delegation that answers nobody
          MaxFan,   \* the most agents one message mentions
          \* How often each disturbance may happen (exploration bounds).
          MaxReturns, MaxRouteFailures, MaxDeaths, MaxCrashes,
          MaxRetries, MaxRefusals

ASSUME CallbackConstants ==
  /\ NoEdge \notin Edges
  /\ {MaxFan, MaxReturns, MaxRouteFailures, MaxDeaths, MaxCrashes,
      MaxRetries, MaxRefusals} \subseteq Nat

VARIABLES
  edges,     \* channel_completion_callbacks
  routes,    \* routeOne calls in flight, per parent their edge will have
  target,    \* the delegatee's turn of an edge
  turn,      \* the requester's callback turn of an edge
  deferred,  \* deferredCompletionTerminalByTurn, per callback turn
  left       \* disturbances still allowed (exploration bound)

vars == <<edges, routes, target, turn, deferred, left>>

Open == {"pending", "satisfied", "delivered"}
Settled == {"consumed", "undeliverable"}

\* A row. `evidence` is a terminal_reason, `done` a continuation_completed_at.
Edge == [state : Open \cup Settled \cup {"none", "pruned"},
         parent : Edges \cup {NoEdge}, awaiting : BOOLEAN, intents : Nat,
         evidence : BOOLEAN, done : BOOLEAN]

TargetStates == {"none", "queued", "active", "over"}
TurnStates == {"none", "claimed", "queued", "sending", "accepted", "ended"}
Disturbances == {"return", "route", "death", "crash", "retry", "refusal"}

NewEdge(state, p) == [state |-> state, parent |-> p, awaiting |-> FALSE,
                      intents |-> 0, evidence |-> FALSE, done |-> FALSE]

Init ==
  /\ edges = [e \in Edges |-> NewEdge("none", NoEdge)]
  /\ routes = [p \in Edges \cup {NoEdge} |-> 0]
  /\ target = [e \in Edges |-> "none"]
  /\ turn = [e \in Edges |-> "none"]
  /\ deferred = [e \in Edges |-> FALSE]
  /\ left = [d \in Disturbances |->
               CASE d = "return" -> MaxReturns
                 [] d = "route" -> MaxRouteFailures
                 [] d = "death" -> MaxDeaths
                 [] d = "crash" -> MaxCrashes
                 [] d = "retry" -> MaxRetries
                 [] d = "refusal" -> MaxRefusals]

-----------------------------------------------------------------------------
(* The store's transactions, as functions of the table es.                 *)

Children(es, p) == {c \in Edges : es[c].parent = p}

\* A child may only be created by an intent its parent announced.
AdmitsChild(es, p) ==
  /\ es[p].state = "pending" /\ es[p].awaiting /\ es[p].intents > 0

\* Mutation: the intent is spent by the insert and again by its caller.
DoubleSpend(es, e, p) ==
  [x \in Edges |->
     IF x = e THEN NewEdge("pending", p)
     ELSE IF x = p THEN [es[p] EXCEPT !.intents = @ - 2]
     ELSE es[x]]

createCompletionCallback(es, e, p) ==
  [x \in Edges |->
     IF x = e THEN NewEdge("pending", p)
     ELSE IF x = p THEN [es[p] EXCEPT !.intents = @ - 1]
     ELSE es[x]]

satisfyCompletionCallback(es, e) ==
  IF es[e].state # "pending" THEN es
  ELSE [es EXCEPT ![e].evidence = TRUE,
                  ![e].state = IF es[e].awaiting THEN "pending" ELSE "satisfied"]

\* Mutation: one intent per message, however many agents it mentions.
AnnounceOne(es, p, n) ==
  IF es[p].state # "pending" THEN es
  ELSE [es EXCEPT ![p].awaiting = TRUE, ![p].intents = @ + 1]

\* deferCompletionCallbackForChild and announceContinuationChildren.
announceChildren(es, p, n) ==
  IF es[p].state # "pending" THEN es
  ELSE [es EXCEPT ![p].awaiting = TRUE, ![p].intents = @ + n]

\* Mutation: the parent is released by its first child's continuation.
EagerFanIn(es, p) ==
  es[p].state = "pending" /\ es[p].awaiting /\ es[p].intents = 0

\* Every continuation is over and no announced child is still to come.
FanInComplete(es, p) ==
  /\ \A c \in Children(es, p) : es[c].done
  /\ es[p].state = "pending" /\ es[p].awaiting /\ es[p].intents = 0

completeChildContinuation(es, c) ==
  LET p == es[c].parent
      marked == [es EXCEPT ![c].done = TRUE]
  IN IF es[c].state # "consumed" \/ p = NoEdge \/ es[c].done THEN es
     ELSE IF FanInComplete(marked, p)
          THEN [marked EXCEPT ![p].state = "satisfied", ![p].awaiting = FALSE,
                              ![p].evidence = TRUE]
          ELSE marked

\* One announced child will not come. Only a parent without any child row
\* falls back to the evidence of its own turn.
releaseDeferredCompletionCallback(es, p) ==
  LET n == IF es[p].intents > 0 THEN es[p].intents - 1 ELSE 0
      freed == n = 0 /\ Children(es, p) = {}
  IN IF es[p].state # "pending" \/ ~es[p].awaiting THEN es
     ELSE [es EXCEPT ![p].intents = n, ![p].awaiting = ~freed,
                     ![p].state = IF freed /\ es[p].evidence
                                  THEN "satisfied" ELSE "pending"]

releaseDeliveredCompletionCallback(es, e) ==
  IF es[e].state = "delivered" THEN [es EXCEPT ![e].state = "satisfied"] ELSE es

consumeCompletionCallback(es, e) ==
  IF es[e].state = "delivered" THEN [es EXCEPT ![e].state = "consumed"] ELSE es

\* An explicit mention of the requester in the delegatee's own words.
consumeForExplicitReturn(es, e) ==
  IF es[e].state \in Open THEN [es EXCEPT ![e].state = "consumed"] ELSE es

Ancestors(es, e) ==
  {a \in Edges :
     \A S \in SUBSET Edges :
       (\A x \in S \cup {e} : es[x].parent \in S \cup {NoEdge}) => a \in S}

\* Mutation: the ancestors keep waiting.
TerminalizeAlone(es, e) == [es EXCEPT ![e].state = "undeliverable"]

\* The requester does not exist: this callback, and all that waits for the
\* continuation it would have caused, can never be delivered.
terminalizeDeliveredCompletionCallback(es, e) ==
  [x \in Edges |->
     IF x = e \/ (x \in Ancestors(es, e) /\ es[x].state \in Open)
     THEN [es[x] EXCEPT !.state = "undeliverable"] ELSE es[x]]

\* Mutation: an accepted callback whose turn was cut off is offered again.
RecoverAccepted(es) ==
  [e \in Edges |->
     CASE es[e].state = "delivered" \/ (es[e].state = "consumed" /\ ~es[e].done) ->
            [es[e] EXCEPT !.state = "satisfied"]
       [] es[e].state = "pending" /\ (~es[e].awaiting \/ Children(es, e) = {}) ->
            [es[e] EXCEPT !.state = "satisfied", !.awaiting = FALSE, !.intents = 0]
       [] OTHER -> es[e]]

\* At startup the claims are offered again, a parent that has announced
\* children and has none stops waiting, and what is pending has ended.
recoverCompletionCallbacks(es) ==
  [e \in Edges |->
     CASE es[e].state = "delivered" -> [es[e] EXCEPT !.state = "satisfied"]
       [] es[e].state = "pending" /\ (~es[e].awaiting \/ Children(es, e) = {}) ->
            [es[e] EXCEPT !.state = "satisfied", !.awaiting = FALSE,
                          !.intents = IF es[e].awaiting THEN 0 ELSE @,
                          !.evidence = TRUE]
       [] OTHER -> es[e]]

\* A settled row is dropped unless it is part of an unfinished fan-in.
Prunable(es, e) ==
  /\ es[e].state \in Settled
  /\ \A c \in Children(es, e) : \/ es[c].state = "undeliverable"
                                \/ es[c].state = "consumed" /\ es[c].done
  /\ es[e].parent # NoEdge => es[es[e].parent].state \notin Open

-----------------------------------------------------------------------------
(* The binder. A message routes each mention by itself, so a fan-out is    *)
(* several routes in flight.                                               *)

\* Bound: every route can still get an edge.
Room(n) ==
  MapThenSumSet(LAMBDA p : routes[p], Edges \cup {NoEdge}) + n
    <= Cardinality({e \in Edges : edges[e].state = "none"})

Spend(d) == left[d] > 0 /\ left' = [left EXCEPT ![d] = @ - 1]

\* A message of an agent that answers no delegation mentions n others.
DelegateRoot(n) ==
  /\ n > 0 /\ Room(n)
  /\ routes' = [routes EXCEPT ![NoEdge] = @ + n]
  /\ UNCHANGED <<edges, target, turn, deferred, left>>

\* handleAssistantFinalized for a turn that answers p: the message mentions
\* p's requester (returned) and n other agents. It reaches the binder at the
\* turn's end, or later when the turn's images are still being stored.
Finalized(p, returned, n) ==
  LET es == IF returned THEN consumeForExplicitReturn(edges, p) ELSE edges
      parent == IF es[p].state = "pending" THEN p ELSE NoEdge
  IN /\ returned \/ n > 0
     /\ Room(n)
     /\ IF returned THEN Spend("return") ELSE UNCHANGED left
     /\ edges' = IF n > 0 THEN announceChildren(es, p, n) ELSE es
     /\ routes' = [routes EXCEPT ![parent] = @ + n]
     /\ UNCHANGED <<target, turn, deferred>>

TargetFinalized(e, returned, n) ==
  target[e] \in {"active", "over"} /\ Finalized(e, returned, n)

\* A callback turn answers for the ancestor its continuation belongs to.
ContinuationFinalized(c, returned, n) ==
  /\ turn[c] \in {"sending", "accepted"} /\ edges[c].parent # NoEdge
  /\ Finalized(edges[c].parent, returned, n)

\* Mutation: a queue-cap rejection leaves the edge it created.
DroppedRoute(p, e, full) ==
  /\ routes[p] > 0 /\ edges[e].state = "none"
  /\ p # NoEdge => AdmitsChild(edges, p)
  /\ routes' = [routes EXCEPT ![p] = @ - 1]
  /\ edges' = createCompletionCallback(edges, e, p)
  /\ target' = [target EXCEPT ![e] = IF full THEN "none" ELSE "queued"]
  /\ UNCHANGED <<turn, deferred, left>>

\* routeOne up to enqueueTurn: the edge is made durable at admission, and a
\* full queue terminalizes it at once.
RouteAdmitted(p, e, full) ==
  LET es == createCompletionCallback(edges, e, p)
  IN /\ routes[p] > 0 /\ edges[e].state = "none"
     /\ p # NoEdge => AdmitsChild(edges, p)
     /\ routes' = [routes EXCEPT ![p] = @ - 1]
     /\ edges' = IF full THEN satisfyCompletionCallback(es, e) ELSE es
     /\ target' = [target EXCEPT ![e] = IF full THEN "none" ELSE "queued"]
     /\ UNCHANGED <<turn, deferred, left>>

\* routeOne ends before admission: an unavailable target, a failed binding, or
\* a parent that no longer admits the child.
RouteFailed(p) ==
  /\ routes[p] > 0
  /\ routes' = [routes EXCEPT ![p] = @ - 1]
  /\ IF p # NoEdge /\ ~AdmitsChild(edges, p) THEN UNCHANGED left ELSE Spend("route")
  /\ edges' = IF p = NoEdge THEN edges
              ELSE releaseDeferredCompletionCallback(edges, p)
  /\ UNCHANGED <<target, turn, deferred>>

-----------------------------------------------------------------------------
(* Turns. An agent runs one turn at a time, and the callback turns of p's  *)
(* children run where p's own turn ran.                                    *)

\* Mutation: a callback turn does not wait for the agent's own turn.
BusyWithCallbacks(p) ==
  p # NoEdge /\ \E c \in Children(edges, p) : turn[c] \in {"sending", "accepted"}

Busy(p) == /\ p # NoEdge
           /\ \/ target[p] = "active"
              \/ \E c \in Children(edges, p) : turn[c] \in {"sending", "accepted"}

StartTarget(e) ==
  /\ target[e] = "queued" /\ ~Busy(e)
  /\ target' = [target EXCEPT ![e] = "active"]
  /\ UNCHANGED <<edges, routes, turn, deferred, left>>

\* finishTurn: completed, failed, interrupted, timed out or force-drained.
FinishTarget(e) ==
  /\ target[e] = "active"
  /\ target' = [target EXCEPT ![e] = "over"]
  /\ edges' = satisfyCompletionCallback(edges, e)
  /\ UNCHANGED <<routes, turn, deferred, left>>

\* releaseBinding and dropQueuedTurns, for a delegatee's runtime.
TargetDies(e) ==
  /\ target[e] \in {"queued", "active"} /\ Spend("death")
  /\ target' = [target EXCEPT ![e] = IF @ = "active" THEN "over" ELSE "none"]
  /\ edges' = satisfyCompletionCallback(edges, e)
  /\ UNCHANGED <<routes, turn, deferred>>

\* claimAndRouteCompletionCallbacks: the claim is durable before the
\* requester's binding is resolved.
Claim(e) ==
  /\ edges[e].state = "satisfied" /\ turn[e] = "none"
  /\ edges' = [edges EXCEPT ![e].state = "delivered"]
  /\ turn' = [turn EXCEPT ![e] = "claimed"]
  /\ UNCHANGED <<routes, target, deferred, left>>

ClaimUnavailable(e) ==
  /\ edges[e].state = "satisfied" /\ turn[e] = "none"
  /\ edges' = terminalizeDeliveredCompletionCallback(
                [edges EXCEPT ![e].state = "delivered"], e)
  /\ UNCHANGED <<routes, target, turn, deferred, left>>

EnqueueCallback(e) ==
  /\ turn[e] = "claimed"
  /\ turn' = [turn EXCEPT ![e] = "queued"]
  /\ UNCHANGED <<edges, routes, target, deferred, left>>

SendCallback(e) ==
  /\ turn[e] = "queued" /\ ~Busy(edges[e].parent)
  /\ turn' = [turn EXCEPT ![e] = "sending"]
  /\ UNCHANGED <<edges, routes, target, deferred, left>>

\* Mutation: the turn is dropped and its claim is kept.
ForgetCallback(e) ==
  /\ turn[e] \in {"claimed", "queued", "sending", "ended"}
  /\ turn' = [turn EXCEPT ![e] = "none"]
  /\ deferred' = [deferred EXCEPT ![e] = FALSE]
  /\ UNCHANGED <<edges, routes, target, left>>

\* releaseUnacceptedCompletionCallbackTurn and its siblings: no binding, a
\* full queue, no packet, or a rejected send. The claim is offered again.
ReleaseCallback(e) ==
  /\ turn[e] \in {"claimed", "queued", "sending", "ended"}
  /\ turn' = [turn EXCEPT ![e] = "none"]
  /\ deferred' = [deferred EXCEPT ![e] = FALSE]
  /\ edges' = releaseDeliveredCompletionCallback(edges, e)
  /\ UNCHANGED <<routes, target, left>>

\* Mutation: acceptance counts as the end of the continuation.
AcceptCompletes(e) ==
  /\ turn[e] \in {"sending", "ended"}
  /\ edges' = completeChildContinuation(consumeCompletionCallback(edges, e), e)
  /\ deferred' = [deferred EXCEPT ![e] = FALSE]
  /\ turn' = [turn EXCEPT ![e] = IF @ = "sending" THEN "accepted" ELSE "none"]
  /\ UNCHANGED <<routes, target, left>>

\* sendMessage resolves. A terminal that came first was held until now.
AcceptCallback(e) ==
  LET es == consumeCompletionCallback(edges, e)
      flush == edges[e].state = "delivered" /\ deferred[e]
  IN /\ turn[e] \in {"sending", "ended"}
     /\ edges' = IF flush THEN completeChildContinuation(es, e) ELSE es
     /\ deferred' = [deferred EXCEPT ![e] = @ /\ ~flush]
     /\ turn' = [turn EXCEPT ![e] = IF @ = "sending" THEN "accepted" ELSE "none"]
     /\ UNCHANGED <<routes, target, left>>

\* finishTurn of a callback turn: its terminal completes the continuation, or
\* is held while the adapter has not accepted the trigger.
FinishCallback(e) ==
  LET held == edges[e].state = "delivered"
  IN /\ turn[e] \in {"sending", "accepted"}
     /\ deferred' = [deferred EXCEPT ![e] = @ \/ held]
     /\ edges' = IF held THEN edges ELSE completeChildContinuation(edges, e)
     /\ turn' = [turn EXCEPT ![e] = IF @ = "sending" THEN "ended" ELSE "none"]
     /\ UNCHANGED <<routes, target, left>>

\* releaseBinding under a requester's callback turn. The turn's callback is
\* still registered when the adapter has accepted it.
CallbackDies(e) ==
  /\ turn[e] \in {"queued", "sending", "accepted"} /\ Spend("death")
  /\ turn' = [turn EXCEPT ![e] = "none"]
  /\ deferred' = [deferred EXCEPT ![e] = FALSE]
  /\ edges' = releaseDeliveredCompletionCallback(edges, e)
  /\ UNCHANGED <<routes, target>>

\* handleSendFailure for a turn that has already ended: it is enqueued again,
\* and what a full queue answers is ignored.
RetryCallback(e) ==
  /\ turn[e] = "ended" /\ Spend("retry")
  /\ turn' = [turn EXCEPT ![e] = "queued"]
  /\ UNCHANGED <<edges, routes, target, deferred>>

RetryRefused(e) ==
  /\ turn[e] = "ended" /\ Spend("refusal")
  /\ turn' = [turn EXCEPT ![e] = "none"]
  /\ UNCHANGED <<edges, routes, target, deferred>>

-----------------------------------------------------------------------------
\* The hub restarts: memory is gone, the table is recovered.
CrashRestart ==
  /\ Spend("crash")
  /\ edges' = recoverCompletionCallbacks(edges)
  /\ routes' = [p \in Edges \cup {NoEdge} |-> 0]
  /\ target' = [e \in Edges |-> "none"]
  /\ turn' = [e \in Edges |-> "none"]
  /\ deferred' = [e \in Edges |-> FALSE]

\* The retention window is longer than any turn.
Prune(e) ==
  /\ Prunable(edges, e)
  /\ target[e] \in {"none", "over"} /\ turn[e] = "none" /\ routes[e] = 0
  /\ edges' = [edges EXCEPT ![e] = NewEdge("pruned", NoEdge)]
  /\ target' = [target EXCEPT ![e] = "none"]
  /\ UNCHANGED <<routes, turn, deferred, left>>

Next ==
  \/ \E n \in 1..MaxFan : DelegateRoot(n)
  \/ \E e \in Edges :
       \/ \E returned \in BOOLEAN, n \in 0..MaxFan :
            TargetFinalized(e, returned, n) \/ ContinuationFinalized(e, returned, n)
       \/ \E p \in Edges \cup {NoEdge}, full \in BOOLEAN : RouteAdmitted(p, e, full)
       \/ StartTarget(e) \/ FinishTarget(e) \/ TargetDies(e)
       \/ Claim(e) \/ ClaimUnavailable(e) \/ EnqueueCallback(e) \/ SendCallback(e)
       \/ ReleaseCallback(e) \/ AcceptCallback(e) \/ FinishCallback(e)
       \/ CallbackDies(e) \/ RetryCallback(e) \/ RetryRefused(e)
       \/ Prune(e)
  \/ \E p \in Edges \cup {NoEdge} : RouteFailed(p)
  \/ CrashRestart

Spec == Init /\ [][Next]_vars

-----------------------------------------------------------------------------
(* Properties                                                              *)

\* The table and the binder's memory keep their shape, and a child's parent
\* is an edge that was created before it.
TypeOK ==
  /\ edges \in [Edges -> Edge]
  /\ routes \in [Edges \cup {NoEdge} -> Nat]
  /\ target \in [Edges -> TargetStates] /\ turn \in [Edges -> TurnStates]
  /\ deferred \in [Edges -> BOOLEAN] /\ left \in [Disturbances -> Nat]
  /\ \A c \in Edges : edges[c].parent # NoEdge => edges[edges[c].parent].state # "none"

\* Fan-in: a delegation is reported upward only after every delegation made
\* on its behalf has been routed and its callback turn is over.
FanIn ==
  \A p \in Edges : edges[p].state \in {"satisfied", "delivered"} =>
    routes[p] = 0 /\ \A c \in Children(edges, p) : edges[c].done

\* A delegation is not reported upward while the turn that handles it is still
\* to come or running, although its children may be back before it ends.
ReportedAfterTurn ==
  \A p \in Edges : edges[p].state \in {"satisfied", "delivered"} =>
    target[p] \notin {"queued", "active"}

\* No callback turn was enqueued again after its send failed.
NoResend == left["retry"] = MaxRetries /\ left["refusal"] = MaxRefusals

\* Only the end of the last callback turn releases the parent: none of them
\* is still running when the parent is reported. (A turn that is enqueued again
\* inherits the terminal held for its first attempt and breaks this.)
ReleasedAfterContinuations ==
  NoResend => \A p \in Edges : edges[p].state \in {"satisfied", "delivered"} =>
    \A c \in Children(edges, p) : turn[c] \notin {"sending", "accepted"}

\* Announced intents cover the routes in flight, so that no admission of an
\* announced child is refused while its parent still waits.
IntentsCoverRoutes ==
  \A p \in Edges : edges[p].state = "pending" => routes[p] <= edges[p].intents

\* Nothing waits for a continuation that can never happen: what depends on an
\* undeliverable callback is settled too, however deep the nesting.
UndeliverableUpward ==
  \A c \in Edges : edges[c].state = "undeliverable" =>
    \A a \in Ancestors(edges, c) : edges[a].state \notin Open

\* Late or repeated terminals, restarts and retries never reopen a settled
\* edge, and never undo a finished continuation.
SettledStays ==
  [][\A e \in Edges :
       /\ edges[e].state \in Settled => edges'[e].state \in {edges[e].state, "pruned"}
       /\ edges[e].done => edges'[e].done \/ edges'[e].state = "pruned"]_vars

\* A claimed callback always has a turn, or a route to one, in this process:
\* a claim is never left behind. (Unless it is enqueued again and the queue is
\* full: that refusal goes unnoticed.)
ClaimsAreOwned ==
  NoResend => \A e \in Edges : edges[e].state = "delivered" => turn[e] # "none"

-----------------------------------------------------------------------------
(* Fairness. Routes, queues and drain timers make progress; a turn ends,   *)
(* at the latest by its watchdog or its ceiling; bindings, queues and      *)
(* sends fail only for a while.                                            *)

Progress(e) ==
  /\ WF_vars(\E p \in Edges \cup {NoEdge}, full \in BOOLEAN : RouteAdmitted(p, e, full))
  /\ WF_vars(routes[e] > 0 /\ ~AdmitsChild(edges, e) /\ RouteFailed(e))
  /\ WF_vars(StartTarget(e)) /\ WF_vars(FinishTarget(e))
  /\ WF_vars(Claim(e)) /\ SF_vars(EnqueueCallback(e))
  /\ SF_vars(SendCallback(e)) /\ SF_vars(AcceptCallback(e)) /\ WF_vars(FinishCallback(e))

FairSpec == Spec /\ \A e \in Edges : Progress(e)

\* Once no new delegation is made, every delegation has been reported to its
\* requester or found to be undeliverable.
EverySettles == <>[](\A e \in Edges : edges[e].state \notin Open)
=============================================================================
