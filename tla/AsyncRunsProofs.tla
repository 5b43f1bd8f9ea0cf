--------------------------- MODULE AsyncRunsProofs ---------------------------
(***************************************************************************)
(* Proofs about AsyncRuns, for any agents, bounds and number of faults.    *)
(*                                                                         *)
(* The store keeps each run sound by itself (Sound: its state is the one   *)
(* its targets add up to; Settled: its contract is not forgotten), and     *)
(* what an agent holds is always a run of its own (HoldsOwn). From these   *)
(* follow the types, the contracts, the owners of open targets and that an *)
(* outcome stays. That follow-ups form a chain needs that an agent holds a *)
(* run once and only while its target is open (Orderly), which a retry     *)
(* breaks; then no run completes twice and at most one evaluation exists.  *)
(***************************************************************************)
EXTENDS AsyncRuns, TLAPS

TargetRec == [state : TargetStates, revisable : BOOLEAN]
TargetMaps == UNION {[S -> TargetRec] : S \in SUBSET Agents}
RunStates == RunEnd \cup {"submitted", "working", "input-required"}
Results == {"none", "met", "unmet", "unknown"}

RunRec ==
  [targets : TargetMaps, state : RunStates, contract : BOOLEAN,
   pending : BOOLEAN, result : Results, depth : Nat, parent : Nat, child : Nat,
   decided : BOOLEAN, abandoned : BOOLEAN, torn : BOOLEAN]

\* A target that may be revised was cancelled; the run has ended only when its
\* targets have, and completed only when they did; a pending evaluation is one
\* of a completed run that has no result.
Sound(run) ==
  /\ \A a \in DOMAIN run.targets :
       run.targets[a].revisable => run.targets[a].state = "cancelled"
  /\ run.state \in RunEnd => \A a \in DOMAIN run.targets : ~Open(run.targets[a])
  /\ run.state \in {"completed", "completed_unmet"} =>
       \A a \in DOMAIN run.targets : run.targets[a].state = "completed"
  /\ run.pending => run.state = "completed" /\ run.result = "none"

Settled(run) ==
  Unsettled(run) /\ DOMAIN run.targets # {} /\ ~run.torn => run.pending

\* What no later write changes of a run.
Later(run, new) ==
  /\ DOMAIN new.targets = DOMAIN run.targets
  /\ new.depth = run.depth /\ new.parent = run.parent
  /\ run.result # "none" => new.result = run.result
  /\ run.state = "completed" => new.state \in {"completed", "completed_unmet"}
  /\ run.state = "completed_unmet" => new.state = "completed_unmet"

\* A target that a turn, a steer or a route may write.
Writable(target) ==
  target \in TargetRec /\ (target.revisable => target.state = "cancelled")

-----------------------------------------------------------------------------
(* The operators of the store.                                             *)

\* The targets of a run are a function into target records.
LEMMA TargetMapsAre ==
  ASSUME NEW t
  PROVE  t \in TargetMaps <=>
           /\ t = [a \in DOMAIN t |-> t[a]] /\ DOMAIN t \subseteq Agents
           /\ \A a \in DOMAIN t : t[a] \in TargetRec
<1>1. ASSUME t \in TargetMaps
      PROVE  /\ t = [a \in DOMAIN t |-> t[a]] /\ DOMAIN t \subseteq Agents
             /\ \A a \in DOMAIN t : t[a] \in TargetRec
  <2>1. PICK S \in SUBSET Agents : t \in [S -> TargetRec]
    BY <1>1 DEF TargetMaps
  <2> QED BY <2>1
<1>2. ASSUME t = [a \in DOMAIN t |-> t[a]], DOMAIN t \subseteq Agents,
             \A a \in DOMAIN t : t[a] \in TargetRec
      PROVE  t \in TargetMaps
  <2>1. t \in [DOMAIN t -> TargetRec]
    BY <1>2
  <2> QED BY <2>1, <1>2 DEF TargetMaps
<1> QED BY <1>1, <1>2

\* What a run's state says of its targets (aggregateAsyncRunState).
LEMMA AggregateSays ==
  ASSUME NEW t \in TargetMaps
  PROVE  /\ aggregateAsyncRunState(t) \in RunStates \ {"completed_unmet"}
         /\ aggregateAsyncRunState(t) \in RunEnd => \A a \in DOMAIN t : ~Open(t[a])
         /\ aggregateAsyncRunState(t) = "completed" =>
              \A a \in DOMAIN t : t[a].state = "completed"
<1> DEFINE states == {t[a].state : a \in DOMAIN t}
<1>1. \A a \in DOMAIN t : t[a].state \in states
  OBVIOUS
<1>2. aggregateAsyncRunState(t) \in RunStates \ {"completed_unmet"}
  BY DEF aggregateAsyncRunState, RunStates, RunEnd
<1>3. aggregateAsyncRunState(t) \in RunEnd => states \subseteq TargetEnd
  BY DEF aggregateAsyncRunState, RunEnd, TargetEnd
<1>4. aggregateAsyncRunState(t) = "completed" => states = {"completed"}
  BY DEF aggregateAsyncRunState
<1> HIDE DEF states
<1> QED BY <1>1, <1>2, <1>3, <1>4 DEF Open

\* Replacing one target.
LEMMA TargetReplaced ==
  ASSUME NEW t \in TargetMaps, NEW a \in DOMAIN t, NEW target \in TargetRec
  PROVE  LET new == [t EXCEPT ![a] = target]
         IN /\ new \in TargetMaps /\ DOMAIN new = DOMAIN t
            /\ new[a] = target /\ \A b \in DOMAIN t \ {a} : new[b] = t[b]
<1> DEFINE new == [t EXCEPT ![a] = target]
<1>1. /\ t = [b \in DOMAIN t |-> t[b]] /\ DOMAIN t \subseteq Agents
      /\ \A b \in DOMAIN t : t[b] \in TargetRec
  BY TargetMapsAre
<1>2. /\ DOMAIN new = DOMAIN t /\ new = [b \in DOMAIN new |-> new[b]]
      /\ new[a] = target /\ \A b \in DOMAIN t \ {a} : new[b] = t[b]
  BY <1>1
<1>3. \A b \in DOMAIN new : new[b] \in TargetRec
  BY <1>1, <1>2
<1> HIDE DEF new
<1>4. new \in TargetMaps
  BY <1>1, <1>2, <1>3, TargetMapsAre
<1> QED BY <1>2, <1>4 DEF new

\* Writing a target and the state that follows from it keeps a run sound.
LEMMA StateFollows ==
  ASSUME NEW run \in RunRec, Sound(run), ~run.pending, NEW t \in TargetMaps,
         \A a \in DOMAIN t : t[a].revisable => t[a].state = "cancelled"
  PROVE  LET new == [run EXCEPT !.targets = t, !.state = aggregateAsyncRunState(t)]
         IN /\ new \in RunRec /\ Sound(new)
            /\ new.targets = t /\ new.state = aggregateAsyncRunState(t)
            /\ new.contract = run.contract /\ new.pending = run.pending
            /\ new.result = run.result /\ new.torn = run.torn
            /\ new.depth = run.depth /\ new.parent = run.parent /\ new.child = run.child
<1> DEFINE state == aggregateAsyncRunState(t)
           new == [run EXCEPT !.targets = t, !.state = state]
<1>1. /\ state \in RunStates \ {"completed_unmet"}
      /\ state \in RunEnd => \A a \in DOMAIN t : ~Open(t[a])
      /\ state = "completed" => \A a \in DOMAIN t : t[a].state = "completed"
  BY AggregateSays
<1> HIDE DEF state
<1>2. new \in RunRec
  BY <1>1 DEF RunRec
<1>3. /\ new.targets = t /\ new.state = state
      /\ new.contract = run.contract /\ new.pending = run.pending
      /\ new.result = run.result /\ new.torn = run.torn
      /\ new.depth = run.depth /\ new.parent = run.parent /\ new.child = run.child
  BY DEF RunRec
<1> HIDE DEF new
<1>4. Sound(new)
  BY <1>1, <1>3 DEF Sound
<1> QED BY <1>2, <1>3, <1>4 DEF new, state

\* transitionAsyncRunTarget: the target is written, or the run stays as it is
\* because the target has ended for good; a completed run always stays.
LEMMA TransitionSays ==
  ASSUME NEW run \in RunRec, Sound(run), NEW a \in DOMAIN run.targets,
         NEW target, Writable(target)
  PROVE  LET new == transitionAsyncRunTarget(run, a, target)
         IN /\ new \in RunRec /\ Sound(new)
            /\ DOMAIN new.targets = DOMAIN run.targets
            /\ \A b \in DOMAIN run.targets \ {a} : new.targets[b] = run.targets[b]
            /\ \/ /\ new = run /\ ~Open(run.targets[a])
               \/ /\ new.targets[a] = target
                  /\ new.state = aggregateAsyncRunState(new.targets)
            /\ run.state \in {"completed", "completed_unmet"} => new = run
            /\ new.contract = run.contract /\ new.pending = run.pending
            /\ new.result = run.result /\ new.torn = run.torn
            /\ new.depth = run.depth /\ new.parent = run.parent /\ new.child = run.child
<1> DEFINE new == transitionAsyncRunTarget(run, a, target)
           t == [run.targets EXCEPT ![a] = target]
<1>1. run.targets \in TargetMaps
  BY DEF RunRec
<1>2. target \in TargetRec /\ (target.revisable => target.state = "cancelled")
  BY DEF Writable
<1>3. /\ t \in TargetMaps /\ DOMAIN t = DOMAIN run.targets
      /\ t[a] = target /\ \A b \in DOMAIN run.targets \ {a} : t[b] = run.targets[b]
  BY <1>1, <1>2, TargetReplaced
<1>4. CASE Open(run.targets[a]) \/ run.targets[a].revisable
  <2>1. new = [run EXCEPT !.targets = t, !.state = aggregateAsyncRunState(t)]
    BY <1>4 DEF transitionAsyncRunTarget
  <2>2. run.targets[a].state # "completed"
    BY <1>4 DEF Open, TargetEnd, Sound
  <2>3. run.state \notin {"completed", "completed_unmet"}
    BY <2>2 DEF Sound
  <2>4. ~run.pending
    BY <2>3 DEF Sound
  <2>5. \A b \in DOMAIN t : t[b].revisable => t[b].state = "cancelled"
    BY <1>2, <1>3 DEF Sound
  <2> HIDE DEF t
  <2>6. /\ new \in RunRec /\ Sound(new)
        /\ new.targets = t /\ new.state = aggregateAsyncRunState(t)
        /\ new.contract = run.contract /\ new.pending = run.pending
        /\ new.result = run.result /\ new.torn = run.torn
        /\ new.depth = run.depth /\ new.parent = run.parent /\ new.child = run.child
    <3> HIDE DEF new
    <3> QED BY <1>3, <2>1, <2>4, <2>5, StateFollows
  <2> QED BY <1>3, <2>3, <2>6
<1>5. CASE ~(Open(run.targets[a]) \/ run.targets[a].revisable)
  BY <1>5 DEF transitionAsyncRunTarget
<1> QED BY <1>4, <1>5

\* finalizeAsyncRunDeliveryContract.
LEMMA FinalizeSays ==
  ASSUME NEW run \in RunRec, Sound(run), NEW result \in Results \ {"none"}
  PROVE  LET new == finalizeAsyncRunDeliveryContract(run, result)
         IN /\ new \in RunRec /\ Sound(new) /\ Later(run, new)
            /\ new.targets = run.targets /\ ~new.pending
            /\ new.contract = run.contract /\ new.torn = run.torn
            /\ new.child = run.child
            /\ new.result = IF run.result = "none" THEN result ELSE run.result
            /\ new.state = IF new.result = "unmet" /\ run.state = "completed"
                           THEN "completed_unmet" ELSE run.state
<1> DEFINE kept == IF run.result = "none" THEN result ELSE run.result
           state == IF kept = "unmet" /\ run.state = "completed"
                    THEN "completed_unmet" ELSE run.state
           new == finalizeAsyncRunDeliveryContract(run, result)
<1>1. run.result \in Results /\ run.state \in RunStates
  BY DEF RunRec
<1>2. kept \in Results \ {"none"} /\ state \in RunStates
  BY <1>1 DEF RunStates, RunEnd
<1>3. new = [run EXCEPT !.pending = FALSE, !.result = kept, !.state = state]
  BY DEF finalizeAsyncRunDeliveryContract, RunRec
<1>4. run.result # "none" => kept = run.result
  OBVIOUS
<1>5. /\ state \in RunEnd => run.state \in RunEnd
      /\ state \in {"completed", "completed_unmet"} =>
           run.state \in {"completed", "completed_unmet"}
      /\ run.state = "completed" => state \in {"completed", "completed_unmet"}
      /\ run.state = "completed_unmet" => state = "completed_unmet"
  BY DEF RunEnd
<1>6. state = IF kept = "unmet" /\ run.state = "completed"
              THEN "completed_unmet" ELSE run.state
  OBVIOUS
<1>7. kept = IF run.result = "none" THEN result ELSE run.result
  OBVIOUS
<1> HIDE DEF kept, state, new
<1>8. new \in RunRec
  BY <1>2, <1>3 DEF RunRec
<1>9. /\ new.targets = run.targets /\ ~new.pending /\ new.result = kept
      /\ new.state = state /\ new.contract = run.contract /\ new.torn = run.torn
      /\ new.child = run.child /\ new.depth = run.depth /\ new.parent = run.parent
  BY <1>3 DEF RunRec
<1>10. Sound(new)
  BY <1>5, <1>9 DEF Sound
<1>11. Later(run, new)
  BY <1>4, <1>5, <1>9 DEF Later
<1> QED BY <1>6, <1>7, <1>8, <1>9, <1>10, <1>11 DEF new

\* handleTerminalDeliveryContract settles a run, whoever calls it.
LEMMA HandleSays ==
  ASSUME NEW run \in RunRec, Sound(run), NEW bound \in BOOLEAN
  PROVE  LET new == handleTerminalDeliveryContract(run, bound)
         IN /\ new \in RunRec /\ Sound(new) /\ Later(run, new)
            /\ Unsettled(new) => new.pending
            /\ new.targets = run.targets /\ new.state = run.state
            /\ new.child = run.child
            /\ new.result # run.result => ~(run.state = "completed" /\ bound)
            /\ new.pending =>
                 run.pending \/ (bound /\ Unsettled(run) /\ run.state = "completed")
<1> DEFINE new == handleTerminalDeliveryContract(run, bound)
<1>1. CASE ~Unsettled(run)
  <2>1. new = run
    BY <1>1 DEF handleTerminalDeliveryContract
  <2> QED BY <1>1, <2>1 DEF Later
<1>2. CASE Unsettled(run) /\ run.state = "completed" /\ bound
  <2>1. new = [run EXCEPT !.pending = TRUE]
    BY <1>2 DEF handleTerminalDeliveryContract
  <2>2. new \in RunRec
    BY <2>1 DEF RunRec
  <2>3. /\ new.pending /\ new.targets = run.targets /\ new.state = run.state
        /\ new.result = run.result /\ new.child = run.child
        /\ new.depth = run.depth /\ new.parent = run.parent
    BY <2>1 DEF RunRec
  <2>4. Sound(new)
    BY <1>2, <2>3 DEF Sound, Unsettled
  <2>5. Later(run, new)
    BY <2>3 DEF Later
  <2> QED BY <1>2, <2>2, <2>3, <2>4, <2>5
<1>3. CASE Unsettled(run) /\ ~(run.state = "completed" /\ bound)
  <2>1. new = finalizeAsyncRunDeliveryContract(run, "unknown")
    BY <1>3 DEF handleTerminalDeliveryContract
  <2>2. "unknown" \in Results \ {"none"} /\ run.result = "none"
    BY <1>3 DEF Results, Unsettled
  <2> HIDE DEF new
  <2>3. /\ new \in RunRec /\ Sound(new) /\ Later(run, new)
        /\ new.targets = run.targets /\ ~new.pending /\ new.child = run.child
        /\ new.result = "unknown" /\ new.state = run.state
    BY <2>1, <2>2, FinalizeSays
  <2> QED BY <1>3, <2>3 DEF Unsettled, new
<1> QED BY <1>1, <1>2, <1>3

\* With a binding, a completed run is left to an evaluation.
LEMMA BoundSays ==
  ASSUME NEW run \in RunRec, Sound(run)
  PROVE  LET new == handleTerminalDeliveryContract(run, TRUE)
         IN /\ new.result # run.result => run.state # "completed"
            /\ new.pending => run.pending \/ (Unsettled(run) /\ run.state = "completed")
<1>1. CASE ~Unsettled(run)
  BY <1>1 DEF handleTerminalDeliveryContract
<1>2. CASE Unsettled(run) /\ run.state = "completed"
  <2>1. [run EXCEPT !.pending = TRUE].result = run.result
    BY DEF RunRec
  <2> QED BY <1>2, <2>1 DEF handleTerminalDeliveryContract
<1>3. CASE Unsettled(run) /\ run.state # "completed"
  <2>1. "unknown" \in Results \ {"none"}
    BY DEF Results
  <2>2. ~finalizeAsyncRunDeliveryContract(run, "unknown").pending
    BY <2>1, FinalizeSays
  <2> QED BY <1>3, <2>2 DEF handleTerminalDeliveryContract
<1> QED BY <1>1, <1>2, <1>3

\* A new run (appendCompleteWithAsyncRun) is open, unless it has no targets.
LEMMA NewRunSays ==
  ASSUME NEW contract \in BOOLEAN, NEW depth \in Nat, NEW parent \in Nat,
         NEW targets \in SUBSET Agents
  PROVE  LET new == NewRun(contract, depth, parent, targets)
         IN /\ new \in RunRec /\ Sound(new) /\ Settled(new)
            /\ DOMAIN new.targets = targets
            /\ \A a \in targets : Open(new.targets[a])
            /\ new.depth = depth /\ new.parent = parent /\ new.child = Nobody
            /\ new.result = "none" /\ ~new.pending
            /\ targets # {} => new.state \notin RunEnd
            /\ new.state \notin {"completed", "completed_unmet"}
<1> DEFINE queued == [a \in targets |-> To("queued")]
           state == aggregateAsyncRunState(queued)
           new == NewRun(contract, depth, parent, targets)
<1>1. /\ To("queued") \in TargetRec /\ Open(To("queued"))
      /\ ~To("queued").revisable /\ To("queued").state = "queued"
  BY DEF To, TargetRec, TargetStates, Open, TargetEnd
<1>2. /\ DOMAIN queued = targets /\ queued = [a \in DOMAIN queued |-> queued[a]]
      /\ \A a \in targets : queued[a] = To("queued")
  OBVIOUS
<1>3. queued \in TargetMaps
  BY <1>1, <1>2, TargetMapsAre
<1>4. /\ state \in RunStates
      /\ state \in RunEnd => \A a \in DOMAIN queued : ~Open(queued[a])
  BY <1>3, AggregateSays
<1>5. state \notin {"completed", "completed_unmet"}
  <2>1. {queued[a].state : a \in DOMAIN queued} # {"completed"}
    BY <1>1, <1>2
  <2> QED BY <2>1 DEF aggregateAsyncRunState
<1> HIDE DEF state
<1>6. new = [targets |-> queued, state |-> state,
             contract |-> contract, pending |-> FALSE, result |-> "none",
             depth |-> depth, parent |-> parent, child |-> Nobody,
             decided |-> FALSE, abandoned |-> FALSE, torn |-> FALSE]
  BY DEF NewRun, state
<1> HIDE DEF queued, new
<1>7. new \in RunRec
  BY <1>3, <1>4, <1>6 DEF RunRec, Results, Nobody
<1>8. /\ new.targets = queued /\ new.state = state /\ new.depth = depth
      /\ new.parent = parent /\ new.child = Nobody /\ new.result = "none" /\ ~new.pending
  BY <1>6
<1>9. targets # {} => state \notin RunEnd
  BY <1>1, <1>2, <1>4
<1>10. Sound(new)
  BY <1>1, <1>2, <1>4, <1>5, <1>8 DEF Sound
<1>11. Settled(new)
  BY <1>2, <1>8, <1>9 DEF Settled, Unsettled
<1> QED BY <1>1, <1>2, <1>5, <1>7, <1>8, <1>9, <1>10, <1>11 DEF new

\* The outcomes that the binder writes.
LEMMA Outcome ==
  /\ \A st \in TargetStates : Writable(To(st)) /\ To(st).state = st
  /\ Writable(Cut) /\ Cut.state = "cancelled" /\ ~Open(Cut)
  /\ \A st \in TargetEnd : ~Open(To(st)) /\ st \in TargetStates
BY DEF To, Cut, Writable, TargetRec, TargetStates, TargetEnd, Open

\* A target without a binding ends at once (rejectAsyncTarget).
LEMMA RefusedSays ==
  ASSUME NEW run \in RunRec, Sound(run), NEW a \in DOMAIN run.targets,
         NEW state \in TargetEnd
  PROVE  LET new == Refused(run, a, state)
         IN /\ new \in RunRec /\ Sound(new) /\ Settled(new) /\ Later(run, new)
            /\ ~Open(new.targets[a])
            /\ \A b \in DOMAIN run.targets \ {a} : new.targets[b] = run.targets[b]
            /\ new.child = run.child
            /\ new.pending => run.pending
            /\ Open(run.targets[a]) => new.targets[a] = To(state)
<1> DEFINE moved == transitionAsyncRunTarget(run, a, To(state))
           new == Refused(run, a, state)
<1>1. Writable(To(state)) /\ ~Open(To(state))
  BY Outcome
<1>2. /\ moved \in RunRec /\ Sound(moved)
      /\ DOMAIN moved.targets = DOMAIN run.targets
      /\ \A b \in DOMAIN run.targets \ {a} : moved.targets[b] = run.targets[b]
      /\ (moved = run /\ ~Open(run.targets[a])) \/ moved.targets[a] = To(state)
      /\ run.state \in {"completed", "completed_unmet"} => moved = run
      /\ moved.pending = run.pending /\ moved.result = run.result
      /\ moved.depth = run.depth /\ moved.parent = run.parent /\ moved.child = run.child
  BY <1>1, TransitionSays
<1>3. new = handleTerminalDeliveryContract(moved, FALSE)
  BY DEF Refused
<1> HIDE DEF moved, new
<1>4. /\ new \in RunRec /\ Sound(new) /\ Later(moved, new)
      /\ Unsettled(new) => new.pending
      /\ new.targets = moved.targets /\ new.state = moved.state /\ new.child = moved.child
      /\ new.pending => moved.pending
  BY <1>2, <1>3, HandleSays
<1>5. Settled(new)
  BY <1>4 DEF Settled
<1>6. Later(run, new)
  BY <1>2, <1>4 DEF Later
<1> QED BY <1>1, <1>2, <1>4, <1>5, <1>6 DEF new

\* A restart (recoverAsyncRuns) leaves no target open and no contract pending.
LEMMA RecoverSays ==
  ASSUME NEW run \in RunRec, Sound(run), Settled(run)
  PROVE  LET new == recoverAsyncRun(run)
         IN /\ new \in RunRec /\ Sound(new) /\ Settled(new) /\ Later(run, new)
            /\ \A a \in DOMAIN run.targets : ~Open(new.targets[a])
            /\ ~new.pending /\ new.child = run.child
<1> DEFINE new == recoverAsyncRun(run)
<1>1. CASE run.state \notin RunEnd
  <2> DEFINE t == [a \in DOMAIN run.targets |->
                     IF Open(run.targets[a]) THEN Cut ELSE run.targets[a]]
             cut == CancelOpen(run)
  <2>1. /\ \A a \in DOMAIN run.targets : run.targets[a] \in TargetRec
        /\ DOMAIN run.targets \subseteq Agents
    BY TargetMapsAre DEF RunRec
  <2>2. Cut \in TargetRec
    BY Outcome DEF Writable
  <2>3. DOMAIN t = DOMAIN run.targets /\ t = [a \in DOMAIN t |-> t[a]]
    OBVIOUS
  <2>4. \A a \in DOMAIN t : t[a] \in TargetRec
    BY <2>1, <2>2
  <2>5. \A a \in DOMAIN t : t[a].revisable => t[a].state = "cancelled"
    BY Outcome DEF Sound
  <2>6. \A a \in DOMAIN t : ~Open(t[a])
    BY Outcome
  <2>7. cut = [run EXCEPT !.targets = t, !.state = aggregateAsyncRunState(t)]
    BY DEF CancelOpen
  <2>8. new = Abandon(cut)
    BY <1>1 DEF recoverAsyncRun
  <2>9. ~run.pending /\ run.state \notin {"completed", "completed_unmet"}
    BY <1>1 DEF Sound, RunEnd
  <2> HIDE DEF t, cut, new
  <2>10. t \in TargetMaps
    BY <2>1, <2>3, <2>4, TargetMapsAre
  <2>11. /\ cut \in RunRec /\ Sound(cut) /\ cut.targets = t
         /\ cut.contract = run.contract /\ cut.pending = run.pending
         /\ cut.result = run.result /\ cut.torn = run.torn
         /\ cut.depth = run.depth /\ cut.parent = run.parent /\ cut.child = run.child
    BY <2>5, <2>7, <2>9, <2>10, StateFollows
  <2>12. CASE cut.contract /\ cut.result = "none"
    <3>1. new = [cut EXCEPT !.abandoned = TRUE, !.result = "unknown"]
      BY <2>8, <2>12 DEF Abandon
    <3>2. new \in RunRec
      BY <2>11, <3>1 DEF RunRec, Results
    <3>3. /\ new.targets = t /\ new.state = cut.state /\ new.result = "unknown"
          /\ new.pending = cut.pending /\ new.depth = run.depth
          /\ new.parent = run.parent /\ new.child = run.child
      BY <2>11, <3>1 DEF RunRec
    <3>4. Sound(new) /\ Settled(new) /\ ~new.pending
      BY <2>9, <2>11, <3>3 DEF Sound, Settled, Unsettled
    <3>5. Later(run, new)
      BY <2>3, <2>9, <2>11, <2>12, <3>3 DEF Later
    <3> QED BY <2>3, <2>6, <3>2, <3>3, <3>4, <3>5 DEF new
  <2>13. CASE ~(cut.contract /\ cut.result = "none")
    <3>1. new = cut
      BY <2>8, <2>13 DEF Abandon
    <3>2. Settled(new)
      BY <2>13, <3>1 DEF Settled, Unsettled
    <3>3. Later(run, new)
      BY <2>3, <2>9, <2>11, <3>1 DEF Later
    <3> QED BY <2>3, <2>6, <2>9, <2>11, <3>1, <3>2, <3>3 DEF new
  <2> QED BY <2>12, <2>13
<1>2. CASE run.state \in RunEnd /\ run.pending
  <2>1. run.result = "none" /\ run.state = "completed"
    BY <1>2 DEF Sound
  <2>2. new = [Abandon(run) EXCEPT !.pending = FALSE]
    BY <1>2 DEF recoverAsyncRun
  <2>3. \A a \in DOMAIN run.targets : ~Open(run.targets[a])
    BY <1>2 DEF Sound
  <2>4. PICK mid : mid = Abandon(run)
    OBVIOUS
  <2>5. mid \in RunRec
    BY <2>4 DEF Abandon, RunRec, Results
  <2>6. /\ mid.targets = run.targets /\ mid.state = run.state
        /\ mid.contract = run.contract /\ mid.torn = run.torn
        /\ mid.depth = run.depth /\ mid.parent = run.parent /\ mid.child = run.child
        /\ run.contract => mid.result = "unknown"
    BY <2>1, <2>4 DEF Abandon, RunRec
  <2> HIDE DEF new
  <2>7. new = [mid EXCEPT !.pending = FALSE]
    BY <2>2, <2>4
  <2>8. new \in RunRec
    BY <2>5, <2>7 DEF RunRec
  <2>9. /\ new.targets = run.targets /\ new.state = run.state
        /\ new.contract = run.contract /\ ~new.pending
        /\ new.depth = run.depth /\ new.parent = run.parent /\ new.child = run.child
        /\ run.contract => new.result = "unknown"
    BY <2>5, <2>6, <2>7 DEF RunRec
  <2>10. Sound(new)
    BY <2>9 DEF Sound
  <2>11. Settled(new)
    BY <2>9 DEF Settled, Unsettled
  <2>12. Later(run, new)
    BY <2>1, <2>9 DEF Later
  <2> QED BY <2>3, <2>8, <2>9, <2>10, <2>11, <2>12 DEF new
<1>3. CASE run.state \in RunEnd /\ ~run.pending
  <2>1. new = run
    BY <1>3 DEF recoverAsyncRun
  <2>2. \A a \in DOMAIN run.targets : ~Open(run.targets[a])
    BY <1>3 DEF Sound
  <2>3. Later(run, run)
    BY DEF Later
  <2> QED BY <1>3, <2>1, <2>2, <2>3
<1> QED BY <1>1, <1>2, <1>3

-----------------------------------------------------------------------------
(* The inductive invariant, and what an action has to show of each part.   *)

StoreOK(db) ==
  db \in Seq(RunRec) /\ \A r \in DOMAIN db : Sound(db[r]) /\ Settled(db[r])

\* The runs that have a target for a.
Mine(a) == {r \in DOMAIN runs : a \in DOMAIN runs[r].targets}

SteerRec(mine) ==
  [run : mine \cup {Nobody}, into : mine \cup {Nobody, Foreign},
   live : BOOLEAN, mapped : BOOLEAN]

AgentRec(mine) ==
  [routing : SUBSET mine, queued : SUBSET mine,
   turn : mine \cup {Nobody, Foreign}, absorbed : SUBSET mine,
   steering : SUBSET mine, steer : SteerRec(mine),
   drained : SUBSET mine, late : SUBSET mine]

\* What an agent holds is its own; a steer that can be looked up went into a
\* turn of a run, and only a live turn has steers waiting.
HoldsOwn(ag, mine) ==
  /\ ag \in AgentRec(mine)
  /\ ag.steer.mapped => ag.steer.into \in mine
  /\ ag.steer.run = Nobody => ag.steer = NoSteer
  /\ ag.steering # {} => ag.turn # Nobody

AgentsOK ==
  agent = [a \in Agents |-> agent[a]] /\ \A a \in Agents : HoldsOwn(agent[a], Mine(a))

EvalRec == [run : DOMAIN runs, by : Agents, step : {"probe", "post"}, again : BOOLEAN]

BudgetOK == budget \in [faults : Int, retried : BOOLEAN]

RunInv ==
  /\ StoreOK(runs) /\ AgentsOK /\ BudgetOK
  /\ evals \subseteq EvalRec /\ PendingHasEvaluator

\* No run is forgotten, and each goes on as the run it was.
Grows ==
  /\ StoreOK(runs')
  /\ DOMAIN runs \subseteq DOMAIN runs'
  /\ \A r \in DOMAIN runs : Later(runs[r], runs'[r])

LEMMA StoreFacts ==
  ASSUME NEW db, StoreOK(db)
  PROVE  /\ Len(db) \in Nat /\ DOMAIN db = 1..Len(db)
         /\ \A r \in DOMAIN db : r \in Nat \ {Nobody} /\ r # Foreign
         /\ \A r \in DOMAIN db : db[r] \in RunRec /\ Sound(db[r]) /\ Settled(db[r])
         /\ \A r \in DOMAIN db : db[r].targets \in TargetMaps
         /\ \A r \in DOMAIN db : DOMAIN db[r].targets \subseteq Agents
         /\ db = [r \in DOMAIN db |-> db[r]]
<1>1. /\ Len(db) \in Nat /\ DOMAIN db = 1..Len(db)
      /\ db \in [1..Len(db) -> RunRec]
      /\ \A r \in DOMAIN db : db[r] \in RunRec /\ Sound(db[r]) /\ Settled(db[r])
  BY DEF StoreOK
<1>2. \A r \in DOMAIN db : r \in Nat \ {Nobody} /\ r # Foreign
  BY <1>1 DEF Nobody, Foreign
<1>3. \A r \in DOMAIN db : db[r].targets \in TargetMaps
  BY <1>1 DEF RunRec
<1>4. \A r \in DOMAIN db : DOMAIN db[r].targets \subseteq Agents
  BY <1>3, TargetMapsAre
<1>5. db = [r \in DOMAIN db |-> db[r]]
  BY <1>1
<1> QED BY <1>1, <1>2, <1>3, <1>4, <1>5

LEMMA StillRuns ==
  ASSUME StoreOK(runs), runs' = runs
  PROVE  Grows
BY DEF Grows, Later

\* One run is written.
LEMMA RunWritten ==
  ASSUME StoreOK(runs), NEW r \in DOMAIN runs, NEW new \in RunRec,
         Sound(new), Settled(new), Later(runs[r], new),
         runs' = [runs EXCEPT ![r] = new]
  PROVE  /\ Grows /\ DOMAIN runs' = DOMAIN runs /\ runs'[r] = new
         /\ \A q \in DOMAIN runs \ {r} : runs'[q] = runs[q]
<1>1. /\ Len(runs) \in Nat /\ DOMAIN runs = 1..Len(runs)
      /\ \A q \in DOMAIN runs : runs[q] \in RunRec /\ Sound(runs[q]) /\ Settled(runs[q])
  BY StoreFacts
<1>2. /\ DOMAIN runs' = DOMAIN runs /\ runs'[r] = new
      /\ \A q \in DOMAIN runs \ {r} : runs'[q] = runs[q]
  BY <1>1 DEF StoreOK
<1>3. runs' \in Seq(RunRec)
  BY <1>1, <1>2 DEF StoreOK
<1>4. \A q \in DOMAIN runs : Later(runs[q], runs'[q])
  BY <1>2 DEF Later
<1> QED BY <1>1, <1>2, <1>3, <1>4 DEF Grows, StoreOK

\* One run is added.
LEMMA RunAdded ==
  ASSUME NEW db, StoreOK(db), NEW new \in RunRec, Sound(new), Settled(new)
  PROVE  /\ StoreOK(Append(db, new))
         /\ DOMAIN Append(db, new) = DOMAIN db \cup {Len(db) + 1}
         /\ Len(db) + 1 \notin DOMAIN db
         /\ Append(db, new)[Len(db) + 1] = new
         /\ \A q \in DOMAIN db : Append(db, new)[q] = db[q]
<1>1. /\ Len(db) \in Nat /\ DOMAIN db = 1..Len(db)
      /\ \A q \in DOMAIN db : db[q] \in RunRec /\ Sound(db[q]) /\ Settled(db[q])
  BY StoreFacts
<1>2. db \in Seq(RunRec)
  BY DEF StoreOK
<1>3. PICK next : next = Append(db, new)
  OBVIOUS
<1>4. next \in Seq(RunRec) /\ DOMAIN next = 1..(Len(db) + 1)
  BY <1>2, <1>3
<1>5. next[Len(db) + 1] = new /\ \A q \in 1..Len(db) : next[q] = db[q]
  BY <1>2, <1>3
<1>6. DOMAIN next = DOMAIN db \cup {Len(db) + 1} /\ Len(db) + 1 \notin DOMAIN db
  BY <1>1, <1>4
<1>7. StoreOK(next)
  BY <1>1, <1>4, <1>5, <1>6 DEF StoreOK
<1> QED BY <1>1, <1>3, <1>5, <1>6, <1>7

\* An agent's runs stay its own.
LEMMA MineGrows ==
  ASSUME Grows, NEW a
  PROVE  Mine(a) \subseteq Mine(a)'
BY DEF Grows, Later, Mine

LEMMA HoldsMore ==
  ASSUME NEW mine, NEW more, mine \subseteq more, NEW ag, HoldsOwn(ag, mine)
  PROVE  HoldsOwn(ag, more)
<1>1. ag \in AgentRec(mine)
  BY DEF HoldsOwn
<1>2. SteerRec(mine) \subseteq SteerRec(more)
  BY DEF SteerRec
<1>3. ag \in AgentRec(more)
  BY <1>1, <1>2 DEF AgentRec
<1> QED BY <1>3 DEF HoldsOwn

LEMMA StillAgents ==
  ASSUME AgentsOK, Grows, agent' = agent
  PROVE  AgentsOK'
<1>1. \A a \in Agents : HoldsOwn(agent'[a], Mine(a)')
  BY MineGrows, HoldsMore DEF AgentsOK
<1> QED BY <1>1 DEF AgentsOK

\* One agent is changed.
LEMMA AgentChanged ==
  ASSUME AgentsOK, Grows, NEW a \in Agents, NEW ag, HoldsOwn(ag, Mine(a)'),
         agent' = [agent EXCEPT ![a] = ag]
  PROVE  AgentsOK' /\ agent'[a] = ag /\ \A b \in Agents \ {a} : agent'[b] = agent[b]
<1>1. /\ agent' = [b \in Agents |-> agent'[b]]
      /\ agent'[a] = ag /\ \A b \in Agents \ {a} : agent'[b] = agent[b]
  BY DEF AgentsOK
<1>2. \A b \in Agents : HoldsOwn(agent'[b], Mine(b)')
  BY <1>1, MineGrows, HoldsMore DEF AgentsOK
<1> QED BY <1>1, <1>2 DEF AgentsOK

\* A fresh agent holds nothing.
LEMMA FreshHolds ==
  ASSUME NEW mine
  PROVE  HoldsOwn(NewAgent, mine)
<1>1. NoSteer \in SteerRec(mine) /\ ~NoSteer.mapped
  BY DEF NoSteer, SteerRec
<1>2. NewAgent \in AgentRec(mine)
  BY <1>1 DEF NewAgent, AgentRec
<1>3. NewAgent.steer = NoSteer /\ NewAgent.steering = {}
  BY DEF NewAgent
<1> QED BY <1>1, <1>2, <1>3 DEF HoldsOwn

LEMMA EvalsKept ==
  ASSUME evals \subseteq EvalRec, Grows, NEW es, es \subseteq evals
  PROVE  es \subseteq EvalRec'
BY DEF EvalRec, Grows

LEMMA FaultSpent ==
  ASSUME BudgetOK, Fault
  PROVE  BudgetOK' /\ budget'.retried = budget.retried
BY DEF BudgetOK, Fault

-----------------------------------------------------------------------------
(* Settle: the outcome of a turn, a steer or an approval.                  *)

\* One run of Settle, between its old and its new record.
Moved(a, r, target, new) ==
  LET run == runs[r]
  IN /\ new \in RunRec /\ Sound(new) /\ Settled(new) /\ Later(run, new)
     /\ \A b \in DOMAIN run.targets \ {a} : new.targets[b] = run.targets[b]
     /\ \/ new.targets = run.targets /\ ~Open(run.targets[a])
        \/ new.targets[a] = target
     /\ new.child = run.child
     /\ run.state = "completed" => new.result = run.result /\ new.state = "completed"
     /\ run.state = "completed_unmet" => new.targets = run.targets

\* What a step of Settle does to the runs and their evaluations.
SettleDone(a, ts) ==
  /\ Grows /\ DOMAIN runs' = DOMAIN runs
  /\ \A r \in DOMAIN runs \ DOMAIN ts : runs'[r] = runs[r]
  /\ \A r \in DOMAIN ts : Moved(a, r, ts[r], runs'[r])
  /\ evals \subseteq evals' /\ evals' \subseteq EvalRec' /\ PendingHasEvaluator'
  /\ \A e \in evals' \ evals :
       /\ e.run \in DOMAIN ts /\ e.step = "probe" /\ runs'[e.run].result = "none"
       /\ runs'[e.run].state = "completed" /\ runs[e.run].result = "none"
  /\ \A e, f \in evals' \ evals : e.run = f.run => e = f

LEMMA SettleSays ==
  ASSUME StoreOK(runs), evals \subseteq EvalRec, PendingHasEvaluator,
         NEW a \in Agents, NEW ts, DOMAIN ts \subseteq Mine(a),
         \A r \in DOMAIN ts : Writable(ts[r]), Settle(a, ts)
  PROVE  SettleDone(a, ts)
<1> DEFINE move(r) == transitionAsyncRunTarget(runs[r], a, ts[r])
           moved == [r \in DOMAIN ts |-> move(r)]
           started == {r \in DOMAIN ts : Unsettled(moved[r]) /\ moved[r].state = "completed"}
           born(r) == [run |-> r, by |-> a, step |-> "probe",
                       again |-> \E e \in evals : e.run = r]
<1>1. \A r \in DOMAIN ts : r \in DOMAIN runs /\ a \in DOMAIN runs[r].targets
  BY DEF Mine
<1>2. \A r \in DOMAIN runs : runs[r] \in RunRec /\ Sound(runs[r]) /\ Settled(runs[r])
  BY StoreFacts
<1>3. /\ runs' = [r \in DOMAIN runs |->
                    IF r \in DOMAIN ts THEN handleTerminalDeliveryContract(moved[r], TRUE)
                    ELSE runs[r]]
      /\ evals' = evals \cup {born(r) : r \in started}
  BY DEF Settle
<1>4. \A r \in DOMAIN ts : moved[r] = move(r)
  OBVIOUS
<1> HIDE DEF moved
<1>5. ASSUME NEW r \in DOMAIN ts
      PROVE  /\ moved[r] \in RunRec /\ Sound(moved[r])
             /\ DOMAIN moved[r].targets = DOMAIN runs[r].targets
             /\ \A b \in DOMAIN runs[r].targets \ {a} :
                  moved[r].targets[b] = runs[r].targets[b]
             /\ \/ moved[r] = runs[r] /\ ~Open(runs[r].targets[a])
                \/ moved[r].targets[a] = ts[r]
             /\ runs[r].state \in {"completed", "completed_unmet"} => moved[r] = runs[r]
             /\ moved[r].pending = runs[r].pending /\ moved[r].result = runs[r].result
             /\ moved[r].depth = runs[r].depth /\ moved[r].parent = runs[r].parent
             /\ moved[r].child = runs[r].child
  <2>1. runs[r] \in RunRec /\ Sound(runs[r]) /\ a \in DOMAIN runs[r].targets
    BY <1>1, <1>2
  <2>2. moved[r] = transitionAsyncRunTarget(runs[r], a, ts[r])
    BY <1>4
  <2>3. Writable(ts[r])
    OBVIOUS
  <2> QED BY <2>1, <2>2, <2>3, TransitionSays
<1>6. ASSUME NEW r \in DOMAIN ts
      PROVE  /\ runs'[r] = handleTerminalDeliveryContract(moved[r], TRUE)
             /\ runs'[r] \in RunRec /\ Sound(runs'[r]) /\ Later(moved[r], runs'[r])
             /\ Unsettled(runs'[r]) => runs'[r].pending
             /\ runs'[r].targets = moved[r].targets /\ runs'[r].state = moved[r].state
             /\ runs'[r].child = moved[r].child
             /\ runs'[r].result # moved[r].result => moved[r].state # "completed"
             /\ runs'[r].pending =>
                  moved[r].pending \/ (Unsettled(moved[r]) /\ moved[r].state = "completed")
  <2>1. runs'[r] = handleTerminalDeliveryContract(moved[r], TRUE)
    BY <1>1, <1>3
  <2>2. moved[r] \in RunRec /\ Sound(moved[r])
    BY <1>5
  <2> HIDE DEF moved
  <2>3. /\ runs'[r] \in RunRec /\ Sound(runs'[r]) /\ Later(moved[r], runs'[r])
        /\ Unsettled(runs'[r]) => runs'[r].pending
        /\ runs'[r].targets = moved[r].targets /\ runs'[r].state = moved[r].state
        /\ runs'[r].child = moved[r].child
    <3>1. PICK bound \in BOOLEAN : bound = TRUE
      OBVIOUS
    <3>2. runs'[r] = handleTerminalDeliveryContract(moved[r], bound)
      BY <2>1, <3>1
    <3> QED BY <2>2, <3>2, HandleSays
  <2>4. /\ runs'[r].result # moved[r].result => moved[r].state # "completed"
        /\ runs'[r].pending =>
             moved[r].pending \/ (Unsettled(moved[r]) /\ moved[r].state = "completed")
    BY <2>1, <2>2, BoundSays
  <2> QED BY <2>1, <2>3, <2>4
<1>7. \A r \in DOMAIN ts : Moved(a, r, ts[r], runs'[r])
  <2> TAKE r \in DOMAIN ts
  <2>1. Later(runs[r], runs'[r])
    <3>1. Later(moved[r], runs'[r])
      BY <1>6
    <3>2. /\ DOMAIN moved[r].targets = DOMAIN runs[r].targets
          /\ runs[r].state \in {"completed", "completed_unmet"} => moved[r] = runs[r]
          /\ moved[r].result = runs[r].result
          /\ moved[r].depth = runs[r].depth /\ moved[r].parent = runs[r].parent
      BY <1>5
    <3> QED BY <3>1, <3>2 DEF Later
  <2>2. Settled(runs'[r])
    BY <1>6 DEF Settled
  <2>3. /\ \A b \in DOMAIN runs[r].targets \ {a} : runs'[r].targets[b] = runs[r].targets[b]
        /\ \/ runs'[r].targets = runs[r].targets /\ ~Open(runs[r].targets[a])
           \/ runs'[r].targets[a] = ts[r]
        /\ runs'[r].child = runs[r].child
    <3>1. /\ runs'[r].targets = moved[r].targets
          /\ runs'[r].child = moved[r].child
      BY <1>6
    <3>2. /\ \A b \in DOMAIN runs[r].targets \ {a} :
               moved[r].targets[b] = runs[r].targets[b]
          /\ \/ moved[r] = runs[r] /\ ~Open(runs[r].targets[a])
             \/ moved[r].targets[a] = ts[r]
          /\ moved[r].child = runs[r].child
      BY <1>5
    <3> QED BY <3>1, <3>2
  <2>4. runs[r].state = "completed" =>
          runs'[r].result = runs[r].result /\ runs'[r].state = "completed"
    BY <1>5, <1>6
  <2>5. runs[r].state = "completed_unmet" => runs'[r].targets = runs[r].targets
    BY <1>5, <1>6
  <2> QED BY <1>6, <2>1, <2>2, <2>3, <2>4, <2>5 DEF Moved
<1>8. DOMAIN runs' = DOMAIN runs /\ \A r \in DOMAIN runs \ DOMAIN ts : runs'[r] = runs[r]
  BY <1>3
<1>9. \A r \in DOMAIN runs :
        runs'[r] \in RunRec /\ Sound(runs'[r]) /\ Settled(runs'[r]) /\ Later(runs[r], runs'[r])
  BY <1>2, <1>7, <1>8 DEF Moved, Later
<1>10. Grows
  <2>1. Len(runs) \in Nat /\ DOMAIN runs = 1..Len(runs)
    BY StoreFacts
  <2>2. runs' = [r \in DOMAIN runs |-> runs'[r]]
    BY <1>3
  <2>3. runs' \in [1..Len(runs) -> RunRec]
    BY <1>9, <2>1, <2>2
  <2>4. runs' \in Seq(RunRec)
    BY <2>1, <2>3
  <2> QED BY <1>8, <1>9, <2>4 DEF Grows, StoreOK
<1>11. \A r \in started : r \in DOMAIN ts /\ Unsettled(moved[r]) /\ moved[r].state = "completed"
  OBVIOUS
<1>12. \A r \in DOMAIN ts :
         Unsettled(moved[r]) /\ moved[r].state = "completed" => r \in started
  OBVIOUS
<1> HIDE DEF started
<1>13. \A e \in evals' \ evals : e.run \in started /\ e = born(e.run)
  BY <1>3
<1>14. evals \subseteq evals'
  BY <1>3
<1>15. \A r \in started : born(r) \in EvalRec
  BY <1>1, <1>11 DEF EvalRec
<1>16. EvalRec' = EvalRec
  BY <1>8 DEF EvalRec
<1>17. evals' \subseteq EvalRec'
  BY <1>3, <1>15, <1>16
<1>18. PendingHasEvaluator'
  <2>1. SUFFICES ASSUME NEW r \in DOMAIN runs, runs'[r].pending
                 PROVE  \E e \in evals' : e.run = r /\ e.step = "probe"
    BY <1>8 DEF PendingHasEvaluator
  <2>2. CASE runs[r].pending
    BY <1>14, <2>2 DEF PendingHasEvaluator
  <2>3. CASE ~runs[r].pending
    <3>1. r \in DOMAIN ts
      BY <1>8, <2>1, <2>3
    <3>2. r \in started
      BY <1>5, <1>6, <1>12, <2>1, <2>3, <3>1
    <3>3. born(r) \in evals' /\ born(r).run = r /\ born(r).step = "probe"
      BY <1>3, <3>2
    <3> QED BY <3>3
  <2> QED BY <2>2, <2>3
<1>19. \A e \in evals' \ evals :
         /\ e.run \in DOMAIN ts /\ e.step = "probe" /\ runs'[e.run].result = "none"
         /\ runs'[e.run].state = "completed" /\ runs[e.run].result = "none"
  <2> TAKE e \in evals' \ evals
  <2>1. e.run \in started /\ e = born(e.run)
    BY <1>13
  <2>2. /\ e.run \in DOMAIN ts /\ Unsettled(moved[e.run])
        /\ moved[e.run].state = "completed"
    BY <1>11, <2>1
  <2>3. moved[e.run].result = "none"
    BY <2>2 DEF Unsettled
  <2>4. /\ runs'[e.run].state = moved[e.run].state
        /\ runs'[e.run].result # moved[e.run].result => moved[e.run].state # "completed"
        /\ moved[e.run].result = runs[e.run].result
    BY <1>5, <1>6, <2>2
  <2>5. e.step = "probe"
    BY <2>1
  <2> QED BY <2>2, <2>3, <2>4, <2>5
<1>20. \A e, f \in evals' \ evals : e.run = f.run => e = f
  BY <1>13
<1> QED BY <1>7, <1>8, <1>10, <1>14, <1>17, <1>18, <1>19, <1>20 DEF SettleDone

-----------------------------------------------------------------------------
(* What each action leaves in its agent's hands, field by field.           *)

Hold(routing, queued, turn, absorbed, steering, steer, drained, late) ==
  [routing |-> routing, queued |-> queued, turn |-> turn, absorbed |-> absorbed,
   steering |-> steering, steer |-> steer, drained |-> drained, late |-> late]

\* The steer of an agent whose next turn begins.
SteerAfter(ag, turn) ==
  LET again == turn = ag.steer.into /\ turn # Foreign
  IN [run |-> ag.steer.run, into |-> ag.steer.into, live |-> again,
      mapped |-> again \/ (ag.steer.mapped /\ ag.steer.into \in ag.drained)]

\* The steer of an agent whose turn is over.
SteerLate(ag) ==
  [run |-> ag.steer.run, into |-> ag.steer.into, live |-> FALSE,
   mapped |-> ag.steer.mapped]

\* Agent a goes on with ag, and no other changes.
AgentIs(a, ag) ==
  /\ agent' = [agent EXCEPT ![a] = ag]
  /\ agent'[a] = ag /\ \A b \in Agents \ {a} : agent'[b] = agent[b]

LEMMA HoldFields ==
  ASSUME NEW mine, NEW ag, HoldsOwn(ag, mine)
  PROVE  /\ ag = Hold(ag.routing, ag.queued, ag.turn, ag.absorbed, ag.steering,
                      ag.steer, ag.drained, ag.late)
         /\ ag.routing \subseteq mine /\ ag.queued \subseteq mine
         /\ ag.absorbed \subseteq mine /\ ag.steering \subseteq mine
         /\ ag.drained \subseteq mine /\ ag.late \subseteq mine
         /\ ag.turn \in mine \cup {Nobody, Foreign}
         /\ ag.steer \in SteerRec(mine)
         /\ ag.steer.run \in mine \cup {Nobody}
         /\ ag.steer.into \in mine \cup {Nobody, Foreign}
         /\ ag.steer.live \in BOOLEAN /\ ag.steer.mapped \in BOOLEAN
         /\ ag.steer = [run |-> ag.steer.run, into |-> ag.steer.into,
                        live |-> ag.steer.live, mapped |-> ag.steer.mapped]
<1>1. ag \in AgentRec(mine)
  BY DEF HoldsOwn
<1>2. ag.steer \in SteerRec(mine)
  BY <1>1 DEF AgentRec
<1>3. /\ ag.steer.run \in mine \cup {Nobody}
      /\ ag.steer.into \in mine \cup {Nobody, Foreign}
      /\ ag.steer.live \in BOOLEAN /\ ag.steer.mapped \in BOOLEAN
      /\ ag.steer = [run |-> ag.steer.run, into |-> ag.steer.into,
                     live |-> ag.steer.live, mapped |-> ag.steer.mapped]
  BY <1>2 DEF SteerRec
<1>4. ag = Hold(ag.routing, ag.queued, ag.turn, ag.absorbed, ag.steering,
                ag.steer, ag.drained, ag.late)
  BY <1>1 DEF AgentRec, Hold
<1> QED BY <1>1, <1>2, <1>3, <1>4 DEF AgentRec

LEMMA HoldHolds ==
  ASSUME NEW mine, NEW routing \in SUBSET mine, NEW queued \in SUBSET mine,
         NEW turn \in mine \cup {Nobody, Foreign}, NEW absorbed \in SUBSET mine,
         NEW steering \in SUBSET mine, NEW steer \in SteerRec(mine),
         NEW drained \in SUBSET mine, NEW late \in SUBSET mine,
         steer.mapped => steer.into \in mine,
         steer.run = Nobody => steer = NoSteer,
         steering # {} => turn # Nobody
  PROVE  HoldsOwn(Hold(routing, queued, turn, absorbed, steering, steer, drained, late), mine)
BY DEF HoldsOwn, Hold, AgentRec

LEMMA BeginSays ==
  ASSUME NEW mine, NEW ag, HoldsOwn(ag, mine), Nobody \notin mine, Foreign \notin mine,
         NEW turn \in mine \cup {Foreign}
  PROVE  /\ Begin(ag, turn) =
              Hold(ag.routing, ag.queued \ {turn}, turn, ag.absorbed, ag.steering,
                   SteerAfter(ag, turn), ag.drained, ag.late)
         /\ SteerAfter(ag, turn) \in SteerRec(mine)
         /\ SteerAfter(ag, turn).mapped => ag.steer.into \in mine
         /\ ag.steer = NoSteer => SteerAfter(ag, turn) = NoSteer
<1> DEFINE again == turn = ag.steer.into /\ turn # Foreign
           mapped == again \/ (ag.steer.mapped /\ ag.steer.into \in ag.drained)
<1>1. /\ ag \in AgentRec(mine) /\ ag.steer \in SteerRec(mine)
      /\ ag.steer.run \in mine \cup {Nobody}
      /\ ag.steer.into \in mine \cup {Nobody, Foreign}
      /\ ag.steer.mapped => ag.steer.into \in mine
  BY HoldFields DEF HoldsOwn
<1>2. again \in BOOLEAN /\ mapped \in BOOLEAN
  OBVIOUS
<1>3. mapped => ag.steer.into \in mine
  BY <1>1
<1>4. SteerAfter(ag, turn) =
        [run |-> ag.steer.run, into |-> ag.steer.into, live |-> again, mapped |-> mapped]
  BY DEF SteerAfter
<1>5. Begin(ag, turn) =
        [ag EXCEPT !.turn = turn, !.queued = @ \ {turn}, !.steer.live = again,
                   !.steer.mapped = mapped]
  BY <1>1 DEF Begin, AgentRec, SteerRec
<1>6. ag.steer = NoSteer => ~again /\ ~mapped
  BY <1>1 DEF NoSteer, Nobody, Foreign
<1> HIDE DEF again, mapped
<1>7. Begin(ag, turn) =
        Hold(ag.routing, ag.queued \ {turn}, turn, ag.absorbed, ag.steering,
             SteerAfter(ag, turn), ag.drained, ag.late)
  <2>1. PICK m1 : m1 = [ag EXCEPT !.turn = turn]
    OBVIOUS
  <2>2. PICK m2 : m2 = [m1 EXCEPT !.queued = ag.queued \ {turn}]
    OBVIOUS
  <2>3. PICK m3 : m3 = [m2 EXCEPT !.steer.live = again]
    OBVIOUS
  <2>4. m1 = Hold(ag.routing, ag.queued, turn, ag.absorbed, ag.steering, ag.steer,
                  ag.drained, ag.late)
    BY <1>1, <2>1 DEF Hold, AgentRec
  <2>5. m2 = Hold(ag.routing, ag.queued \ {turn}, turn, ag.absorbed, ag.steering,
                  ag.steer, ag.drained, ag.late)
    BY <2>2, <2>4 DEF Hold
  <2>6. m3 = Hold(ag.routing, ag.queued \ {turn}, turn, ag.absorbed, ag.steering,
                  [ag.steer EXCEPT !.live = again], ag.drained, ag.late)
    BY <2>3, <2>5 DEF Hold
  <2>7. Begin(ag, turn) = [m3 EXCEPT !.steer.mapped = mapped]
    BY <1>5, <2>1, <2>2, <2>3, <2>4
  <2>8. [[ag.steer EXCEPT !.live = again] EXCEPT !.mapped = mapped] = SteerAfter(ag, turn)
    <3>1. PICK r, i, l, m : ag.steer = [run |-> r, into |-> i, live |-> l, mapped |-> m]
      BY <1>1 DEF SteerRec
    <3>2. PICK x, y, s : x = again /\ y = mapped /\ s = [ag.steer EXCEPT !.live = x]
      OBVIOUS
    <3>3. s = [run |-> r, into |-> i, live |-> x, mapped |-> m]
      BY <3>1, <3>2
    <3>4. [s EXCEPT !.mapped = y] = [run |-> r, into |-> i, live |-> x, mapped |-> y]
      BY <3>3
    <3>5. ag.steer.run = r /\ ag.steer.into = i
      BY <3>1
    <3> QED BY <1>4, <3>2, <3>4, <3>5
  <2>9. [m3 EXCEPT !.steer.mapped = mapped] =
          Hold(ag.routing, ag.queued \ {turn}, turn, ag.absorbed, ag.steering,
               [[ag.steer EXCEPT !.live = again] EXCEPT !.mapped = mapped],
               ag.drained, ag.late)
    BY <2>6 DEF Hold
  <2> QED BY <2>7, <2>8, <2>9
<1>8. SteerAfter(ag, turn) \in SteerRec(mine)
  BY <1>1, <1>2, <1>4 DEF SteerRec
<1>9. ag.steer = NoSteer => SteerAfter(ag, turn) = NoSteer
  <2>1. ASSUME ag.steer = NoSteer
        PROVE  SteerAfter(ag, turn) = NoSteer
    <3>1. ag.steer.run = Nobody /\ ag.steer.into = Nobody
      BY <2>1 DEF NoSteer
    <3>2. again = FALSE /\ mapped = FALSE
      BY <1>2, <1>6, <2>1, Zenon
    <3> QED BY <1>4, <3>1, <3>2 DEF NoSteer
  <2> QED BY <2>1
<1> QED BY <1>3, <1>4, <1>7, <1>8, <1>9

LEMMA EndedSays ==
  ASSUME NEW mine, NEW ag, HoldsOwn(ag, mine)
  PROVE  /\ Ended(ag) =
              Hold(ag.routing, ag.queued \cup ag.steering, Nobody, {}, {},
                   SteerLate(ag), ag.drained, ag.late)
         /\ SteerLate(ag) \in SteerRec(mine)
         /\ SteerLate(ag).run = ag.steer.run /\ SteerLate(ag).into = ag.steer.into
         /\ SteerLate(ag).mapped => ag.steer.into \in mine
         /\ ag.steer = NoSteer => SteerLate(ag) = NoSteer
<1>1. /\ ag \in AgentRec(mine) /\ ag.steer \in SteerRec(mine)
      /\ ag.steer.mapped => ag.steer.into \in mine
  BY HoldFields DEF HoldsOwn
<1>2. Ended(ag) =
        Hold(ag.routing, ag.queued \cup ag.steering, Nobody, {}, {},
             SteerLate(ag), ag.drained, ag.late)
  <2>1. PICK m1 : m1 = [ag EXCEPT !.turn = Nobody]
    OBVIOUS
  <2>2. PICK m2 : m2 = [m1 EXCEPT !.absorbed = {}]
    OBVIOUS
  <2>3. PICK m3 : m3 = [m2 EXCEPT !.steer.live = FALSE]
    OBVIOUS
  <2>4. PICK m4 : m4 = [m3 EXCEPT !.queued = @ \cup ag.steering]
    OBVIOUS
  <2>5. Ended(ag) = [m4 EXCEPT !.steering = {}]
    BY <2>1, <2>2, <2>3, <2>4 DEF Ended
  <2>6. m1 = Hold(ag.routing, ag.queued, Nobody, ag.absorbed, ag.steering, ag.steer,
                  ag.drained, ag.late)
    BY <1>1, <2>1 DEF Hold, AgentRec
  <2>7. m2 = Hold(ag.routing, ag.queued, Nobody, {}, ag.steering, ag.steer,
                  ag.drained, ag.late)
    BY <2>2, <2>6 DEF Hold
  <2>8. [ag.steer EXCEPT !.live = FALSE] = SteerLate(ag)
    <3>1. PICK r, i, l, m : ag.steer = [run |-> r, into |-> i, live |-> l, mapped |-> m]
      BY <1>1 DEF SteerRec
    <3>2. PICK x : x = FALSE
      OBVIOUS
    <3>3. [ag.steer EXCEPT !.live = x] = [run |-> r, into |-> i, live |-> x, mapped |-> m]
      BY <3>1
    <3>4. ag.steer.run = r /\ ag.steer.into = i /\ ag.steer.mapped = m
      BY <3>1
    <3>5. SteerLate(ag) = [run |-> r, into |-> i, live |-> x, mapped |-> m]
      BY <3>2, <3>4 DEF SteerLate
    <3> QED BY <3>2, <3>3, <3>5, Zenon
  <2>9. m3 = Hold(ag.routing, ag.queued, Nobody, {}, ag.steering, SteerLate(ag),
                  ag.drained, ag.late)
    BY <2>3, <2>7, <2>8 DEF Hold
  <2>10. m4 = Hold(ag.routing, ag.queued \cup ag.steering, Nobody, {}, ag.steering,
                   SteerLate(ag), ag.drained, ag.late)
    BY <2>4, <2>9 DEF Hold
  <2> QED BY <2>5, <2>10 DEF Hold
<1>3. SteerLate(ag) \in SteerRec(mine)
  BY <1>1 DEF SteerLate, SteerRec
<1>4. ag.steer = NoSteer => SteerLate(ag) = NoSteer
  BY DEF SteerLate, NoSteer
<1> QED BY <1>1, <1>2, <1>3, <1>4 DEF SteerLate

\* Agent a's hands, when only the named fields change.
LEMMA AgentParts ==
  ASSUME AgentsOK, StoreOK(runs), NEW a \in Agents
  PROVE  /\ HoldsOwn(agent[a], Mine(a)) /\ agent[a] \in AgentRec(Mine(a))
         /\ Nobody \notin Mine(a) /\ Foreign \notin Mine(a) /\ Mine(a) \subseteq DOMAIN runs
         /\ agent[a].late \subseteq Mine(a)
         /\ \A ag : LET new == [agent EXCEPT ![a] = ag]
                    IN new[a] = ag /\ \A b \in Agents \ {a} : new[b] = agent[b]
<1>1. HoldsOwn(agent[a], Mine(a)) /\ agent = [b \in Agents |-> agent[b]]
  BY DEF AgentsOK
<1>2. agent[a] \in AgentRec(Mine(a)) /\ agent[a].late \subseteq Mine(a)
  BY <1>1, HoldFields DEF HoldsOwn
<1>3. Nobody \notin Mine(a) /\ Foreign \notin Mine(a) /\ Mine(a) \subseteq DOMAIN runs
  BY StoreFacts DEF Mine
<1>4. \A ag : LET new == [agent EXCEPT ![a] = ag]
              IN new[a] = ag /\ \A b \in Agents \ {a} : new[b] = agent[b]
  BY <1>1
<1> QED BY <1>1, <1>2, <1>3, <1>4

\* agent[a], with names for its fields.
LEMMA HeldBy ==
  ASSUME AgentsOK, StoreOK(runs), NEW a \in Agents
  PROVE  \E rt, q, t, ab, sg, st, d, l :
           /\ agent[a] = Hold(rt, q, t, ab, sg, st, d, l)
           /\ agent[a].routing = rt /\ agent[a].queued = q /\ agent[a].turn = t
           /\ agent[a].absorbed = ab /\ agent[a].steering = sg /\ agent[a].steer = st
           /\ agent[a].drained = d /\ agent[a].late = l
<1>1. agent[a] \in AgentRec(Mine(a))
  BY AgentParts
<1>2. \E rt, q, t, ab, sg, st, d, l :
        agent[a] = [routing |-> rt, queued |-> q, turn |-> t, absorbed |-> ab,
                    steering |-> sg, steer |-> st, drained |-> d, late |-> l]
  BY <1>1 DEF AgentRec
<1>3. PICK rt, q, t, ab, sg, st, d, l :
        agent[a] = [routing |-> rt, queued |-> q, turn |-> t, absorbed |-> ab,
                    steering |-> sg, steer |-> st, drained |-> d, late |-> l]
  BY <1>2
<1>4. /\ agent[a] = Hold(rt, q, t, ab, sg, st, d, l)
      /\ agent[a].routing = rt /\ agent[a].queued = q /\ agent[a].turn = t
      /\ agent[a].absorbed = ab /\ agent[a].steering = sg /\ agent[a].steer = st
      /\ agent[a].drained = d /\ agent[a].late = l
  BY <1>3 DEF Hold
<1> QED BY <1>4

\* An action that gives agent a the value ag.
LEMMA HandsAre ==
  ASSUME AgentsOK, StoreOK(runs), NEW a \in Agents, NEW ag,
         agent' = [agent EXCEPT ![a] = ag]
  PROVE  AgentIs(a, ag)
BY AgentParts DEF AgentIs

LEMMA AdmitHands ==
  ASSUME AgentsOK, StoreOK(runs), NEW a \in Agents, NEW r, NEW steered \in BOOLEAN,
         Admit(a, r, steered)
  PROVE  LET ag == agent[a]
         IN AgentIs(a, Hold(ag.routing \ {r},
                            IF steered THEN ag.queued ELSE ag.queued \cup {r}, ag.turn,
                            ag.absorbed,
                            IF steered THEN ag.steering \cup {r} ELSE ag.steering,
                            ag.steer, ag.drained, ag.late))
<1> DEFINE q2 == IF steered THEN agent[a].queued ELSE agent[a].queued \cup {r}
           s2 == IF steered THEN agent[a].steering \cup {r} ELSE agent[a].steering
<1>1. PICK rt, q, t, ab, sg, st, d, l :
        /\ agent[a] = Hold(rt, q, t, ab, sg, st, d, l)
        /\ agent[a].routing = rt /\ agent[a].queued = q /\ agent[a].turn = t
        /\ agent[a].absorbed = ab /\ agent[a].steering = sg /\ agent[a].steer = st
        /\ agent[a].drained = d /\ agent[a].late = l
  BY HeldBy
<1>2. PICK x1, x2, x3 : x1 = rt \ {r} /\ x2 = q2 /\ x3 = s2
  OBVIOUS
<1>3. agent' = [agent EXCEPT ![a] =
                  [[[agent[a] EXCEPT !.routing = x1] EXCEPT !.queued = x2] EXCEPT !.steering = x3]]
  BY <1>1, <1>2 DEF Admit, Hold
<1> HIDE DEF q2, s2
<1>4. [[[agent[a] EXCEPT !.routing = x1] EXCEPT !.queued = x2] EXCEPT !.steering = x3]
        = Hold(x1, x2, t, ab, x3, st, d, l)
  <2>1. [agent[a] EXCEPT !.routing = x1] = Hold(x1, q, t, ab, sg, st, d, l)
    BY <1>1 DEF Hold
  <2>2. [Hold(x1, q, t, ab, sg, st, d, l) EXCEPT !.queued = x2]
          = Hold(x1, x2, t, ab, sg, st, d, l)
    BY DEF Hold
  <2>3. [Hold(x1, x2, t, ab, sg, st, d, l) EXCEPT !.steering = x3]
          = Hold(x1, x2, t, ab, x3, st, d, l)
    BY DEF Hold
  <2> QED BY <2>1, <2>2, <2>3
<1>5. AgentIs(a, Hold(x1, x2, t, ab, x3, st, d, l))
  BY <1>3, <1>4, HandsAre
<1> QED BY <1>1, <1>2, <1>5 DEF q2, s2

\* The same, by the fields that the action writes.
LEMMA FieldHands ==
  ASSUME AgentsOK, StoreOK(runs), NEW a \in Agents, NEW x, NEW y
  PROVE  LET ag == agent[a]
         IN
         /\ agent' = [agent EXCEPT ![a].routing = x] =>
              AgentIs(a, Hold(x, ag.queued, ag.turn, ag.absorbed, ag.steering, ag.steer, ag.drained, ag.late))
         /\ agent' = [agent EXCEPT ![a].queued = x] =>
              AgentIs(a, Hold(ag.routing, x, ag.turn, ag.absorbed, ag.steering, ag.steer, ag.drained, ag.late))
         /\ agent' = [agent EXCEPT ![a].late = x] =>
              AgentIs(a, Hold(ag.routing, ag.queued, ag.turn, ag.absorbed, ag.steering, ag.steer, ag.drained, x))
         /\ agent' = [agent EXCEPT ![a].steer = x] =>
              AgentIs(a, Hold(ag.routing, ag.queued, ag.turn, ag.absorbed, ag.steering, x, ag.drained, ag.late))
         /\ agent' = [agent EXCEPT ![a].steering = x, ![a].steer = y] =>
              AgentIs(a, Hold(ag.routing, ag.queued, ag.turn, ag.absorbed, x, y, ag.drained, ag.late))
         /\ agent' = [agent EXCEPT ![a].steer = x, ![a].absorbed = y] =>
              AgentIs(a, Hold(ag.routing, ag.queued, ag.turn, y, ag.steering, x, ag.drained, ag.late))
         /\ agent' = [agent EXCEPT ![a].steer = x, ![a].queued = y] =>
              AgentIs(a, Hold(ag.routing, y, ag.turn, ag.absorbed, ag.steering, x, ag.drained, ag.late))
<1>1. PICK rt, q, t, ab, sg, st, d, l :
        /\ agent[a] = Hold(rt, q, t, ab, sg, st, d, l)
        /\ agent[a].routing = rt /\ agent[a].queued = q /\ agent[a].turn = t
        /\ agent[a].absorbed = ab /\ agent[a].steering = sg /\ agent[a].steer = st
        /\ agent[a].drained = d /\ agent[a].late = l
  BY HeldBy
<1>2. ASSUME agent' = [agent EXCEPT ![a].routing = x]
      PROVE  AgentIs(a, Hold(x, q, t, ab, sg, st, d, l))
  <2>1. agent' = [agent EXCEPT ![a] = [agent[a] EXCEPT !.routing = x]]
    BY <1>2
  <2>2. [agent[a] EXCEPT !.routing = x] = Hold(x, q, t, ab, sg, st, d, l)
    BY <1>1 DEF Hold
  <2> QED BY <2>1, <2>2, HandsAre
<1>3. ASSUME agent' = [agent EXCEPT ![a].queued = x]
      PROVE  AgentIs(a, Hold(rt, x, t, ab, sg, st, d, l))
  <2>1. agent' = [agent EXCEPT ![a] = [agent[a] EXCEPT !.queued = x]]
    BY <1>3
  <2>2. [agent[a] EXCEPT !.queued = x] = Hold(rt, x, t, ab, sg, st, d, l)
    BY <1>1 DEF Hold
  <2> QED BY <2>1, <2>2, HandsAre
<1>4. ASSUME agent' = [agent EXCEPT ![a].late = x]
      PROVE  AgentIs(a, Hold(rt, q, t, ab, sg, st, d, x))
  <2>1. agent' = [agent EXCEPT ![a] = [agent[a] EXCEPT !.late = x]]
    BY <1>4
  <2>2. [agent[a] EXCEPT !.late = x] = Hold(rt, q, t, ab, sg, st, d, x)
    BY <1>1 DEF Hold
  <2> QED BY <2>1, <2>2, HandsAre
<1>5. ASSUME agent' = [agent EXCEPT ![a].steer = x]
      PROVE  AgentIs(a, Hold(rt, q, t, ab, sg, x, d, l))
  <2>1. agent' = [agent EXCEPT ![a] = [agent[a] EXCEPT !.steer = x]]
    BY <1>5
  <2>2. [agent[a] EXCEPT !.steer = x] = Hold(rt, q, t, ab, sg, x, d, l)
    BY <1>1 DEF Hold
  <2> QED BY <2>1, <2>2, HandsAre
<1>6. ASSUME agent' = [agent EXCEPT ![a].steering = x, ![a].steer = y]
      PROVE  AgentIs(a, Hold(rt, q, t, ab, x, y, d, l))
  <2>1. agent' = [agent EXCEPT ![a] = [[agent[a] EXCEPT !.steering = x] EXCEPT !.steer = y]]
    BY <1>6
  <2>2. [agent[a] EXCEPT !.steering = x] = Hold(rt, q, t, ab, x, st, d, l)
    BY <1>1 DEF Hold
  <2>3. [Hold(rt, q, t, ab, x, st, d, l) EXCEPT !.steer = y]
          = Hold(rt, q, t, ab, x, y, d, l)
    BY DEF Hold
  <2> QED BY <2>1, <2>2, <2>3, HandsAre
<1>7. ASSUME agent' = [agent EXCEPT ![a].steer = x, ![a].absorbed = y]
      PROVE  AgentIs(a, Hold(rt, q, t, y, sg, x, d, l))
  <2>1. agent' = [agent EXCEPT ![a] = [[agent[a] EXCEPT !.steer = x] EXCEPT !.absorbed = y]]
    BY <1>7
  <2>2. [agent[a] EXCEPT !.steer = x] = Hold(rt, q, t, ab, sg, x, d, l)
    BY <1>1 DEF Hold
  <2>3. [Hold(rt, q, t, ab, sg, x, d, l) EXCEPT !.absorbed = y]
          = Hold(rt, q, t, y, sg, x, d, l)
    BY DEF Hold
  <2> QED BY <2>1, <2>2, <2>3, HandsAre
<1>8. ASSUME agent' = [agent EXCEPT ![a].steer = x, ![a].queued = y]
      PROVE  AgentIs(a, Hold(rt, y, t, ab, sg, x, d, l))
  <2>1. agent' = [agent EXCEPT ![a] = [[agent[a] EXCEPT !.steer = x] EXCEPT !.queued = y]]
    BY <1>8
  <2>2. [agent[a] EXCEPT !.steer = x] = Hold(rt, q, t, ab, sg, x, d, l)
    BY <1>1 DEF Hold
  <2>3. [Hold(rt, q, t, ab, sg, x, d, l) EXCEPT !.queued = y]
          = Hold(rt, y, t, ab, sg, x, d, l)
    BY DEF Hold
  <2> QED BY <2>1, <2>2, <2>3, HandsAre
<1> QED BY <1>1, <1>2, <1>3, <1>4, <1>5, <1>6, <1>7, <1>8

LEMMA StartHands ==
  ASSUME AgentsOK, StoreOK(runs), NEW a \in Agents, NEW r \in Mine(a), NEW batch,
         Start(a, r, batch)
  PROVE  LET ag == agent[a]
         IN AgentIs(a, Hold(ag.routing, (ag.queued \ {r}) \ batch, r, ag.absorbed,
                            ag.steering, SteerAfter(ag, r), ag.drained, ag.late))
<1> DEFINE ag == agent[a]
           begun == Hold(ag.routing, ag.queued \ {r}, r, ag.absorbed, ag.steering,
                         SteerAfter(ag, r), ag.drained, ag.late)
           new == Hold(ag.routing, (ag.queued \ {r}) \ batch, r, ag.absorbed, ag.steering,
                       SteerAfter(ag, r), ag.drained, ag.late)
<1>1. agent' = [agent EXCEPT ![a] = [Begin(agent[a], r) EXCEPT !.queued = @ \ batch]]
  BY DEF Start
<1>2. Begin(agent[a], r) = begun
  BY AgentParts, BeginSays
<1>3. [begun EXCEPT !.queued = @ \ batch] = new
  <2>1. PICK rt, q, ab, sg, s, d, l :
          /\ rt = ag.routing /\ q = ag.queued \ {r} /\ ab = ag.absorbed /\ sg = ag.steering
          /\ s = SteerAfter(ag, r) /\ d = ag.drained /\ l = ag.late
    OBVIOUS
  <2>2. [Hold(rt, q, r, ab, sg, s, d, l) EXCEPT !.queued = @ \ batch]
          = Hold(rt, q \ batch, r, ab, sg, s, d, l)
    BY DEF Hold
  <2> QED BY <2>1, <2>2
<1>4. agent' = [agent EXCEPT ![a] = [begun EXCEPT !.queued = @ \ batch]]
  <2> HIDE DEF begun
  <2> QED BY <1>1, <1>2
<1>5. agent' = [agent EXCEPT ![a] = new]
  BY <1>3, <1>4
<1> QED BY <1>5, HandsAre

LEMMA StartForeignHands ==
  ASSUME AgentsOK, StoreOK(runs), NEW a \in Agents, StartForeign(a)
  PROVE  LET ag == agent[a]
         IN AgentIs(a, Hold(ag.routing, ag.queued \ {Foreign}, Foreign, ag.absorbed,
                            ag.steering, SteerAfter(ag, Foreign), ag.drained, ag.late))
<1> DEFINE ag == agent[a]
           begun == Hold(ag.routing, ag.queued \ {Foreign}, Foreign, ag.absorbed,
                         ag.steering, SteerAfter(ag, Foreign), ag.drained, ag.late)
<1>1. agent' = [agent EXCEPT ![a] = Begin(agent[a], Foreign)]
  BY DEF StartForeign
<1>2. Begin(agent[a], Foreign) = begun
  BY AgentParts, BeginSays
<1> QED BY <1>1, <1>2, HandsAre

\* The end of a turn, with or without its being drained.
LEMMA EndHands ==
  ASSUME AgentsOK, StoreOK(runs), NEW a \in Agents
  PROVE  LET ag == agent[a]
             own == {ag.turn} \ {Foreign}
         IN /\ agent' = [agent EXCEPT ![a] = Ended(@)] =>
                 AgentIs(a, Hold(ag.routing, ag.queued \cup ag.steering, Nobody, {}, {},
                                 SteerLate(ag), ag.drained, ag.late))
            /\ agent' = [agent EXCEPT ![a] =
                  [Ended(agent[a]) EXCEPT !.drained = @ \cup own, !.late = @ \cup own]] =>
                 AgentIs(a, Hold(ag.routing, ag.queued \cup ag.steering, Nobody, {}, {},
                                 SteerLate(ag), ag.drained \cup own, ag.late \cup own))
<1> DEFINE ag == agent[a]
           own == {ag.turn} \ {Foreign}
           ended == Hold(ag.routing, ag.queued \cup ag.steering, Nobody, {}, {},
                         SteerLate(ag), ag.drained, ag.late)
           drained == Hold(ag.routing, ag.queued \cup ag.steering, Nobody, {}, {},
                           SteerLate(ag), ag.drained \cup own, ag.late \cup own)
<1>1. Ended(agent[a]) = ended
  BY AgentParts, EndedSays
<1>2. ASSUME agent' = [agent EXCEPT ![a] = Ended(@)]
      PROVE  AgentIs(a, ended)
  BY <1>1, <1>2, HandsAre
<1>3. ASSUME agent' = [agent EXCEPT ![a] =
               [Ended(agent[a]) EXCEPT !.drained = @ \cup own, !.late = @ \cup own]]
      PROVE  AgentIs(a, drained)
  <2>1. PICK o, d, l, rt, q, s : /\ o = own /\ d = ag.drained /\ l = ag.late
                                 /\ rt = ag.routing /\ q = ag.queued \cup ag.steering
                                 /\ s = SteerLate(ag)
    OBVIOUS
  <2>2. ended = Hold(rt, q, Nobody, {}, {}, s, d, l)
    BY <2>1
  <2>3. [Hold(rt, q, Nobody, {}, {}, s, d, l) EXCEPT !.drained = @ \cup o]
          = Hold(rt, q, Nobody, {}, {}, s, d \cup o, l)
    BY DEF Hold
  <2>4. [Hold(rt, q, Nobody, {}, {}, s, d \cup o, l) EXCEPT !.late = @ \cup o]
          = Hold(rt, q, Nobody, {}, {}, s, d \cup o, l \cup o)
    BY DEF Hold
  <2>5. agent' = [agent EXCEPT ![a] =
                    [[ended EXCEPT !.drained = @ \cup o] EXCEPT !.late = @ \cup o]]
    <3> HIDE DEF ended, own
    <3> QED BY <1>1, <1>3, <2>1
  <2> HIDE DEF ended
  <2>6. agent' = [agent EXCEPT ![a] = Hold(rt, q, Nobody, {}, {}, s, d \cup o, l \cup o)]
    BY <2>2, <2>3, <2>4, <2>5
  <2> QED BY <2>1, <2>6, HandsAre
<1> QED BY <1>2, <1>3

LEMMA DieHands ==
  ASSUME AgentsOK, StoreOK(runs), NEW a \in Agents, Die(a)
  PROVE  AgentIs(a, Hold(agent[a].routing, {}, Nobody, {}, {}, NoSteer, {}, {}))
<1>1. agent' = [agent EXCEPT ![a] = [NewAgent EXCEPT !.routing = agent[a].routing]]
  BY DEF Die
<1>2. PICK rt : rt = agent[a].routing
  OBVIOUS
<1>3. [NewAgent EXCEPT !.routing = rt] = Hold(rt, {}, Nobody, {}, {}, NoSteer, {}, {})
  BY DEF NewAgent, Hold
<1> QED BY <1>1, <1>2, <1>3, HandsAre

-----------------------------------------------------------------------------
(* Every action keeps the invariant, and the runs go on.                   *)

Kept == RunInv' /\ Grows

LEMMA AgentKept ==
  ASSUME AgentsOK, Grows, NEW a \in Agents, NEW ag, AgentIs(a, ag), HoldsOwn(ag, Mine(a))
  PROVE  AgentsOK'
<1>1. HoldsOwn(ag, Mine(a)')
  BY MineGrows, HoldsMore
<1> QED BY <1>1, AgentChanged DEF AgentIs

LEMMA IdleRuns ==
  ASSUME RunInv, runs' = runs, evals' = evals, AgentsOK', BudgetOK'
  PROVE  Kept
<1>1. StoreOK(runs) /\ evals \subseteq EvalRec /\ PendingHasEvaluator
  BY DEF RunInv
<1>2. Grows
  BY <1>1, StillRuns
<1>3. evals' \subseteq EvalRec'
  BY <1>1, <1>2, EvalsKept
<1>4. PendingHasEvaluator'
  BY <1>1 DEF PendingHasEvaluator
<1>5. StoreOK(runs')
  BY <1>2 DEF Grows
<1> QED BY <1>2, <1>3, <1>4, <1>5 DEF Kept, RunInv

LEMMA AdmitKeeps ==
  ASSUME RunInv, NEW a \in Agents, NEW r, NEW steered \in BOOLEAN, Admit(a, r, steered)
  PROVE  Kept
<1> DEFINE ag == agent[a]
           q == IF steered THEN ag.queued ELSE ag.queued \cup {r}
           s == IF steered THEN ag.steering \cup {r} ELSE ag.steering
           new == Hold(ag.routing \ {r}, q, ag.turn, ag.absorbed, s, ag.steer,
                       ag.drained, ag.late)
<1>1. AgentsOK /\ StoreOK(runs) /\ BudgetOK
  BY DEF RunInv
<1>2. HoldsOwn(ag, Mine(a))
  BY <1>1, AgentParts
<1>3. AgentIs(a, new)
  BY <1>1, AdmitHands
<1>4. /\ r \in ag.routing /\ (steered => ag.turn # Nobody)
      /\ runs' = runs /\ evals' = evals /\ budget' = budget
  BY DEF Admit
<1>5. HoldsOwn(new, Mine(a))
  <2>1. /\ ag.routing \subseteq Mine(a) /\ ag.queued \subseteq Mine(a)
        /\ ag.absorbed \subseteq Mine(a) /\ ag.steering \subseteq Mine(a)
        /\ ag.drained \subseteq Mine(a) /\ ag.late \subseteq Mine(a)
        /\ ag.turn \in Mine(a) \cup {Nobody, Foreign}
        /\ ag.steer \in SteerRec(Mine(a))
    BY <1>2, HoldFields
  <2>2. /\ ag.steer.mapped => ag.steer.into \in Mine(a)
        /\ ag.steer.run = Nobody => ag.steer = NoSteer
        /\ ag.steering # {} => ag.turn # Nobody
    BY <1>2 DEF HoldsOwn
  <2>3. /\ ag.routing \ {r} \in SUBSET Mine(a) /\ q \in SUBSET Mine(a)
        /\ s \in SUBSET Mine(a) /\ (s # {} => ag.turn # Nobody)
    BY <1>4, <2>1, <2>2
  <2> HIDE DEF q, s, ag
  <2> QED BY <2>1, <2>2, <2>3, HoldHolds
<1>6. Grows
  BY <1>1, <1>4, StillRuns
<1> HIDE DEF new
<1>7. AgentsOK'
  BY <1>1, <1>3, <1>5, <1>6, AgentKept
<1>8. BudgetOK'
  BY <1>1, <1>4 DEF BudgetOK
<1> QED BY <1>4, <1>7, <1>8, IdleRuns

LEMMA RetryKeeps ==
  ASSUME RunInv, NEW a \in Agents, NEW r \in DOMAIN runs, Retry(a, r)
  PROVE  Kept
<1> DEFINE ag == agent[a]
           new == Hold({r}, ag.queued, ag.turn, ag.absorbed, ag.steering, ag.steer,
                       ag.drained, ag.late)
<1>1. AgentsOK /\ StoreOK(runs) /\ BudgetOK
  BY DEF RunInv
<1>2. HoldsOwn(ag, Mine(a))
  BY <1>1, AgentParts
<1>3. /\ r \in Mine(a) /\ runs' = runs /\ evals' = evals
      /\ agent' = [agent EXCEPT ![a].routing = {r}]
      /\ budget' = [faults |-> budget.faults - 1, retried |-> TRUE]
  BY DEF Retry, Mine
<1>4. AgentIs(a, new)
  BY <1>1, <1>3, FieldHands
<1>5. HoldsOwn(new, Mine(a))
  <2>1. /\ ag.queued \subseteq Mine(a)
        /\ ag.absorbed \subseteq Mine(a) /\ ag.steering \subseteq Mine(a)
        /\ ag.drained \subseteq Mine(a) /\ ag.late \subseteq Mine(a)
        /\ ag.turn \in Mine(a) \cup {Nobody, Foreign}
        /\ ag.steer \in SteerRec(Mine(a)) /\ {r} \in SUBSET Mine(a)
    BY <1>2, <1>3, HoldFields
  <2>2. /\ ag.steer.mapped => ag.steer.into \in Mine(a)
        /\ ag.steer.run = Nobody => ag.steer = NoSteer
        /\ ag.steering # {} => ag.turn # Nobody
    BY <1>2 DEF HoldsOwn
  <2> HIDE DEF ag
  <2> QED BY <2>1, <2>2, HoldHolds
<1>6. Grows
  BY <1>1, <1>3, StillRuns
<1> HIDE DEF new
<1>7. AgentsOK'
  BY <1>1, <1>4, <1>5, <1>6, AgentKept
<1>8. BudgetOK'
  BY <1>1, <1>3 DEF BudgetOK
<1> QED BY <1>3, <1>7, <1>8, IdleRuns

LEMMA StartForeignKeeps ==
  ASSUME RunInv, NEW a \in Agents, StartForeign(a)
  PROVE  Kept
<1> DEFINE ag == agent[a]
           new == Hold(ag.routing, ag.queued \ {Foreign}, Foreign, ag.absorbed,
                       ag.steering, SteerAfter(ag, Foreign), ag.drained, ag.late)
<1>1. AgentsOK /\ StoreOK(runs) /\ BudgetOK
  BY DEF RunInv
<1>2. HoldsOwn(ag, Mine(a)) /\ Nobody \notin Mine(a) /\ Foreign \notin Mine(a)
  BY <1>1, AgentParts
<1>3. runs' = runs /\ evals' = evals /\ Fault
  BY DEF StartForeign
<1>4. AgentIs(a, new)
  BY <1>1, StartForeignHands
<1>5. HoldsOwn(new, Mine(a))
  <2>1. /\ ag.routing \subseteq Mine(a) /\ ag.queued \subseteq Mine(a)
        /\ ag.absorbed \subseteq Mine(a) /\ ag.steering \subseteq Mine(a)
        /\ ag.drained \subseteq Mine(a) /\ ag.late \subseteq Mine(a)
        /\ ag.turn \in Mine(a) \cup {Nobody, Foreign}
        /\ ag.steer \in SteerRec(Mine(a)) /\ ag.steer.run \in Mine(a) \cup {Nobody}
    BY <1>2, HoldFields
  <2>2. /\ ag.steer.mapped => ag.steer.into \in Mine(a)
        /\ ag.steer.run = Nobody => ag.steer = NoSteer
        /\ ag.steering # {} => ag.turn # Nobody
    BY <1>2 DEF HoldsOwn
  <2>3. /\ SteerAfter(ag, Foreign) \in SteerRec(Mine(a))
        /\ SteerAfter(ag, Foreign).mapped => ag.steer.into \in Mine(a)
        /\ ag.steer = NoSteer => SteerAfter(ag, Foreign) = NoSteer
    BY <1>2, BeginSays
  <2>4. /\ SteerAfter(ag, Foreign).run = ag.steer.run
        /\ SteerAfter(ag, Foreign).into = ag.steer.into
    BY DEF SteerAfter
  <2>5. /\ ag.queued \ {Foreign} \in SUBSET Mine(a) /\ Foreign # Nobody
    BY <2>1 DEF Foreign, Nobody
  <2> HIDE DEF ag
  <2> QED BY <2>1, <2>2, <2>3, <2>4, <2>5, HoldHolds
<1>6. Grows
  BY <1>1, <1>3, StillRuns
<1> HIDE DEF new
<1>7. AgentsOK'
  BY <1>1, <1>4, <1>5, <1>6, AgentKept
<1>8. BudgetOK'
  BY <1>1, <1>3, FaultSpent
<1> QED BY <1>3, <1>7, <1>8, IdleRuns

LEMMA SteerKeeps ==
  ASSUME RunInv, NEW a \in Agents, NEW r, Steer(a, r)
  PROVE  Kept
<1> DEFINE ag == agent[a]
           new == Hold(ag.routing, ag.queued, ag.turn, ag.absorbed, ag.steering \ {r},
                       [run |-> r, into |-> ag.turn, live |-> TRUE,
                        mapped |-> ag.turn # Foreign], ag.drained, ag.late)
<1>1. AgentsOK /\ StoreOK(runs) /\ BudgetOK
  BY DEF RunInv
<1>2. HoldsOwn(ag, Mine(a)) /\ Nobody \notin Mine(a) /\ Foreign \notin Mine(a)
  BY <1>1, AgentParts
<1>3. /\ runs' = runs /\ evals' = evals /\ budget' = budget /\ r \in ag.steering
      /\ agent' = [agent EXCEPT ![a].steering = ag.steering \ {r},
             ![a].steer = [run |-> r, into |-> ag.turn, live |-> TRUE,
                           mapped |-> ag.turn # Foreign]]
  BY DEF Steer
<1>4. AgentIs(a, new)
  BY <1>1, <1>3, FieldHands
<1>5. HoldsOwn(new, Mine(a))
  <2>1. /\ ag.routing \subseteq Mine(a) /\ ag.queued \subseteq Mine(a)
        /\ ag.absorbed \subseteq Mine(a) /\ ag.steering \subseteq Mine(a)
        /\ ag.drained \subseteq Mine(a) /\ ag.late \subseteq Mine(a)
        /\ ag.turn \in Mine(a) \cup {Nobody, Foreign}
        /\ ag.steer \in SteerRec(Mine(a)) /\ ag.steer.run \in Mine(a) \cup {Nobody}
    BY <1>2, HoldFields
  <2>2. /\ ag.steer.mapped => ag.steer.into \in Mine(a)
        /\ ag.steer.run = Nobody => ag.steer = NoSteer
        /\ ag.steering # {} => ag.turn # Nobody
    BY <1>2 DEF HoldsOwn
  <2> DEFINE st == [run |-> r, into |-> ag.turn, live |-> TRUE, mapped |-> ag.turn # Foreign]
  <2>3. r \in Mine(a) /\ ag.turn # Nobody /\ r # Nobody
    BY <1>2, <1>3, <2>1, <2>2
  <2>4. st \in SteerRec(Mine(a))
    BY <2>1, <2>3 DEF SteerRec
  <2>5. st.mapped => st.into \in Mine(a)
    BY <2>1, <2>3
  <2>6. st.run = r /\ ag.steering \ {r} \in SUBSET Mine(a)
    BY <2>1
  <2> HIDE DEF st
  <2>7. HoldsOwn(Hold(ag.routing, ag.queued, ag.turn, ag.absorbed, ag.steering \ {r}, st,
                      ag.drained, ag.late), Mine(a))
    <3> HIDE DEF ag
    <3> QED BY <2>1, <2>3, <2>4, <2>5, <2>6, HoldHolds
  <2> QED BY <2>7 DEF st
<1>6. Grows
  BY <1>1, <1>3, StillRuns
<1> HIDE DEF new
<1>7. AgentsOK'
  BY <1>1, <1>4, <1>5, <1>6, AgentKept
<1>8. BudgetOK'
  BY <1>1, <1>3 DEF BudgetOK
<1> QED BY <1>3, <1>7, <1>8, IdleRuns

LEMMA SteerRejectedKeeps ==
  ASSUME RunInv, NEW a \in Agents, SteerRejected(a)
  PROVE  Kept
<1> DEFINE ag == agent[a]
           new == Hold(ag.routing, ag.queued \cup {ag.steer.run}, ag.turn, ag.absorbed,
                       ag.steering, NoSteer, ag.drained, ag.late)
<1>1. AgentsOK /\ StoreOK(runs) /\ BudgetOK
  BY DEF RunInv
<1>2. HoldsOwn(ag, Mine(a)) /\ Nobody \notin Mine(a) /\ Foreign \notin Mine(a)
  BY <1>1, AgentParts
<1>3. /\ runs' = runs /\ evals' = evals /\ budget' = budget /\ ag.steer # NoSteer
      /\ agent' = [agent EXCEPT ![a].steer = NoSteer,
             ![a].queued = ag.queued \cup {ag.steer.run}]
  BY DEF SteerRejected
<1>4. AgentIs(a, new)
  BY <1>1, <1>3, FieldHands
<1>5. HoldsOwn(new, Mine(a))
  <2>1. /\ ag.routing \subseteq Mine(a) /\ ag.queued \subseteq Mine(a)
        /\ ag.absorbed \subseteq Mine(a) /\ ag.steering \subseteq Mine(a)
        /\ ag.drained \subseteq Mine(a) /\ ag.late \subseteq Mine(a)
        /\ ag.turn \in Mine(a) \cup {Nobody, Foreign}
        /\ ag.steer \in SteerRec(Mine(a)) /\ ag.steer.run \in Mine(a) \cup {Nobody}
    BY <1>2, HoldFields
  <2>2. /\ ag.steer.mapped => ag.steer.into \in Mine(a)
        /\ ag.steer.run = Nobody => ag.steer = NoSteer
        /\ ag.steering # {} => ag.turn # Nobody
    BY <1>2 DEF HoldsOwn
  <2>3. /\ NoSteer \in SteerRec(Mine(a)) /\ ~NoSteer.mapped /\ {} \in SUBSET Mine(a)
    BY DEF NoSteer, SteerRec
  <2>4. ag.queued \cup {ag.steer.run} \in SUBSET Mine(a)
    BY <1>3, <2>1, <2>2
  <2> HIDE DEF ag
  <2> QED BY <2>1, <2>2, <2>3, <2>4, HoldHolds
<1>6. Grows
  BY <1>1, <1>3, StillRuns
<1> HIDE DEF new
<1>7. AgentsOK'
  BY <1>1, <1>4, <1>5, <1>6, AgentKept
<1>8. BudgetOK'
  BY <1>1, <1>3 DEF BudgetOK
<1> QED BY <1>3, <1>7, <1>8, IdleRuns

LEMMA SteerFailedKeeps ==
  ASSUME RunInv, NEW a \in Agents, SteerFailed(a)
  PROVE  Kept
<1> DEFINE ag == agent[a]
           new == Hold(ag.routing, ag.queued, ag.turn, ag.absorbed, ag.steering, NoSteer,
                       ag.drained, ag.late)
<1>1. AgentsOK /\ StoreOK(runs) /\ BudgetOK
  BY DEF RunInv
<1>2. HoldsOwn(ag, Mine(a)) /\ Nobody \notin Mine(a) /\ Foreign \notin Mine(a)
  BY <1>1, AgentParts
<1>3. /\ runs' = runs /\ evals' = evals /\ Fault
      /\ agent' = [agent EXCEPT ![a].steer = NoSteer]
  BY DEF SteerFailed
<1>4. AgentIs(a, new)
  BY <1>1, <1>3, FieldHands
<1>5. HoldsOwn(new, Mine(a))
  <2>1. /\ ag.routing \subseteq Mine(a) /\ ag.queued \subseteq Mine(a)
        /\ ag.absorbed \subseteq Mine(a) /\ ag.steering \subseteq Mine(a)
        /\ ag.drained \subseteq Mine(a) /\ ag.late \subseteq Mine(a)
        /\ ag.turn \in Mine(a) \cup {Nobody, Foreign}
        /\ ag.steer \in SteerRec(Mine(a)) /\ ag.steer.run \in Mine(a) \cup {Nobody}
    BY <1>2, HoldFields
  <2>2. /\ ag.steer.mapped => ag.steer.into \in Mine(a)
        /\ ag.steer.run = Nobody => ag.steer = NoSteer
        /\ ag.steering # {} => ag.turn # Nobody
    BY <1>2 DEF HoldsOwn
  <2>3. /\ NoSteer \in SteerRec(Mine(a)) /\ ~NoSteer.mapped /\ {} \in SUBSET Mine(a)
    BY DEF NoSteer, SteerRec
  <2> HIDE DEF ag
  <2> QED BY <2>1, <2>2, <2>3, HoldHolds
<1>6. Grows
  BY <1>1, <1>3, StillRuns
<1> HIDE DEF new
<1>7. AgentsOK'
  BY <1>1, <1>4, <1>5, <1>6, AgentKept
<1>8. BudgetOK'
  BY <1>1, <1>3, FaultSpent
<1> QED BY <1>3, <1>7, <1>8, IdleRuns

LEMMA DropKeeps ==
  ASSUME RunInv, NEW a \in Agents, NEW r, Drop(a, r)
  PROVE  Kept
<1> DEFINE ag == agent[a]
           new == Hold(ag.routing, ag.queued \ {r}, ag.turn, ag.absorbed, ag.steering, ag.steer,
                       ag.drained, ag.late)
<1>1. AgentsOK /\ StoreOK(runs) /\ BudgetOK
  BY DEF RunInv
<1>2. HoldsOwn(ag, Mine(a)) /\ Nobody \notin Mine(a) /\ Foreign \notin Mine(a)
  BY <1>1, AgentParts
<1>3. /\ runs' = runs /\ evals' = evals /\ Fault
      /\ agent' = [agent EXCEPT ![a].queued = ag.queued \ {r}]
  BY DEF Drop
<1>4. AgentIs(a, new)
  BY <1>1, <1>3, FieldHands
<1>5. HoldsOwn(new, Mine(a))
  <2>1. /\ ag.routing \subseteq Mine(a) /\ ag.queued \subseteq Mine(a)
        /\ ag.absorbed \subseteq Mine(a) /\ ag.steering \subseteq Mine(a)
        /\ ag.drained \subseteq Mine(a) /\ ag.late \subseteq Mine(a)
        /\ ag.turn \in Mine(a) \cup {Nobody, Foreign}
        /\ ag.steer \in SteerRec(Mine(a)) /\ ag.steer.run \in Mine(a) \cup {Nobody}
    BY <1>2, HoldFields
  <2>2. /\ ag.steer.mapped => ag.steer.into \in Mine(a)
        /\ ag.steer.run = Nobody => ag.steer = NoSteer
        /\ ag.steering # {} => ag.turn # Nobody
    BY <1>2 DEF HoldsOwn
  <2>3. ag.queued \ {r} \in SUBSET Mine(a)
    BY <2>1
  <2> HIDE DEF ag
  <2> QED BY <2>1, <2>2, <2>3, HoldHolds
<1>6. Grows
  BY <1>1, <1>3, StillRuns
<1> HIDE DEF new
<1>7. AgentsOK'
  BY <1>1, <1>4, <1>5, <1>6, AgentKept
<1>8. BudgetOK'
  BY <1>1, <1>3, FaultSpent
<1> QED BY <1>3, <1>7, <1>8, IdleRuns

LEMMA DieKeeps ==
  ASSUME RunInv, NEW a \in Agents, Die(a)
  PROVE  Kept
<1> DEFINE ag == agent[a]
           new == Hold(ag.routing, {}, Nobody, {}, {}, NoSteer, {}, {})
<1>1. AgentsOK /\ StoreOK(runs) /\ BudgetOK
  BY DEF RunInv
<1>2. HoldsOwn(ag, Mine(a)) /\ Nobody \notin Mine(a) /\ Foreign \notin Mine(a)
  BY <1>1, AgentParts
<1>3. runs' = runs /\ evals' = evals /\ Fault
  BY DEF Die
<1>4. AgentIs(a, new)
  BY <1>1, DieHands
<1>5. HoldsOwn(new, Mine(a))
  <2>1. /\ ag.routing \subseteq Mine(a) /\ ag.queued \subseteq Mine(a)
        /\ ag.absorbed \subseteq Mine(a) /\ ag.steering \subseteq Mine(a)
        /\ ag.drained \subseteq Mine(a) /\ ag.late \subseteq Mine(a)
        /\ ag.turn \in Mine(a) \cup {Nobody, Foreign}
        /\ ag.steer \in SteerRec(Mine(a)) /\ ag.steer.run \in Mine(a) \cup {Nobody}
    BY <1>2, HoldFields
  <2>2. /\ ag.steer.mapped => ag.steer.into \in Mine(a)
        /\ ag.steer.run = Nobody => ag.steer = NoSteer
        /\ ag.steering # {} => ag.turn # Nobody
    BY <1>2 DEF HoldsOwn
  <2>3. /\ NoSteer \in SteerRec(Mine(a)) /\ ~NoSteer.mapped /\ {} \in SUBSET Mine(a)
    BY DEF NoSteer, SteerRec
  <2> HIDE DEF ag
  <2> QED BY <2>1, <2>2, <2>3, HoldHolds
<1>6. Grows
  BY <1>1, <1>3, StillRuns
<1> HIDE DEF new
<1>7. AgentsOK'
  BY <1>1, <1>4, <1>5, <1>6, AgentKept
<1>8. BudgetOK'
  BY <1>1, <1>3, FaultSpent
<1> QED BY <1>3, <1>7, <1>8, IdleRuns

\* An agent's hands with other routes.
LEMMA RoutesHold ==
  ASSUME NEW mine, NEW ag, HoldsOwn(ag, mine), NEW routing \in SUBSET mine
  PROVE  HoldsOwn(Hold(routing, ag.queued, ag.turn, ag.absorbed, ag.steering, ag.steer,
                       ag.drained, ag.late), mine)
<1>1. /\ ag.queued \subseteq mine
      /\ ag.absorbed \subseteq mine /\ ag.steering \subseteq mine
      /\ ag.drained \subseteq mine /\ ag.late \subseteq mine
      /\ ag.turn \in mine \cup {Nobody, Foreign} /\ ag.steer \in SteerRec(mine)
  BY HoldFields
<1>2. /\ ag.steer.mapped => ag.steer.into \in mine
      /\ ag.steer.run = Nobody => ag.steer = NoSteer
      /\ ag.steering # {} => ag.turn # Nobody
  BY DEF HoldsOwn
<1> QED BY <1>1, <1>2, HoldHolds

\* One run is written, and no evaluation begins.
LEMMA WrittenRuns ==
  ASSUME RunInv, NEW r \in DOMAIN runs, NEW new \in RunRec,
         Sound(new), Settled(new), Later(runs[r], new), new.pending => runs[r].pending,
         runs' = [runs EXCEPT ![r] = new], evals' = evals, AgentsOK', BudgetOK'
  PROVE  Kept
<1>1. StoreOK(runs) /\ evals \subseteq EvalRec /\ PendingHasEvaluator
  BY DEF RunInv
<1>2. /\ Grows /\ DOMAIN runs' = DOMAIN runs /\ runs'[r] = new
      /\ \A q \in DOMAIN runs \ {r} : runs'[q] = runs[q]
  BY <1>1, RunWritten
<1>3. evals' \subseteq EvalRec'
  BY <1>1, <1>2, EvalsKept
<1>4. PendingHasEvaluator'
  BY <1>1, <1>2 DEF PendingHasEvaluator
<1>5. StoreOK(runs')
  BY <1>2 DEF Grows
<1> QED BY <1>2, <1>3, <1>4, <1>5 DEF Kept, RunInv

LEMMA RefuseKeeps ==
  ASSUME RunInv, NEW a \in Agents, NEW r, NEW state \in {"refused", "failed"},
         Refuse(a, r, state)
  PROVE  Kept
<1> DEFINE ag == agent[a]
           hands == Hold(ag.routing \ {r}, ag.queued, ag.turn, ag.absorbed, ag.steering,
                         ag.steer, ag.drained, ag.late)
<1>1. AgentsOK /\ StoreOK(runs) /\ BudgetOK
  BY DEF RunInv
<1>2. HoldsOwn(ag, Mine(a))
  BY <1>1, AgentParts
<1>3. /\ r \in ag.routing /\ evals' = evals /\ budget' = budget
      /\ agent' = [agent EXCEPT ![a].routing = ag.routing \ {r}]
      /\ runs' = [runs EXCEPT ![r] = Refused(runs[r], a, state)]
  BY DEF Refuse
<1>4. ag.routing \subseteq Mine(a)
  BY <1>2, HoldFields
<1>5. AgentIs(a, hands)
  BY <1>1, <1>3, FieldHands
<1>6. HoldsOwn(hands, Mine(a))
  BY <1>2, <1>4, RoutesHold
<1>7. r \in DOMAIN runs /\ a \in DOMAIN runs[r].targets
  BY <1>3, <1>4 DEF Mine
<1>8. state \in TargetEnd
  BY DEF TargetEnd
<1>9. PICK new : new = Refused(runs[r], a, state)
  OBVIOUS
<1>10. runs[r] \in RunRec /\ Sound(runs[r])
  BY <1>1, <1>7, StoreFacts
<1>11. /\ new \in RunRec /\ Sound(new) /\ Settled(new) /\ Later(runs[r], new)
       /\ new.pending => runs[r].pending
  BY <1>7, <1>8, <1>9, <1>10, RefusedSays
<1>12. Grows
  BY <1>1, <1>3, <1>7, <1>9, <1>11, RunWritten
<1> HIDE DEF hands
<1>13. AgentsOK'
  BY <1>1, <1>5, <1>6, <1>12, AgentKept
<1>14. BudgetOK'
  BY <1>1, <1>3 DEF BudgetOK
<1> QED BY <1>3, <1>7, <1>9, <1>11, <1>13, <1>14, WrittenRuns

\* The run whose turn starts: it is at work, or keeps an outcome for good.
LEMMA StartedRun ==
  ASSUME NEW run \in RunRec, Sound(run), Settled(run), NEW a \in DOMAIN run.targets
  PROVE  LET new == transitionAsyncRunTarget(run, a, To("working"))
         IN /\ new \in RunRec /\ Sound(new) /\ Settled(new) /\ Later(run, new)
            /\ new.pending = run.pending /\ new.child = run.child
            /\ new.result = run.result
            /\ run.state \in {"completed", "completed_unmet"} => new = run
            /\ \A b \in DOMAIN run.targets \ {a} : new.targets[b] = run.targets[b]
            /\ \/ new.targets = run.targets /\ ~Open(run.targets[a])
               \/ new.targets[a] = To("working")
<1> DEFINE new == transitionAsyncRunTarget(run, a, To("working"))
<1>1. Writable(To("working")) /\ Open(To("working"))
  BY Outcome DEF TargetStates, TargetEnd, Open
<1>2. /\ new \in RunRec /\ Sound(new)
      /\ DOMAIN new.targets = DOMAIN run.targets
      /\ \A b \in DOMAIN run.targets \ {a} : new.targets[b] = run.targets[b]
      /\ \/ /\ new = run /\ ~Open(run.targets[a])
         \/ /\ new.targets[a] = To("working")
            /\ new.state = aggregateAsyncRunState(new.targets)
      /\ run.state \in {"completed", "completed_unmet"} => new = run
      /\ new.contract = run.contract /\ new.pending = run.pending
      /\ new.result = run.result /\ new.torn = run.torn
      /\ new.depth = run.depth /\ new.parent = run.parent /\ new.child = run.child
  BY <1>1, TransitionSays
<1> HIDE DEF new
<1>3. Settled(new)
  <2>1. CASE new = run
    BY <2>1
  <2>2. CASE new.targets[a] = To("working")
    BY <1>1, <1>2, <2>2 DEF Settled, Unsettled, Sound
  <2> QED BY <1>2, <2>1, <2>2
<1>4. Later(run, new)
  BY <1>2 DEF Later
<1> QED BY <1>2, <1>3, <1>4 DEF new

LEMMA StartKeeps ==
  ASSUME RunInv, NEW a \in Agents, NEW r, NEW batch, Start(a, r, batch)
  PROVE  Kept
<1> DEFINE ag == agent[a]
           hands == Hold(ag.routing, (ag.queued \ {r}) \ batch, r, ag.absorbed,
                         ag.steering, SteerAfter(ag, r), ag.drained, ag.late)
<1>1. AgentsOK /\ StoreOK(runs) /\ BudgetOK
  BY DEF RunInv
<1>2. HoldsOwn(ag, Mine(a)) /\ Nobody \notin Mine(a) /\ Foreign \notin Mine(a)
  BY <1>1, AgentParts
<1>3. /\ r \in ag.queued /\ evals' = evals /\ (budget' = budget \/ Fault)
      /\ runs' = [runs EXCEPT ![r] = transitionAsyncRunTarget(runs[r], a, To("working"))]
  BY DEF Start
<1>4. /\ ag.routing \subseteq Mine(a) /\ ag.queued \subseteq Mine(a)
      /\ ag.absorbed \subseteq Mine(a) /\ ag.steering \subseteq Mine(a)
      /\ ag.drained \subseteq Mine(a) /\ ag.late \subseteq Mine(a)
  BY <1>2, HoldFields
<1>5. r \in Mine(a) /\ r # Nobody
  BY <1>2, <1>3, <1>4
<1>6. AgentIs(a, hands)
  BY <1>1, <1>5, StartHands
<1>7. HoldsOwn(hands, Mine(a))
  <2>1. /\ SteerAfter(ag, r) \in SteerRec(Mine(a))
        /\ SteerAfter(ag, r).mapped => ag.steer.into \in Mine(a)
        /\ ag.steer = NoSteer => SteerAfter(ag, r) = NoSteer
    BY <1>2, <1>5, BeginSays
  <2>2. SteerAfter(ag, r).run = ag.steer.run /\ SteerAfter(ag, r).into = ag.steer.into
    BY DEF SteerAfter
  <2>3. /\ (ag.queued \ {r}) \ batch \in SUBSET Mine(a)
        /\ ag.steer.run = Nobody => ag.steer = NoSteer
    BY <1>2, <1>4 DEF HoldsOwn
  <2> HIDE DEF ag
  <2> QED BY <1>4, <1>5, <2>1, <2>2, <2>3, HoldHolds
<1>8. r \in DOMAIN runs /\ a \in DOMAIN runs[r].targets
  BY <1>5 DEF Mine
<1>9. PICK new : new = transitionAsyncRunTarget(runs[r], a, To("working"))
  OBVIOUS
<1>10. runs[r] \in RunRec /\ Sound(runs[r]) /\ Settled(runs[r])
  BY <1>1, <1>8, StoreFacts
<1>11. /\ new \in RunRec /\ Sound(new) /\ Settled(new) /\ Later(runs[r], new)
       /\ new.pending = runs[r].pending
  BY <1>8, <1>9, <1>10, StartedRun
<1>12. Grows
  BY <1>1, <1>3, <1>8, <1>9, <1>11, RunWritten
<1> HIDE DEF hands
<1>13. AgentsOK'
  BY <1>1, <1>6, <1>7, <1>12, AgentKept
<1>14. BudgetOK'
  <2>1. CASE budget' = budget
    BY <1>1, <2>1 DEF BudgetOK
  <2>2. CASE Fault
    BY <1>1, <2>2, FaultSpent
  <2> QED BY <1>3, <2>1, <2>2
<1> QED BY <1>3, <1>8, <1>9, <1>11, <1>13, <1>14, WrittenRuns

LEMMA PostHands ==
  ASSUME AgentsOK, StoreOK(runs), NEW contract, NEW targets, Post(contract, targets)
  PROVE  /\ agent' = [a \in Agents |-> agent'[a]]
         /\ \A a \in Agents \cap targets : LET ag == agent[a] IN
              agent'[a] = Hold(ag.routing \cup {Len(runs) + 1}, ag.queued, ag.turn,
                               ag.absorbed, ag.steering, ag.steer, ag.drained, ag.late)
         /\ \A a \in Agents \ targets : agent'[a] = agent[a]
<1>1. agent' = [a \in Agents |->
        IF a \in targets THEN [agent[a] EXCEPT !.routing = @ \cup {Len(runs) + 1}]
        ELSE agent[a]]
  BY DEF Post
<1>2. ASSUME NEW a \in Agents \cap targets
      PROVE  LET ag == agent[a] IN
             agent'[a] = Hold(ag.routing \cup {Len(runs) + 1}, ag.queued, ag.turn,
                              ag.absorbed, ag.steering, ag.steer, ag.drained, ag.late)
  <2>1. PICK rt, q, t, ab, sg, st, d, l :
          /\ agent[a] = Hold(rt, q, t, ab, sg, st, d, l)
          /\ agent[a].routing = rt /\ agent[a].queued = q /\ agent[a].turn = t
          /\ agent[a].absorbed = ab /\ agent[a].steering = sg /\ agent[a].steer = st
          /\ agent[a].drained = d /\ agent[a].late = l
    BY HeldBy
  <2>2. PICK x : x = rt \cup {Len(runs) + 1}
    OBVIOUS
  <2>3. agent'[a] = [agent[a] EXCEPT !.routing = x]
    BY <1>1, <2>1, <2>2
  <2>4. [agent[a] EXCEPT !.routing = x] = Hold(x, q, t, ab, sg, st, d, l)
    BY <2>1 DEF Hold
  <2> QED BY <2>1, <2>2, <2>3, <2>4
<1>3. \A a \in Agents \ targets : agent'[a] = agent[a]
  BY <1>1
<1>4. agent' = [a \in Agents |-> agent'[a]]
  BY <1>1
<1> QED BY <1>2, <1>3, <1>4

LEMMA PostKeeps ==
  ASSUME RunInv, NEW contract \in BOOLEAN, NEW targets \in SUBSET Agents,
         Post(contract, targets)
  PROVE  Kept
<1> DEFINE next == Len(runs) + 1
<1>1. /\ AgentsOK /\ StoreOK(runs) /\ BudgetOK /\ evals \subseteq EvalRec
      /\ PendingHasEvaluator
  BY DEF RunInv
<1>2. PICK new : new = NewRun(contract, 0, Nobody, targets)
  OBVIOUS
<1>3. /\ new \in RunRec /\ Sound(new) /\ Settled(new)
      /\ DOMAIN new.targets = targets /\ ~new.pending
  BY <1>2, NewRunSays DEF Nobody
<1>4. runs' = Append(runs, new) /\ evals' = evals /\ budget' = budget
  BY <1>2 DEF Post
<1>5. /\ StoreOK(runs') /\ DOMAIN runs' = DOMAIN runs \cup {next}
      /\ next \notin DOMAIN runs
      /\ runs'[next] = new /\ \A q \in DOMAIN runs : runs'[q] = runs[q]
  <2>1. /\ StoreOK(Append(runs, new))
        /\ DOMAIN Append(runs, new) = DOMAIN runs \cup {Len(runs) + 1}
        /\ Len(runs) + 1 \notin DOMAIN runs
        /\ Append(runs, new)[Len(runs) + 1] = new
        /\ \A q \in DOMAIN runs : Append(runs, new)[q] = runs[q]
    BY <1>1, <1>3, RunAdded
  <2> QED BY <1>4, <2>1
<1>6. Grows
  BY <1>5 DEF Grows, Later
<1>7. AgentsOK'
  <2>1. ASSUME NEW a \in Agents
        PROVE  HoldsOwn(agent'[a], Mine(a)')
    <3>1. HoldsOwn(agent[a], Mine(a)')
      BY <1>1, <1>6, MineGrows, HoldsMore DEF AgentsOK
    <3>2. CASE a \in targets
      <4>1. agent'[a] = Hold(agent[a].routing \cup {next}, agent[a].queued, agent[a].turn,
                             agent[a].absorbed, agent[a].steering, agent[a].steer,
                             agent[a].drained, agent[a].late)
        BY <1>1, <3>2, PostHands
      <4>2. next \in Mine(a)'
        BY <1>3, <1>5, <3>2 DEF Mine
      <4>3. agent[a].routing \cup {next} \in SUBSET Mine(a)'
        BY <3>1, <4>2, HoldFields
      <4> QED BY <3>1, <4>1, <4>3, RoutesHold
    <3>3. CASE a \notin targets
      BY <1>1, <3>1, <3>3, PostHands
    <3> QED BY <3>2, <3>3
  <2>2. agent' = [a \in Agents |-> agent'[a]]
    BY <1>1, PostHands
  <2> QED BY <2>1, <2>2 DEF AgentsOK
<1>8. BudgetOK'
  BY <1>1, <1>4 DEF BudgetOK
<1>9. evals' \subseteq EvalRec'
  BY <1>1, <1>4, <1>6, EvalsKept
<1>10. PendingHasEvaluator'
  BY <1>1, <1>3, <1>4, <1>5 DEF PendingHasEvaluator
<1> QED BY <1>5, <1>6, <1>7, <1>8, <1>9, <1>10 DEF Kept, RunInv

\* The turn's own run and those it has absorbed are the agent's, and what
\* finishTurn writes to them are outcomes.
LEMMA OutcomesSay ==
  ASSUME AgentsOK, StoreOK(runs), NEW a \in Agents, agent[a].turn # Nobody,
         NEW target \in {Cut, To("completed"), To("failed"), To("cancelled")}
  PROVE  LET ts == Outcomes(agent[a], target)
         IN /\ DOMAIN ts = ({agent[a].turn} \ {Foreign}) \cup agent[a].absorbed
            /\ DOMAIN ts \subseteq Mine(a)
            /\ \A r \in DOMAIN ts : Writable(ts[r]) /\ ~Open(ts[r])
<1> DEFINE ts == Outcomes(agent[a], target)
<1>1. /\ agent[a].absorbed \subseteq Mine(a)
      /\ agent[a].turn \in Mine(a) \cup {Nobody, Foreign}
  <2>1. HoldsOwn(agent[a], Mine(a))
    BY AgentParts
  <2> QED BY <2>1, HoldFields
<1>2. /\ Writable(target) /\ ~Open(target)
      /\ Writable(To(target.state)) /\ ~Open(To(target.state))
  <2>1. /\ "completed" \in TargetEnd /\ "failed" \in TargetEnd /\ "cancelled" \in TargetEnd
    BY DEF TargetEnd
  <2>2. /\ Cut.state = "cancelled" /\ To("completed").state = "completed"
        /\ To("failed").state = "failed" /\ To("cancelled").state = "cancelled"
    BY DEF Cut, To
  <2>3. \A st \in TargetEnd : Writable(To(st)) /\ ~Open(To(st))
    BY Outcome
  <2>4. Writable(Cut) /\ ~Open(Cut)
    BY Outcome
  <2>5. CASE target = Cut
    BY <2>1, <2>2, <2>3, <2>4, <2>5
  <2>6. CASE target = To("completed")
    BY <2>1, <2>2, <2>3, <2>6
  <2>7. CASE target = To("failed")
    BY <2>1, <2>2, <2>3, <2>7
  <2>8. CASE target = To("cancelled")
    BY <2>1, <2>2, <2>3, <2>8
  <2> QED BY <2>5, <2>6, <2>7, <2>8
<1>3. /\ DOMAIN ts = ({agent[a].turn} \ {Foreign}) \cup agent[a].absorbed
      /\ \A r \in DOMAIN ts : ts[r] = IF r = agent[a].turn THEN target ELSE To(target.state)
  BY DEF Outcomes
<1> HIDE DEF ts
<1>4. DOMAIN ts \subseteq Mine(a)
  BY <1>1, <1>3
<1>5. \A r \in DOMAIN ts : Writable(ts[r]) /\ ~Open(ts[r])
  BY <1>2, <1>3
<1> QED BY <1>3, <1>4, <1>5 DEF ts

\* A step of Settle, with what the agent goes on to hold.
LEMMA SettledRuns ==
  ASSUME RunInv, NEW a \in Agents, NEW ts, SettleDone(a, ts), AgentsOK', BudgetOK'
  PROVE  Kept
BY DEF SettleDone, Kept, RunInv, Grows

LEMMA ApprovalKeeps ==
  ASSUME RunInv, NEW a \in Agents, NEW state \in {"input-required", "working"},
         Approval(a, state)
  PROVE  /\ Kept /\ SettleDone(a, [r \in {agent[a].turn} |-> To(state)])
         /\ agent[a].turn \in Mine(a)
<1> DEFINE ts == [r \in {agent[a].turn} |-> To(state)]
<1>1. /\ AgentsOK /\ StoreOK(runs) /\ BudgetOK /\ evals \subseteq EvalRec
      /\ PendingHasEvaluator
  BY DEF RunInv
<1>2. /\ agent[a].turn > 0 /\ Settle(a, ts) /\ agent' = agent /\ budget' = budget
  BY DEF Approval
<1>3. agent[a].turn \in Mine(a)
  <2>1. agent[a].turn \in Mine(a) \cup {Nobody, Foreign}
    BY <1>1, AgentParts, HoldFields
  <2> QED BY <1>2, <2>1 DEF Nobody, Foreign
<1>4. DOMAIN ts \subseteq Mine(a) /\ \A r \in DOMAIN ts : ts[r] = To(state)
  BY <1>3
<1>5. Writable(To(state))
  BY Outcome DEF TargetStates
<1> HIDE DEF ts
<1>6. SettleDone(a, ts)
  BY <1>1, <1>2, <1>4, <1>5, SettleSays
<1>7. Grows
  BY <1>6 DEF SettleDone
<1>8. AgentsOK' /\ BudgetOK'
  BY <1>1, <1>2, <1>7, StillAgents DEF BudgetOK
<1>9. Kept
  BY <1>6, <1>8, SettledRuns
<1> QED BY <1>3, <1>6, <1>9 DEF ts

LEMMA FinishKeeps ==
  ASSUME RunInv, NEW a \in Agents, NEW state \in {"completed", "failed", "cancelled"},
         NEW patch, Finish(a, state, patch)
  PROVE  /\ Kept /\ SettleDone(a, Outcomes(agent[a], To(state)))
         /\ AgentIs(a, Hold(agent[a].routing, agent[a].queued \cup agent[a].steering,
                            Nobody, {}, {}, SteerLate(agent[a]),
                            agent[a].drained, agent[a].late))
<1> DEFINE ag == agent[a]
           ts == Outcomes(ag, To(state))
           hands == Hold(ag.routing, ag.queued \cup ag.steering, Nobody, {}, {},
                         SteerLate(ag), ag.drained, ag.late)
<1>1. /\ AgentsOK /\ StoreOK(runs) /\ BudgetOK /\ evals \subseteq EvalRec
      /\ PendingHasEvaluator
  BY DEF RunInv
<1>2. /\ ag.turn # Nobody /\ Settle(a, ts) /\ agent' = [agent EXCEPT ![a] = Ended(@)]
      /\ budget' = budget
  BY DEF Finish
<1>3. To(state) \in {Cut, To("completed"), To("failed"), To("cancelled")}
  OBVIOUS
<1>4. DOMAIN ts \subseteq Mine(a) /\ \A r \in DOMAIN ts : Writable(ts[r])
  BY <1>1, <1>2, <1>3, OutcomesSay
<1>5. AgentIs(a, hands)
  BY <1>1, <1>2, EndHands
<1>6. HoldsOwn(hands, Mine(a))
  <2>1. HoldsOwn(ag, Mine(a))
    BY <1>1, AgentParts
  <2>2. /\ ag.routing \subseteq Mine(a) /\ ag.queued \subseteq Mine(a)
        /\ ag.steering \subseteq Mine(a)
        /\ ag.drained \subseteq Mine(a) /\ ag.late \subseteq Mine(a)
    BY <2>1, HoldFields
  <2>3. /\ SteerLate(ag) \in SteerRec(Mine(a))
        /\ SteerLate(ag).run = ag.steer.run /\ SteerLate(ag).into = ag.steer.into
        /\ SteerLate(ag).mapped => ag.steer.into \in Mine(a)
        /\ ag.steer = NoSteer => SteerLate(ag) = NoSteer
    BY <2>1, EndedSays
  <2>4. /\ ag.steer.run = Nobody => ag.steer = NoSteer
        /\ ag.queued \cup ag.steering \in SUBSET Mine(a) /\ {} \in SUBSET Mine(a)
    BY <2>1, <2>2 DEF HoldsOwn
  <2> HIDE DEF ag
  <2> QED BY <2>2, <2>3, <2>4, HoldHolds
<1> HIDE DEF ts, hands
<1>7. SettleDone(a, ts)
  BY <1>1, <1>2, <1>4, SettleSays
<1>8. Grows
  BY <1>7 DEF SettleDone
<1>9. AgentsOK'
  BY <1>1, <1>5, <1>6, <1>8, AgentKept
<1>10. BudgetOK'
  BY <1>1, <1>2 DEF BudgetOK
<1>11. Kept
  BY <1>7, <1>9, <1>10, SettledRuns
<1> QED BY <1>5, <1>7, <1>11 DEF ts, hands

LEMMA DrainKeeps ==
  ASSUME RunInv, NEW a \in Agents, NEW target \in {Cut, To("failed")},
         DrainBounded(a, target)
  PROVE  /\ Kept /\ SettleDone(a, Outcomes(agent[a], target))
         /\ LET own == {agent[a].turn} \ {Foreign}
            IN AgentIs(a, Hold(agent[a].routing, agent[a].queued \cup agent[a].steering,
                               Nobody, {}, {}, SteerLate(agent[a]),
                               agent[a].drained \cup own, agent[a].late \cup own))
<1> DEFINE ag == agent[a]
           ts == Outcomes(ag, target)
           own == {ag.turn} \ {Foreign}
           hands == Hold(ag.routing, ag.queued \cup ag.steering, Nobody, {}, {},
                         SteerLate(ag), ag.drained \cup own, ag.late \cup own)
<1>1. /\ AgentsOK /\ StoreOK(runs) /\ BudgetOK /\ evals \subseteq EvalRec
      /\ PendingHasEvaluator
  BY DEF RunInv
<1>2. /\ ag.turn # Nobody /\ Settle(a, ts) /\ Fault
      /\ agent' = [agent EXCEPT ![a] =
            [Ended(agent[a]) EXCEPT !.drained = @ \cup own, !.late = @ \cup own]]
  BY DEF DrainBounded
<1>3. target \in {Cut, To("completed"), To("failed"), To("cancelled")}
  OBVIOUS
<1>4. DOMAIN ts \subseteq Mine(a) /\ \A r \in DOMAIN ts : Writable(ts[r])
  BY <1>1, <1>2, <1>3, OutcomesSay
<1>5. AgentIs(a, hands)
  BY <1>1, <1>2, EndHands
<1>6. HoldsOwn(hands, Mine(a))
  <2>1. HoldsOwn(ag, Mine(a))
    BY <1>1, AgentParts
  <2>2. /\ ag.routing \subseteq Mine(a) /\ ag.queued \subseteq Mine(a)
        /\ ag.steering \subseteq Mine(a) /\ ag.turn \in Mine(a) \cup {Nobody, Foreign}
        /\ ag.drained \subseteq Mine(a) /\ ag.late \subseteq Mine(a)
    BY <2>1, HoldFields
  <2>3. /\ SteerLate(ag) \in SteerRec(Mine(a))
        /\ SteerLate(ag).run = ag.steer.run /\ SteerLate(ag).into = ag.steer.into
        /\ SteerLate(ag).mapped => ag.steer.into \in Mine(a)
        /\ ag.steer = NoSteer => SteerLate(ag) = NoSteer
    BY <2>1, EndedSays
  <2>4. /\ ag.steer.run = Nobody => ag.steer = NoSteer
        /\ ag.queued \cup ag.steering \in SUBSET Mine(a) /\ {} \in SUBSET Mine(a)
        /\ ag.drained \cup own \in SUBSET Mine(a) /\ ag.late \cup own \in SUBSET Mine(a)
    BY <1>2, <2>1, <2>2 DEF HoldsOwn
  <2> HIDE DEF ag, own
  <2> QED BY <2>2, <2>3, <2>4, HoldHolds
<1> HIDE DEF ts, hands
<1>7. SettleDone(a, ts)
  BY <1>1, <1>2, <1>4, SettleSays
<1>8. Grows
  BY <1>7 DEF SettleDone
<1>9. AgentsOK'
  BY <1>1, <1>5, <1>6, <1>8, AgentKept
<1>10. BudgetOK'
  BY <1>1, <1>2, FaultSpent
<1>11. Kept
  BY <1>7, <1>9, <1>10, SettledRuns
<1> QED BY <1>5, <1>7, <1>11 DEF ts, hands

LEMMA LateKeeps ==
  ASSUME RunInv, NEW a \in Agents, NEW r,
         NEW state \in {"completed", "failed", "cancelled"}, LateTerminal(a, r, state)
  PROVE  /\ Kept /\ SettleDone(a, [q \in {r} |-> To(state)]) /\ r \in Mine(a)
         /\ AgentIs(a, Hold(agent[a].routing, agent[a].queued, agent[a].turn,
                            agent[a].absorbed, agent[a].steering, agent[a].steer,
                            agent[a].drained, agent[a].late \ {r}))
<1> DEFINE ag == agent[a]
           ts == [q \in {r} |-> To(state)]
           hands == Hold(ag.routing, ag.queued, ag.turn, ag.absorbed, ag.steering, ag.steer,
                         ag.drained, ag.late \ {r})
<1>1. /\ AgentsOK /\ StoreOK(runs) /\ BudgetOK /\ evals \subseteq EvalRec
      /\ PendingHasEvaluator
  BY DEF RunInv
<1>2. /\ r \in ag.late \cup ag.drained /\ Settle(a, ts) /\ budget' = budget
      /\ agent' = [agent EXCEPT ![a].late = ag.late \ {r}]
  BY DEF LateTerminal
<1>3. HoldsOwn(ag, Mine(a))
  BY <1>1, AgentParts
<1>4. /\ ag.routing \subseteq Mine(a) /\ ag.queued \subseteq Mine(a)
      /\ ag.absorbed \subseteq Mine(a) /\ ag.steering \subseteq Mine(a)
      /\ ag.drained \subseteq Mine(a) /\ ag.late \subseteq Mine(a)
      /\ ag.turn \in Mine(a) \cup {Nobody, Foreign}
      /\ ag.steer \in SteerRec(Mine(a))
  BY <1>3, HoldFields
<1>5. r \in Mine(a)
  BY <1>2, <1>4
<1>6. DOMAIN ts \subseteq Mine(a) /\ \A q \in DOMAIN ts : ts[q] = To(state)
  BY <1>5
<1>7. Writable(To(state))
  BY Outcome DEF TargetStates, TargetEnd
<1>8. AgentIs(a, hands)
  BY <1>1, <1>2, FieldHands
<1>9. HoldsOwn(hands, Mine(a))
  <2>1. /\ ag.steer.mapped => ag.steer.into \in Mine(a)
        /\ ag.steer.run = Nobody => ag.steer = NoSteer
        /\ ag.steering # {} => ag.turn # Nobody
    BY <1>3 DEF HoldsOwn
  <2>2. ag.late \ {r} \in SUBSET Mine(a)
    BY <1>4
  <2> HIDE DEF ag
  <2> QED BY <1>4, <2>1, <2>2, HoldHolds
<1> HIDE DEF ts, hands
<1>10. SettleDone(a, ts)
  BY <1>1, <1>2, <1>6, <1>7, SettleSays
<1>11. Grows
  BY <1>10 DEF SettleDone
<1>12. AgentsOK'
  BY <1>1, <1>8, <1>9, <1>11, AgentKept
<1>13. BudgetOK'
  BY <1>1, <1>2 DEF BudgetOK
<1>14. Kept
  BY <1>10, <1>12, <1>13, SettledRuns
<1> QED BY <1>5, <1>8, <1>10, <1>14 DEF ts, hands

\* What an accepted steer writes to its run.
AcceptState(a) == IF agent[a].steer.live THEN "working" ELSE AbsorberState(a)

LEMMA AcceptedKeeps ==
  ASSUME RunInv, NEW a \in Agents, SteerAccepted(a)
  PROVE  /\ Kept /\ SettleDone(a, [r \in {agent[a].steer.run} |-> To(AcceptState(a))])
         /\ agent[a].steer.run \in Mine(a) /\ AcceptState(a) \in TargetStates
         /\ AcceptState(a) = "working" \/ AcceptState(a) \in TargetEnd
         /\ AgentIs(a, Hold(agent[a].routing, agent[a].queued, agent[a].turn,
                            IF agent[a].steer.live
                            THEN agent[a].absorbed \cup {agent[a].steer.run}
                            ELSE agent[a].absorbed,
                            agent[a].steering, NoSteer,
                            agent[a].drained, agent[a].late))
<1> DEFINE ag == agent[a]
           run == ag.steer.run
           ts == [r \in {run} |-> To(AcceptState(a))]
           ab == IF ag.steer.live THEN ag.absorbed \cup {run} ELSE ag.absorbed
           hands == Hold(ag.routing, ag.queued, ag.turn, ab, ag.steering, NoSteer,
                         ag.drained, ag.late)
<1>1. /\ AgentsOK /\ StoreOK(runs) /\ BudgetOK /\ evals \subseteq EvalRec
      /\ PendingHasEvaluator
  BY DEF RunInv
<1>2. /\ ag.steer # NoSteer /\ Settle(a, ts) /\ (budget' = budget \/ Fault)
      /\ agent' = [agent EXCEPT ![a].steer = NoSteer, ![a].absorbed = ab]
  BY DEF SteerAccepted, AcceptState
<1>3. HoldsOwn(ag, Mine(a))
  BY <1>1, AgentParts
<1>4. /\ ag.routing \subseteq Mine(a) /\ ag.queued \subseteq Mine(a)
      /\ ag.absorbed \subseteq Mine(a) /\ ag.steering \subseteq Mine(a)
      /\ ag.drained \subseteq Mine(a) /\ ag.late \subseteq Mine(a)
      /\ ag.turn \in Mine(a) \cup {Nobody, Foreign}
      /\ ag.steer.run \in Mine(a) \cup {Nobody}
  BY <1>3, HoldFields
<1>5. run \in Mine(a)
  BY <1>2, <1>3, <1>4 DEF HoldsOwn
<1>6. /\ AcceptState(a) \in TargetStates
      /\ AcceptState(a) = "working" \/ AcceptState(a) \in TargetEnd
  BY DEF AcceptState, AbsorberState, Open, TargetStates
<1>7. DOMAIN ts \subseteq Mine(a) /\ \A r \in DOMAIN ts : ts[r] = To(AcceptState(a))
  BY <1>5
<1>8. Writable(To(AcceptState(a)))
  BY <1>6, Outcome
<1>9. AgentIs(a, hands)
  <2> HIDE DEF ab
  <2> QED BY <1>1, <1>2, FieldHands
<1>10. HoldsOwn(hands, Mine(a))
  <2>1. ag.steering # {} => ag.turn # Nobody
    BY <1>3 DEF HoldsOwn
  <2>2. /\ NoSteer \in SteerRec(Mine(a)) /\ ~NoSteer.mapped
    BY DEF NoSteer, SteerRec
  <2>3. ab \in SUBSET Mine(a)
    BY <1>4, <1>5
  <2> HIDE DEF ag, ab
  <2> QED BY <1>4, <2>1, <2>2, <2>3, HoldHolds
<1> HIDE DEF ts, hands
<1>11. SettleDone(a, ts)
  BY <1>1, <1>2, <1>7, <1>8, SettleSays
<1>12. Grows
  BY <1>11 DEF SettleDone
<1>13. AgentsOK'
  BY <1>1, <1>9, <1>10, <1>12, AgentKept
<1>14. BudgetOK'
  <2>1. CASE budget' = budget
    BY <1>1, <2>1 DEF BudgetOK
  <2>2. CASE Fault
    BY <1>1, <2>2, FaultSpent
  <2> QED BY <1>2, <2>1, <2>2
<1>15. Kept
  BY <1>11, <1>13, <1>14, SettledRuns
<1> QED BY <1>5, <1>6, <1>9, <1>11, <1>15 DEF ts, hands

\* One entry of a store is written.
LEMMA EntryWritten ==
  ASSUME NEW db, StoreOK(db), NEW r \in DOMAIN db, NEW new \in RunRec,
         Sound(new), Settled(new)
  PROVE  /\ StoreOK([db EXCEPT ![r] = new]) /\ DOMAIN [db EXCEPT ![r] = new] = DOMAIN db
         /\ Len([db EXCEPT ![r] = new]) = Len(db)
         /\ [db EXCEPT ![r] = new][r] = new
         /\ \A q \in DOMAIN db \ {r} : [db EXCEPT ![r] = new][q] = db[q]
<1>1. /\ Len(db) \in Nat /\ DOMAIN db = 1..Len(db) /\ db \in Seq(RunRec)
      /\ \A q \in DOMAIN db : db[q] \in RunRec /\ Sound(db[q]) /\ Settled(db[q])
  BY StoreFacts DEF StoreOK
<1>2. PICK next : next = [db EXCEPT ![r] = new]
  OBVIOUS
<1>3. /\ DOMAIN next = DOMAIN db /\ next[r] = new
      /\ \A q \in DOMAIN db \ {r} : next[q] = db[q]
  BY <1>1, <1>2
<1>4. next \in Seq(RunRec) /\ Len(next) = Len(db)
  BY <1>1, <1>2, <1>3
<1>5. StoreOK(next)
  BY <1>1, <1>3, <1>4 DEF StoreOK
<1> QED BY <1>2, <1>3, <1>4, <1>5

LEMMA LaterStill ==
  ASSUME NEW run, NEW mid, NEW new, Later(run, mid), Later(mid, new)
  PROVE  Later(run, new)
BY DEF Later

\* The run after its evaluation, with the chain's decision.
Decided(done, decided, abandoned) ==
  [done EXCEPT !.decided = decided, !.abandoned = abandoned]

LEMMA StampSays ==
  ASSUME NEW run \in RunRec, NEW decided \in BOOLEAN, NEW abandoned \in BOOLEAN
  PROVE  LET new == Decided(run, decided, abandoned)
         IN /\ new \in RunRec
            /\ new.targets = run.targets /\ new.state = run.state
            /\ new.contract = run.contract /\ new.pending = run.pending
            /\ new.result = run.result /\ new.torn = run.torn
            /\ new.depth = run.depth /\ new.parent = run.parent /\ new.child = run.child
<1>1. Decided(run, decided, abandoned) \in RunRec
  BY DEF Decided, RunRec
<1>2. LET new == Decided(run, decided, abandoned)
      IN /\ new.targets = run.targets /\ new.state = run.state
         /\ new.contract = run.contract /\ new.pending = run.pending
         /\ new.result = run.result /\ new.torn = run.torn
         /\ new.depth = run.depth /\ new.parent = run.parent /\ new.child = run.child
  BY DEF Decided, RunRec
<1> QED BY <1>1, <1>2

\* An evaluation writes the run's result and nothing else that matters, and
\* goes on only when the contract is unmet and the chain has room.
LEMMA EvaluateSays ==
  ASSUME RunInv, NEW e, NEW verdict \in {"met", "unmet", "unknown"},
         NEW paused \in BOOLEAN, Evaluate(e, verdict, paused)
  PROVE  /\ Kept /\ e \in evals /\ e.step = "probe" /\ agent' = agent
         /\ DOMAIN runs' = DOMAIN runs /\ \A q \in DOMAIN runs \ {e.run} : runs'[q] = runs[q]
         /\ LET run == runs[e.run]  new == runs'[e.run]
            IN /\ new.targets = run.targets /\ new.child = run.child
               /\ new.result = IF run.result = "none" THEN verdict ELSE run.result
               /\ new.state = IF new.result = "unmet" /\ run.state = "completed"
                              THEN "completed_unmet" ELSE run.state
         /\ \/ evals' = evals \ {e}
            \/ /\ evals' = (evals \ {e}) \cup {[e EXCEPT !.step = "post"]}
               /\ verdict = "unmet" /\ runs[e.run].child = Nobody /\ ~Spent(runs[e.run])
<1> DEFINE run == runs[e.run]
           done == finalizeAsyncRunDeliveryContract(run, verdict)
           unmet == verdict = "unmet"
           may == unmet /\ done.child = Nobody /\ ~paused
           follow == may /\ ~Spent(done)
           decided == done.decided \/ (unmet /\ ~follow)
           abandoned == done.abandoned \/ (may /\ ~follow /\ MaxFollowups > 0)
           new == Decided(done, decided, abandoned)
<1>1. /\ AgentsOK /\ StoreOK(runs) /\ BudgetOK /\ evals \subseteq EvalRec
      /\ PendingHasEvaluator
  BY DEF RunInv
<1>2. /\ e \in evals /\ e.step = "probe" /\ agent' = agent /\ budget' = budget
      /\ runs' = [runs EXCEPT ![e.run] = new]
      /\ evals' = (evals \ {e}) \cup (IF follow THEN {[e EXCEPT !.step = "post"]} ELSE {})
  BY DEF Evaluate, Decided
<1>3. e \in EvalRec /\ e.run \in DOMAIN runs
  BY <1>1, <1>2 DEF EvalRec
<1>4. run \in RunRec /\ Sound(run)
  BY <1>1, <1>3, StoreFacts
<1>5. verdict \in Results \ {"none"}
  BY DEF Results
<1>6. /\ done \in RunRec /\ Sound(done) /\ Later(run, done)
      /\ done.targets = run.targets /\ ~done.pending
      /\ done.child = run.child
      /\ done.result = IF run.result = "none" THEN verdict ELSE run.result
      /\ done.state = IF done.result = "unmet" /\ run.state = "completed"
                      THEN "completed_unmet" ELSE run.state
  BY <1>4, <1>5, FinalizeSays
<1>7. decided \in BOOLEAN /\ abandoned \in BOOLEAN
  OBVIOUS
<1>8. follow => verdict = "unmet" /\ done.child = Nobody /\ ~Spent(done)
  OBVIOUS
<1>9. Spent(done) <=> Spent(run)
  BY <1>6 DEF Spent, Later
<1> HIDE DEF done, decided, abandoned, follow, run
<1>10. /\ new \in RunRec
       /\ new.targets = done.targets /\ new.state = done.state
       /\ new.contract = done.contract /\ new.pending = done.pending
       /\ new.result = done.result /\ new.torn = done.torn
       /\ new.depth = done.depth /\ new.parent = done.parent /\ new.child = done.child
  BY <1>6, <1>7, StampSays
<1> HIDE DEF new
<1>11. Sound(new)
  BY <1>6, <1>10 DEF Sound
<1>12. new.result # "none"
  BY <1>5, <1>6, <1>10
<1>13. Settled(new)
  BY <1>12 DEF Settled, Unsettled
<1>14. Later(run, new)
  BY <1>6, <1>10 DEF Later
<1>15. /\ Grows /\ DOMAIN runs' = DOMAIN runs /\ runs'[e.run] = new
       /\ \A q \in DOMAIN runs \ {e.run} : runs'[q] = runs[q]
  BY <1>1, <1>2, <1>3, <1>10, <1>11, <1>13, <1>14, RunWritten DEF run
<1>16. AgentsOK' /\ BudgetOK'
  BY <1>1, <1>2, <1>15, StillAgents DEF BudgetOK
<1>17. EvalRec' = EvalRec
  BY <1>15 DEF EvalRec
<1>18. [e EXCEPT !.step = "post"] \in EvalRec
  BY <1>3 DEF EvalRec
<1>19. evals' \subseteq EvalRec'
  BY <1>1, <1>2, <1>17, <1>18
<1>20. PendingHasEvaluator'
  <2>1. SUFFICES ASSUME NEW q \in DOMAIN runs, runs'[q].pending
                 PROVE  \E f \in evals' : f.run = q /\ f.step = "probe"
    BY <1>15 DEF PendingHasEvaluator
  <2>2. q # e.run /\ runs[q].pending
    BY <1>6, <1>10, <1>15, <2>1
  <2>3. PICK f \in evals : f.run = q /\ f.step = "probe"
    BY <1>1, <2>2 DEF PendingHasEvaluator
  <2> QED BY <1>2, <2>2, <2>3
<1>21. StoreOK(runs')
  BY <1>15 DEF Grows
<1>22. Kept
  BY <1>15, <1>16, <1>19, <1>20, <1>21 DEF Kept, RunInv
<1>23. /\ runs'[e.run].targets = run.targets /\ runs'[e.run].child = run.child
       /\ runs'[e.run].result = IF run.result = "none" THEN verdict ELSE run.result
       /\ runs'[e.run].state = IF runs'[e.run].result = "unmet" /\ run.state = "completed"
                               THEN "completed_unmet" ELSE run.state
  BY <1>6, <1>10, <1>15
<1>24. \/ evals' = evals \ {e}
       \/ /\ evals' = (evals \ {e}) \cup {[e EXCEPT !.step = "post"]}
          /\ verdict = "unmet" /\ run.child = Nobody /\ ~Spent(run)
  BY <1>2, <1>6, <1>8, <1>9
<1> QED BY <1>2, <1>15, <1>22, <1>23, <1>24 DEF run

\* FollowupFails only stamps the run.
LEMMA FailsSays ==
  ASSUME RunInv, NEW e, FollowupFails(e)
  PROVE  /\ Kept /\ e \in evals /\ e.step = "post" /\ agent' = agent
         /\ evals' = evals \ {e} /\ Fault
         /\ DOMAIN runs' = DOMAIN runs /\ \A q \in DOMAIN runs \ {e.run} : runs'[q] = runs[q]
         /\ LET run == runs[e.run]  new == runs'[e.run]
            IN /\ new.targets = run.targets /\ new.child = run.child
               /\ new.result = run.result /\ new.state = run.state
<1> DEFINE run == runs[e.run]
           new == [run EXCEPT !.abandoned = TRUE]
<1>1. /\ AgentsOK /\ StoreOK(runs) /\ BudgetOK /\ evals \subseteq EvalRec
      /\ PendingHasEvaluator
  BY DEF RunInv
<1>2. /\ e \in evals /\ e.step = "post" /\ agent' = agent /\ Fault
      /\ runs' = [runs EXCEPT ![e.run] = new] /\ evals' = evals \ {e}
  BY DEF FollowupFails
<1>3. e.run \in DOMAIN runs
  BY <1>1, <1>2 DEF EvalRec
<1>4. run \in RunRec /\ Sound(run) /\ Settled(run)
  BY <1>1, <1>3, StoreFacts
<1> HIDE DEF run
<1>5. new \in RunRec
  BY <1>4 DEF RunRec
<1>6. /\ new.targets = run.targets /\ new.state = run.state
      /\ new.contract = run.contract /\ new.pending = run.pending
      /\ new.result = run.result /\ new.torn = run.torn
      /\ new.depth = run.depth /\ new.parent = run.parent /\ new.child = run.child
  BY <1>4 DEF RunRec
<1> HIDE DEF new
<1>7. Sound(new) /\ Settled(new) /\ Later(run, new)
  BY <1>4, <1>6 DEF Sound, Settled, Unsettled, Later
<1>8. /\ Grows /\ DOMAIN runs' = DOMAIN runs /\ runs'[e.run] = new
      /\ \A q \in DOMAIN runs \ {e.run} : runs'[q] = runs[q]
  BY <1>1, <1>2, <1>3, <1>5, <1>7, RunWritten DEF run
<1>9. AgentsOK' /\ BudgetOK'
  BY <1>1, <1>2, <1>8, StillAgents, FaultSpent
<1>10. evals' \subseteq EvalRec'
  BY <1>1, <1>2, <1>8, EvalsKept
<1>11. PendingHasEvaluator'
  <2>1. SUFFICES ASSUME NEW q \in DOMAIN runs, runs'[q].pending
                 PROVE  \E f \in evals' : f.run = q /\ f.step = "probe"
    BY <1>8 DEF PendingHasEvaluator
  <2>2. runs[q].pending
    BY <1>6, <1>8, <2>1 DEF run
  <2>3. PICK f \in evals : f.run = q /\ f.step = "probe"
    BY <1>1, <2>2 DEF PendingHasEvaluator
  <2> QED BY <1>2, <2>3
<1>12. StoreOK(runs')
  BY <1>8 DEF Grows
<1>13. Kept
  BY <1>8, <1>9, <1>10, <1>11, <1>12 DEF Kept, RunInv
<1> QED BY <1>2, <1>6, <1>8, <1>13 DEF run

\* The follow-up, routed or refused.
FollowupRun(e, routed) ==
  IF routed THEN Child(e) ELSE Refused(Child(e), e.by, "rejected")

LEMMA ChildSays ==
  ASSUME RunInv, NEW e \in evals, NEW routed \in BOOLEAN
  PROVE  LET new == FollowupRun(e, routed)
         IN /\ new \in RunRec /\ Sound(new) /\ Settled(new) /\ ~new.pending
            /\ DOMAIN new.targets = {e.by} /\ new.child = Nobody
            /\ new.depth = runs[e.run].depth + 1 /\ new.parent = e.run
            /\ routed <=> Open(new.targets[e.by])
<1>1. /\ StoreOK(runs) /\ e \in EvalRec
  BY DEF RunInv
<1>2. e.by \in Agents /\ e.run \in DOMAIN runs
  BY <1>1 DEF EvalRec
<1>3. runs[e.run] \in RunRec /\ e.run \in Nat
  BY <1>1, <1>2, StoreFacts
<1>4. runs[e.run].depth + 1 \in Nat /\ {e.by} \in SUBSET Agents
  BY <1>2, <1>3 DEF RunRec
<1>5. PICK c : c = Child(e)
  OBVIOUS
<1>6. c = NewRun(TRUE, runs[e.run].depth + 1, e.run, {e.by})
  BY <1>5 DEF Child
<1>7. /\ c \in RunRec /\ Sound(c) /\ Settled(c) /\ DOMAIN c.targets = {e.by}
      /\ Open(c.targets[e.by]) /\ c.depth = runs[e.run].depth + 1 /\ c.parent = e.run
      /\ c.child = Nobody /\ ~c.pending
  <2>1. PICK contract \in BOOLEAN : contract = TRUE
    OBVIOUS
  <2>2. c = NewRun(contract, runs[e.run].depth + 1, e.run, {e.by})
    BY <1>6, <2>1
  <2>3. PICK d \in Nat, tg \in SUBSET Agents : d = runs[e.run].depth + 1 /\ tg = {e.by}
    BY <1>4
  <2>4. c = NewRun(contract, d, e.run, tg)
    BY <2>2, <2>3
  <2>5. /\ c \in RunRec /\ Sound(c) /\ Settled(c) /\ DOMAIN c.targets = tg
        /\ \A a \in tg : Open(c.targets[a])
        /\ c.depth = d /\ c.parent = e.run /\ c.child = Nobody /\ ~c.pending
    BY <1>3, <2>4, NewRunSays
  <2> QED BY <2>3, <2>5
<1>8. CASE routed
  BY <1>5, <1>7, <1>8 DEF FollowupRun
<1>9. CASE ~routed
  <2>1. PICK new : new = Refused(c, e.by, "rejected")
    OBVIOUS
  <2>2. e.by \in DOMAIN c.targets /\ "rejected" \in TargetEnd
    BY <1>7 DEF TargetEnd
  <2>3. /\ new \in RunRec /\ Sound(new) /\ Settled(new) /\ Later(c, new)
        /\ ~Open(new.targets[e.by]) /\ new.child = c.child
        /\ new.pending => c.pending
    BY <1>7, <2>1, <2>2, RefusedSays
  <2>4. FollowupRun(e, routed) = new
    BY <1>5, <1>9, <2>1 DEF FollowupRun
  <2>5. DOMAIN new.targets = {e.by} /\ new.depth = c.depth /\ new.parent = c.parent
    BY <1>7, <2>3 DEF Later
  <2> QED BY <1>7, <1>9, <2>3, <2>4, <2>5
<1> QED BY <1>8, <1>9

\* A follow-up is added below its run, which remembers it.
LEMMA FollowupSays ==
  ASSUME RunInv, NEW e, NEW routed \in BOOLEAN, PostFollowup(e, routed)
  PROVE  LET next == Len(runs) + 1
             new == FollowupRun(e, routed)
         IN /\ Kept /\ e \in evals /\ e.step = "post" /\ evals' = evals \ {e}
            /\ DOMAIN runs' = DOMAIN runs \cup {next} /\ next \notin DOMAIN runs
            /\ runs'[next] = new
            /\ \A q \in DOMAIN runs \ {e.run} : runs'[q] = runs[q]
            /\ /\ runs'[e.run].targets = runs[e.run].targets
               /\ runs'[e.run].result = runs[e.run].result
               /\ runs'[e.run].state = runs[e.run].state
            /\ IF routed
               THEN AgentIs(e.by, Hold(agent[e.by].routing \cup {next}, agent[e.by].queued,
                                       agent[e.by].turn, agent[e.by].absorbed,
                                       agent[e.by].steering, agent[e.by].steer,
                                       agent[e.by].drained, agent[e.by].late))
               ELSE agent' = agent
            /\ budget' = budget
<1> DEFINE run == runs[e.run]
           next == Len(runs) + 1
           x == IF run.child = Nobody THEN next ELSE run.child
           told == [run EXCEPT !.child = x]
           db == [runs EXCEPT ![e.run] = told]
           new == FollowupRun(e, routed)
           hands == Hold(agent[e.by].routing \cup {next}, agent[e.by].queued,
                         agent[e.by].turn, agent[e.by].absorbed,
                         agent[e.by].steering, agent[e.by].steer,
                         agent[e.by].drained, agent[e.by].late)
<1>1. /\ AgentsOK /\ StoreOK(runs) /\ BudgetOK /\ evals \subseteq EvalRec
      /\ PendingHasEvaluator
  BY DEF RunInv
<1>2. e \in evals /\ e.step = "post" /\ budget' = budget /\ evals' = evals \ {e}
  BY DEF PostFollowup
<1>3. e.run \in DOMAIN runs /\ e.by \in Agents
  BY <1>1, <1>2 DEF EvalRec
<1>4. run \in RunRec /\ Sound(run) /\ Settled(run) /\ Len(runs) \in Nat
  BY <1>1, <1>3, StoreFacts
<1>5. runs' = Append(db, new)
  BY DEF PostFollowup, FollowupRun
<1>6. x \in Nat
  BY <1>4 DEF RunRec
<1>7. agent' = IF routed THEN [agent EXCEPT ![e.by].routing = agent[e.by].routing \cup {next}]
               ELSE agent
  BY DEF PostFollowup
<1> HIDE DEF run, x
<1>8. told \in RunRec
  BY <1>4, <1>6 DEF RunRec
<1>9. /\ told.targets = run.targets /\ told.state = run.state
      /\ told.contract = run.contract /\ told.pending = run.pending
      /\ told.result = run.result /\ told.torn = run.torn
      /\ told.depth = run.depth /\ told.parent = run.parent
  BY <1>4 DEF RunRec
<1> HIDE DEF told
<1>10. Sound(told) /\ Settled(told) /\ Later(run, told)
  BY <1>4, <1>9 DEF Sound, Settled, Unsettled, Later
<1>11. /\ StoreOK(db) /\ DOMAIN db = DOMAIN runs /\ Len(db) = Len(runs)
       /\ db[e.run] = told /\ \A q \in DOMAIN runs \ {e.run} : db[q] = runs[q]
  BY <1>1, <1>3, <1>8, <1>10, EntryWritten
<1>12. new \in RunRec /\ Sound(new) /\ Settled(new) /\ ~new.pending /\ DOMAIN new.targets = {e.by}
  BY <1>2, ChildSays
<1> HIDE DEF db, new
<1>13. /\ StoreOK(Append(db, new)) /\ DOMAIN Append(db, new) = DOMAIN db \cup {Len(db) + 1}
       /\ Len(db) + 1 \notin DOMAIN db
       /\ Append(db, new)[Len(db) + 1] = new
       /\ \A q \in DOMAIN db : Append(db, new)[q] = db[q]
  BY <1>11, <1>12, RunAdded
<1>14. /\ StoreOK(runs') /\ DOMAIN runs' = DOMAIN runs \cup {next} /\ next \notin DOMAIN runs
       /\ runs'[next] = new /\ runs'[e.run] = told
       /\ \A q \in DOMAIN runs \ {e.run} : runs'[q] = runs[q]
  BY <1>3, <1>5, <1>11, <1>13
<1>15. \A q \in DOMAIN runs : Later(runs[q], runs'[q])
  BY <1>10, <1>14 DEF Later, run
<1>16. Grows
  BY <1>14, <1>15 DEF Grows
<1>17. routed => AgentIs(e.by, hands)
  BY <1>1, <1>3, <1>7, FieldHands
<1>18. ~routed => agent' = agent
  BY <1>7
<1>19. AgentsOK'
  <2>1. CASE ~routed
    BY <1>1, <1>16, <1>18, <2>1, StillAgents
  <2>2. CASE routed
    <3>1. HoldsOwn(agent[e.by], Mine(e.by)')
      BY <1>1, <1>3, <1>16, MineGrows, HoldsMore DEF AgentsOK
    <3>2. next \in Mine(e.by)'
      BY <1>12, <1>14 DEF Mine
    <3>3. agent[e.by].routing \cup {next} \in SUBSET Mine(e.by)'
      <4>1. agent[e.by].routing \subseteq Mine(e.by)'
        BY <3>1, HoldFields
      <4> QED BY <3>2, <4>1
    <3>4. HoldsOwn(hands, Mine(e.by)')
      <4> HIDE DEF next
      <4> QED BY <3>1, <3>3, RoutesHold
    <3> HIDE DEF hands
    <3> QED BY <1>1, <1>3, <1>16, <1>17, <2>2, <3>4, AgentChanged DEF AgentIs
  <2> QED BY <2>1, <2>2
<1>20. BudgetOK'
  BY <1>1, <1>2 DEF BudgetOK
<1>21. evals' \subseteq EvalRec'
  BY <1>1, <1>2, <1>16, EvalsKept
<1>22. PendingHasEvaluator'
  <2>1. SUFFICES ASSUME NEW q \in DOMAIN runs', runs'[q].pending
                 PROVE  \E f \in evals' : f.run = q /\ f.step = "probe"
    BY DEF PendingHasEvaluator
  <2>2. q \in DOMAIN runs /\ runs[q].pending
    BY <1>9, <1>12, <1>14, <2>1 DEF run
  <2>3. PICK f \in evals : f.run = q /\ f.step = "probe"
    BY <1>1, <2>2 DEF PendingHasEvaluator
  <2> QED BY <1>2, <2>3
<1>23. Kept
  BY <1>14, <1>16, <1>19, <1>20, <1>21, <1>22 DEF Kept, RunInv
<1>24. /\ runs'[e.run].targets = runs[e.run].targets
       /\ runs'[e.run].result = runs[e.run].result
       /\ runs'[e.run].state = runs[e.run].state
  BY <1>9, <1>14 DEF run
<1> QED BY <1>2, <1>14, <1>17, <1>18, <1>23, <1>24 DEF new

\* A restart, from whatever the hub had written last.
LEMMA RestartSays ==
  ASSUME RunInv, NEW db, StoreOK(db), DOMAIN runs \subseteq DOMAIN db,
         \A r \in DOMAIN runs : Later(runs[r], db[r]), Restart(db)
  PROVE  /\ Kept /\ Fault /\ evals' = {} /\ DOMAIN runs' = DOMAIN db
         /\ \A a \in Agents : agent'[a] = NewAgent
         /\ \A r \in DOMAIN db : Later(db[r], runs'[r])
         /\ \A r \in DOMAIN db : \A a \in DOMAIN runs'[r].targets : ~Open(runs'[r].targets[a])
<1>1. BudgetOK
  BY DEF RunInv
<1>2. /\ Fault /\ runs' = [r \in DOMAIN db |-> recoverAsyncRun(db[r])]
      /\ agent' = [a \in Agents |-> NewAgent] /\ evals' = {}
  BY DEF Restart
<1>3. /\ Len(db) \in Nat /\ DOMAIN db = 1..Len(db)
      /\ \A r \in DOMAIN db : db[r] \in RunRec /\ Sound(db[r]) /\ Settled(db[r])
  BY StoreFacts
<1>4. ASSUME NEW r \in DOMAIN db
      PROVE  /\ runs'[r] \in RunRec /\ Sound(runs'[r]) /\ Settled(runs'[r])
             /\ Later(db[r], runs'[r])
             /\ \A a \in DOMAIN db[r].targets : ~Open(runs'[r].targets[a])
             /\ ~runs'[r].pending
  <2>1. runs'[r] = recoverAsyncRun(db[r])
    BY <1>2
  <2>2. db[r] \in RunRec /\ Sound(db[r]) /\ Settled(db[r])
    BY <1>3
  <2> QED BY <2>1, <2>2, RecoverSays
<1>5. DOMAIN runs' = DOMAIN db
  BY <1>2
<1>6. StoreOK(runs')
  <2>1. runs' = [r \in DOMAIN db |-> runs'[r]]
    BY <1>2
  <2>2. runs' \in [1..Len(db) -> RunRec]
    BY <1>3, <1>4, <2>1
  <2>3. runs' \in Seq(RunRec)
    BY <1>3, <2>2
  <2> QED BY <1>4, <1>5, <2>3 DEF StoreOK
<1>7. \A r \in DOMAIN db : DOMAIN runs'[r].targets = DOMAIN db[r].targets
  BY <1>4 DEF Later
<1>8. \A r \in DOMAIN runs : Later(runs[r], runs'[r])
  BY <1>4, LaterStill
<1>9. Grows
  BY <1>5, <1>6, <1>8 DEF Grows
<1>10. AgentsOK'
  BY <1>2, FreshHolds DEF AgentsOK
<1>11. PendingHasEvaluator' /\ evals' \subseteq EvalRec'
  BY <1>2, <1>4, <1>5 DEF PendingHasEvaluator
<1>12. BudgetOK'
  BY <1>1, <1>2, FaultSpent
<1>13. Kept
  BY <1>6, <1>9, <1>10, <1>11, <1>12 DEF Kept, RunInv
<1>14. \A a \in Agents : agent'[a] = NewAgent
  BY <1>2
<1> QED BY <1>2, <1>4, <1>5, <1>7, <1>13, <1>14

\* Each crash is a restart from a store that is in order.
LEMMA CrashSays ==
  ASSUME RunInv, Crash
  PROVE  StoreOK(runs) /\ Restart(runs) /\ \A r \in DOMAIN runs : Later(runs[r], runs[r])
BY DEF RunInv, Crash, Later

\* What was written before a crash between a target and its contract.
Torn(run) == [run EXCEPT !.torn = Unsettled(run)]

EndingDb(a, target) ==
  LET turn == agent[a].turn
  IN [runs EXCEPT ![turn] =
        Torn(transitionAsyncRunTarget(runs[turn], a, Outcomes(agent[a], target)[turn]))]

LEMMA TornSays ==
  ASSUME NEW run \in RunRec, Sound(run)
  PROVE  /\ Torn(run) \in RunRec /\ Sound(Torn(run)) /\ Settled(Torn(run))
         /\ Later(run, Torn(run))
<1>1. PICK new, x : x = Unsettled(run) /\ new = [run EXCEPT !.torn = x]
  OBVIOUS
<1>2. x \in BOOLEAN
  BY <1>1 DEF Unsettled, RunRec
<1>3. new \in RunRec
  BY <1>1, <1>2 DEF RunRec
<1>4. /\ new.targets = run.targets /\ new.state = run.state
      /\ new.contract = run.contract /\ new.pending = run.pending
      /\ new.result = run.result /\ new.torn = x
      /\ new.depth = run.depth /\ new.parent = run.parent /\ new.child = run.child
  BY <1>1 DEF RunRec
<1>5. Unsettled(new) <=> Unsettled(run)
  BY <1>4 DEF Unsettled
<1>6. Sound(new) /\ Settled(new) /\ Later(run, new)
  BY <1>1, <1>4, <1>5 DEF Sound, Settled, Later
<1>7. Torn(run) = new
  BY <1>1 DEF Torn
<1> QED BY <1>3, <1>6, <1>7

LEMMA CrashEndingSays ==
  ASSUME RunInv, NEW a \in Agents, NEW target \in {Cut, To("completed"), To("failed")},
         CrashEnding(a, target)
  PROVE  /\ StoreOK(EndingDb(a, target)) /\ Restart(EndingDb(a, target))
         /\ DOMAIN EndingDb(a, target) = DOMAIN runs
         /\ \A r \in DOMAIN runs : Later(runs[r], EndingDb(a, target)[r])
<1> DEFINE turn == agent[a].turn
           out == Outcomes(agent[a], target)[turn]
           mid == transitionAsyncRunTarget(runs[turn], a, out)
           db == EndingDb(a, target)
<1>1. AgentsOK /\ StoreOK(runs)
  BY DEF RunInv
<1>2. turn > 0 /\ Restart(db)
  BY DEF CrashEnding, EndingDb, Torn
<1>3. turn \in Mine(a) /\ turn # Nobody /\ turn # Foreign
  <2>1. turn \in Mine(a) \cup {Nobody, Foreign}
    BY <1>1, AgentParts, HoldFields
  <2> QED BY <1>2, <2>1 DEF Nobody, Foreign
<1>4. turn \in DOMAIN runs /\ a \in DOMAIN runs[turn].targets
  BY <1>3 DEF Mine
<1>5. Writable(out)
  <2>1. target \in {Cut, To("completed"), To("failed"), To("cancelled")}
    OBVIOUS
  <2>2. LET ts == Outcomes(agent[a], target)
        IN /\ DOMAIN ts = ({agent[a].turn} \ {Foreign}) \cup agent[a].absorbed
           /\ \A r \in DOMAIN ts : Writable(ts[r])
    BY <1>1, <1>3, <2>1, OutcomesSay
  <2> QED BY <1>3, <2>2
<1>6. runs[turn] \in RunRec /\ Sound(runs[turn])
  BY <1>1, <1>4, StoreFacts
<1> HIDE DEF out
<1>7. /\ mid \in RunRec /\ Sound(mid) /\ DOMAIN mid.targets = DOMAIN runs[turn].targets
      /\ runs[turn].state \in {"completed", "completed_unmet"} => mid = runs[turn]
      /\ mid.result = runs[turn].result
      /\ mid.depth = runs[turn].depth /\ mid.parent = runs[turn].parent
  BY <1>4, <1>5, <1>6, TransitionSays
<1>8. Later(runs[turn], mid)
  BY <1>7 DEF Later
<1>9. db = [runs EXCEPT ![turn] = Torn(mid)]
  BY DEF EndingDb, out
<1> HIDE DEF mid, db
<1>10. /\ Torn(mid) \in RunRec /\ Sound(Torn(mid)) /\ Settled(Torn(mid))
       /\ Later(mid, Torn(mid))
  BY <1>7, TornSays
<1>11. Later(runs[turn], Torn(mid))
  BY <1>8, <1>10, LaterStill
<1>12. PICK new : new = Torn(mid)
  OBVIOUS
<1>13. /\ StoreOK([runs EXCEPT ![turn] = new]) /\ DOMAIN [runs EXCEPT ![turn] = new] = DOMAIN runs
       /\ [runs EXCEPT ![turn] = new][turn] = new
       /\ \A q \in DOMAIN runs \ {turn} : [runs EXCEPT ![turn] = new][q] = runs[q]
  BY <1>1, <1>4, <1>10, <1>12, EntryWritten
<1>14. \A r \in DOMAIN runs : Later(runs[r], db[r])
  <2>1. \A r \in DOMAIN runs : Later(runs[r], runs[r])
    BY DEF Later
  <2> QED BY <1>9, <1>11, <1>12, <1>13, <2>1
<1>15. StoreOK(db) /\ DOMAIN db = DOMAIN runs
  BY <1>9, <1>12, <1>13
<1> QED BY <1>2, <1>14, <1>15 DEF db

LEMMA CrashFollowingSays ==
  ASSUME RunInv, NEW e, CrashFollowing(e)
  PROVE  LET new == FollowupRun(e, TRUE)  db == Append(runs, new)
         IN /\ StoreOK(db) /\ Restart(db) /\ e \in evals /\ e.step = "post"
            /\ DOMAIN db = DOMAIN runs \cup {Len(runs) + 1} /\ Len(runs) + 1 \notin DOMAIN runs
            /\ db[Len(runs) + 1] = new /\ \A q \in DOMAIN runs : db[q] = runs[q]
            /\ \A r \in DOMAIN runs : Later(runs[r], db[r])
<1>1. StoreOK(runs)
  BY DEF RunInv
<1>2. PICK new : new = FollowupRun(e, TRUE)
  OBVIOUS
<1>3. new = Child(e)
  BY <1>2 DEF FollowupRun
<1>4. e \in evals /\ e.step = "post" /\ Restart(Append(runs, new))
  BY <1>3 DEF CrashFollowing
<1>5. new \in RunRec /\ Sound(new) /\ Settled(new)
  <2>1. PICK routed \in BOOLEAN : routed = TRUE
    OBVIOUS
  <2>2. new = FollowupRun(e, routed)
    BY <1>2, <2>1
  <2> QED BY <1>4, <2>2, ChildSays
<1>6. /\ StoreOK(Append(runs, new)) /\ DOMAIN Append(runs, new) = DOMAIN runs \cup {Len(runs) + 1}
      /\ Len(runs) + 1 \notin DOMAIN runs
      /\ Append(runs, new)[Len(runs) + 1] = new
      /\ \A q \in DOMAIN runs : Append(runs, new)[q] = runs[q]
  BY <1>1, <1>5, RunAdded
<1>7. \A r \in DOMAIN runs : Later(runs[r], Append(runs, new)[r])
  BY <1>6 DEF Later
<1> QED BY <1>2, <1>4, <1>6, <1>7

-----------------------------------------------------------------------------
(* The invariant holds in every state, and what follows from it.           *)

LEMMA RestartKeeps ==
  ASSUME RunInv, NEW db, StoreOK(db), DOMAIN runs \subseteq DOMAIN db,
         \A r \in DOMAIN runs : Later(runs[r], db[r]), Restart(db)
  PROVE  Kept
BY RestartSays

\* A step of the specification keeps the invariant, and the runs go on.
LEMMA StepKeeps ==
  ASSUME RunInv, [RunNext]_runVars
  PROVE  Kept
<1>1. ASSUME NEW contract \in BOOLEAN, NEW targets \in SUBSET Agents, Post(contract, targets)
      PROVE  Kept
  BY <1>1, PostKeeps
<1>2. ASSUME NEW a \in Agents, NEW r \in DOMAIN runs,
             \/ \E steered \in BOOLEAN : Admit(a, r, steered)
             \/ \E state \in {"refused", "failed"} : Refuse(a, r, state)
             \/ Retry(a, r)
      PROVE  Kept
  BY <1>2, AdmitKeeps, RefuseKeeps, RetryKeeps
<1>3. ASSUME RoutingStep PROVE Kept
  BY <1>1, <1>2, <1>3 DEF RoutingStep
<1>4. ASSUME NEW a \in Agents, TurnStep(a) PROVE Kept
  <2>1. ASSUME NEW r, NEW batch, Start(a, r, batch) PROVE Kept
    BY <2>1, StartKeeps
  <2>2. ASSUME StartForeign(a) \/ SteerAccepted(a) \/ SteerRejected(a) \/ SteerFailed(a)
        PROVE  Kept
    BY <2>2, StartForeignKeeps, AcceptedKeeps, SteerRejectedKeeps, SteerFailedKeeps
  <2>3. ASSUME NEW state \in {"input-required", "working"}, Approval(a, state) PROVE Kept
    BY <2>3, ApprovalKeeps
  <2>4. ASSUME NEW state \in {"completed", "failed", "cancelled"}, NEW patch \in BOOLEAN,
               Finish(a, state, patch)
        PROVE  Kept
    BY <2>4, FinishKeeps
  <2>5. ASSUME NEW target \in {Cut, To("failed")}, DrainBounded(a, target) PROVE Kept
    BY <2>5, DrainKeeps
  <2>6. ASSUME NEW r, NEW state \in {"completed", "failed", "cancelled"}, LateTerminal(a, r, state)
        PROVE  Kept
    BY <2>6, LateKeeps
  <2>7. ASSUME NEW r, Steer(a, r) PROVE Kept
    BY <2>7, SteerKeeps
  <2> QED BY <1>4, <2>1, <2>2, <2>3, <2>4, <2>5, <2>6, <2>7 DEF TurnStep
<1>5. ASSUME HoleStep PROVE Kept
  <2>1. ASSUME NEW a \in Agents, Die(a) PROVE Kept
    BY <2>1, DieKeeps
  <2>2. ASSUME NEW a \in Agents, NEW r, Drop(a, r) PROVE Kept
    BY <2>2, DropKeeps
  <2>3. ASSUME Crash PROVE Kept
    BY <2>3, CrashSays, RestartKeeps
  <2>4. ASSUME NEW a \in Agents, NEW target \in {Cut, To("completed"), To("failed")},
               CrashEnding(a, target)
        PROVE  Kept
    <3>1. /\ StoreOK(EndingDb(a, target)) /\ Restart(EndingDb(a, target))
          /\ DOMAIN runs \subseteq DOMAIN EndingDb(a, target)
          /\ \A r \in DOMAIN runs : Later(runs[r], EndingDb(a, target)[r])
      BY <2>4, CrashEndingSays
    <3> QED BY <3>1, RestartKeeps
  <2> QED BY <1>5, <2>1, <2>2, <2>3, <2>4 DEF HoleStep
<1>6. ASSUME NEW e \in evals, ContractStep(e) PROVE Kept
  <2>1. ASSUME NEW verdict \in {"met", "unmet", "unknown"}, NEW paused \in BOOLEAN,
               Evaluate(e, verdict, paused)
        PROVE  Kept
    BY <2>1, EvaluateSays
  <2>2. ASSUME NEW routed \in BOOLEAN, PostFollowup(e, routed) PROVE Kept
    BY <2>2, FollowupSays
  <2>3. ASSUME FollowupFails(e) PROVE Kept
    BY <2>3, FailsSays
  <2>4. ASSUME CrashFollowing(e) PROVE Kept
    <3>1. PICK db : /\ StoreOK(db) /\ Restart(db) /\ DOMAIN runs \subseteq DOMAIN db
                    /\ \A r \in DOMAIN runs : Later(runs[r], db[r])
      BY <2>4, CrashFollowingSays
    <3> QED BY <3>1, RestartKeeps
  <2> QED BY <1>6, <2>1, <2>2, <2>3, <2>4 DEF ContractStep
<1>7. ASSUME UNCHANGED runVars PROVE Kept
  <2>1. AgentsOK /\ StoreOK(runs) /\ BudgetOK /\ runs' = runs /\ agent' = agent
        /\ evals' = evals /\ budget' = budget
    BY <1>7 DEF RunInv, runVars
  <2>2. Grows
    BY <2>1, StillRuns
  <2>3. AgentsOK' /\ BudgetOK'
    BY <2>1, <2>2, StillAgents DEF BudgetOK
  <2> QED BY <2>1, <2>3, IdleRuns
<1> QED BY <1>3, <1>4, <1>5, <1>6, <1>7 DEF RunNext

LEMMA InvInit ==
  ASSUME RunInit
  PROVE  RunInv
<1>1. StoreOK(runs) /\ PendingHasEvaluator /\ evals \subseteq EvalRec
  BY DEF RunInit, StoreOK, PendingHasEvaluator
<1>2. AgentsOK
  <2>1. agent = [a \in Agents |-> NewAgent]
    BY DEF RunInit
  <2>2. agent = [a \in Agents |-> agent[a]] /\ \A a \in Agents : agent[a] = NewAgent
    BY <2>1
  <2> QED BY <2>2, FreshHolds DEF AgentsOK
<1>3. BudgetOK
  BY RunConstants DEF RunInit, BudgetOK
<1> QED BY <1>1, <1>2, <1>3 DEF RunInv

\* RunInv holds in every state that the specification reaches.
LEMMA RunInvariant == RunSpec => []RunInv
<1>1. RunInit => RunInv
  BY InvInit
<1>2. RunInv /\ [RunNext]_runVars => RunInv'
  BY StepKeeps DEF Kept
<1> QED BY <1>1, <1>2, PTL DEF RunSpec

\* The runs, what the agents hold of them and the evaluations have the types
\* that the store's schema and the binder's fields give them; in particular an
\* agent holds only runs that have a target for it.
THEOREM RunTypes == RunSpec => []RunTypeOK
<1>1. ASSUME RunInv PROVE RunTypeOK
  <2>1. AgentsOK /\ StoreOK(runs) /\ evals \subseteq EvalRec
    BY <1>1 DEF RunInv
  <2>2. ASSUME NEW r \in DOMAIN runs
        PROVE  /\ DOMAIN runs[r].targets \subseteq Agents
               /\ \A a \in DOMAIN runs[r].targets : runs[r].targets[a].state \in TargetStates
               /\ runs[r].state \in RunEnd \cup {"submitted", "working", "input-required"}
               /\ runs[r].result \in {"none", "met", "unmet", "unknown"}
    <3>1. runs[r] \in RunRec
      BY <2>1, StoreFacts
    <3>2. /\ runs[r].targets \in TargetMaps /\ runs[r].state \in RunStates
          /\ runs[r].result \in Results
      BY <3>1 DEF RunRec
    <3>3. /\ DOMAIN runs[r].targets \subseteq Agents
          /\ \A a \in DOMAIN runs[r].targets : runs[r].targets[a] \in TargetRec
      BY <3>2, TargetMapsAre
    <3> QED BY <3>2, <3>3 DEF TargetRec, RunStates, Results
  <2>3. ASSUME NEW a \in Agents
        PROVE  /\ agent[a].turn \in DOMAIN runs \cup {Nobody, Foreign}
               /\ agent[a].routing \cup agent[a].queued \cup agent[a].steering \cup agent[a].absorbed
                    \subseteq {r \in DOMAIN runs : a \in DOMAIN runs[r].targets}
    <3>1. HoldsOwn(agent[a], Mine(a))
      BY <2>1 DEF AgentsOK
    <3>2. /\ agent[a].routing \subseteq Mine(a) /\ agent[a].queued \subseteq Mine(a)
          /\ agent[a].absorbed \subseteq Mine(a) /\ agent[a].steering \subseteq Mine(a)
          /\ agent[a].turn \in Mine(a) \cup {Nobody, Foreign}
      BY <3>1, HoldFields
    <3> QED BY <3>2 DEF Mine
  <2>4. \A e \in evals : e.run \in DOMAIN runs /\ e.step \in {"probe", "post"}
    BY <2>1 DEF EvalRec
  <2> QED BY <2>2, <2>3, <2>4 DEF RunTypeOK
<1> QED BY <1>1, RunInvariant, PTL

\* A contract is never pending without an evaluation under way: whatever makes
\* it pending starts one, and a restart, which loses it, closes the contract.
THEOREM PendingEvaluated == RunSpec => []PendingHasEvaluator
<1>1. RunInv => PendingHasEvaluator
  BY DEF RunInv
<1> QED BY <1>1, RunInvariant, PTL

\* A run that has ended has its contract's result or waits for it, but for the
\* crash between the two writes: every path that ends a run's last target goes
\* through handleTerminalDeliveryContract, or through the recovery.
THEOREM ContractsSettle == RunSpec => []ContractSettles
<1>1. RunInv => ContractSettles
  BY DEF RunInv, StoreOK, Settled, ContractSettles
<1> QED BY <1>1, RunInvariant, PTL

\* No step replaces a contract's result or takes back a completed run: a late
\* terminal, a retried turn and the recovery write only to targets that are
\* open or revisable, and a completed run has none.
THEOREM OutcomesStay == RunSpec => OutcomeStays
<1> DEFINE Stays == \A r \in DOMAIN runs :
             /\ runs[r].result # "none" => runs'[r].result = runs[r].result
             /\ runs[r].state = "completed" => runs'[r].state \in {"completed", "completed_unmet"}
             /\ runs[r].state = "completed_unmet" => runs'[r].state = "completed_unmet"
<1>1. RunInv /\ [RunNext]_runVars => [Stays]_runVars
  <2>1. Grows => Stays
    BY DEF Grows, Later
  <2> QED BY <2>1, StepKeeps DEF Kept
<1>2. RunInv /\ [RunNext]_runVars => RunInv'
  BY StepKeeps DEF Kept
<1>3. RunInit => RunInv
  BY InvInit
<1> QED BY <1>1, <1>2, <1>3, PTL DEF RunSpec, OutcomeStays

-----------------------------------------------------------------------------
(* Open targets have an owner.                                             *)

OwnedBy(ag, r) ==
  \/ r \in ag.routing \cup ag.queued \cup ag.steering \cup ag.absorbed
  \/ r \in {ag.turn, ag.steer.run}

LEMMA HoldOwns ==
  ASSUME NEW routing, NEW queued, NEW turn, NEW absorbed, NEW steering, NEW steer,
         NEW drained, NEW late, NEW r
  PROVE  OwnedBy(Hold(routing, queued, turn, absorbed, steering, steer, drained, late), r)
           <=> \/ r \in routing \/ r \in queued \/ r \in steering \/ r \in absorbed
               \/ r = turn \/ r = steer.run
BY DEF Hold, OwnedBy

\* The actions that move a run between an agent's hands or out of them.
LEMMA MoveHands ==
  ASSUME AgentsOK, StoreOK(runs), NEW a \in Agents, NEW r
  PROVE  LET ag == agent[a]
         IN /\ Retry(a, r) =>
                 AgentIs(a, Hold({r}, ag.queued, ag.turn, ag.absorbed, ag.steering,
                                 ag.steer, ag.drained, ag.late))
            /\ (\E state : Refuse(a, r, state)) =>
                 AgentIs(a, Hold(ag.routing \ {r}, ag.queued, ag.turn, ag.absorbed,
                                 ag.steering, ag.steer, ag.drained, ag.late))
            /\ Steer(a, r) =>
                 AgentIs(a, Hold(ag.routing, ag.queued, ag.turn, ag.absorbed,
                                 ag.steering \ {r},
                                 [run |-> r, into |-> ag.turn, live |-> TRUE,
                                  mapped |-> ag.turn # Foreign], ag.drained, ag.late))
            /\ SteerRejected(a) =>
                 AgentIs(a, Hold(ag.routing, ag.queued \cup {ag.steer.run}, ag.turn,
                                 ag.absorbed, ag.steering, NoSteer, ag.drained, ag.late))
            /\ SteerFailed(a) =>
                 AgentIs(a, Hold(ag.routing, ag.queued, ag.turn, ag.absorbed,
                                 ag.steering, NoSteer, ag.drained, ag.late))
            /\ Drop(a, r) =>
                 AgentIs(a, Hold(ag.routing, ag.queued \ {r}, ag.turn, ag.absorbed,
                                 ag.steering, ag.steer, ag.drained, ag.late))
<1> DEFINE ag == agent[a]
           into == [run |-> r, into |-> ag.turn, live |-> TRUE, mapped |-> ag.turn # Foreign]
<1>1. Retry(a, r) => agent' = [agent EXCEPT ![a].routing = {r}]
  BY DEF Retry
<1>2. (\E state : Refuse(a, r, state)) => agent' = [agent EXCEPT ![a].routing = ag.routing \ {r}]
  BY DEF Refuse
<1>3. Steer(a, r) => agent' = [agent EXCEPT ![a].steering = ag.steering \ {r}, ![a].steer = into]
  BY DEF Steer
<1>4. SteerRejected(a) => agent' = [agent EXCEPT ![a].steer = NoSteer,
                                                 ![a].queued = ag.queued \cup {ag.steer.run}]
  BY DEF SteerRejected
<1>5. SteerFailed(a) => agent' = [agent EXCEPT ![a].steer = NoSteer]
  BY DEF SteerFailed
<1>6. Drop(a, r) => agent' = [agent EXCEPT ![a].queued = ag.queued \ {r}]
  BY DEF Drop
<1>7. PICK st : st = into
  OBVIOUS
<1> HIDE DEF into
<1>8. Steer(a, r) => AgentIs(a, Hold(ag.routing, ag.queued, ag.turn, ag.absorbed,
                                     ag.steering \ {r}, into, ag.drained, ag.late))
  BY <1>3, FieldHands
<1>9. Retry(a, r) => AgentIs(a, Hold({r}, ag.queued, ag.turn, ag.absorbed, ag.steering,
                                     ag.steer, ag.drained, ag.late))
  BY <1>1, FieldHands
<1>10. (\E state : Refuse(a, r, state)) =>
          AgentIs(a, Hold(ag.routing \ {r}, ag.queued, ag.turn, ag.absorbed, ag.steering,
                          ag.steer, ag.drained, ag.late))
  BY <1>2, FieldHands
<1>11. SteerRejected(a) =>
          AgentIs(a, Hold(ag.routing, ag.queued \cup {ag.steer.run}, ag.turn,
                          ag.absorbed, ag.steering, NoSteer, ag.drained, ag.late))
  BY <1>4, FieldHands
<1>12. SteerFailed(a) =>
          AgentIs(a, Hold(ag.routing, ag.queued, ag.turn, ag.absorbed,
                          ag.steering, NoSteer, ag.drained, ag.late))
  BY <1>5, FieldHands
<1>13. Drop(a, r) =>
          AgentIs(a, Hold(ag.routing, ag.queued \ {r}, ag.turn, ag.absorbed,
                          ag.steering, ag.steer, ag.drained, ag.late))
  BY <1>6, FieldHands
<1> QED BY <1>8, <1>9, <1>10, <1>11, <1>12, <1>13 DEF into

\* A step of one agent, which writes only its own targets.
LEMMA OwnersKept ==
  ASSUME OpenHasOwner, Grows, StoreOK(runs), DOMAIN runs' = DOMAIN runs,
         NEW a \in Agents, \A b \in Agents \ {a} : agent'[b] = agent[b],
         \A r \in DOMAIN runs : \A b \in DOMAIN runs[r].targets \ {a} :
           runs'[r].targets[b] = runs[r].targets[b],
         \A r \in DOMAIN runs : \A b \in Agents \ {a} :
           <<r, b>> \in stranded => <<r, b>> \in stranded',
         \A r \in Mine(a) : Open(runs'[r].targets[a]) =>
           OwnedBy(agent'[a], r) \/ <<r, a>> \in stranded'
  PROVE  OpenHasOwner'
<1>1. \A r \in DOMAIN runs : DOMAIN runs'[r].targets = DOMAIN runs[r].targets
  BY DEF Grows, Later
<1>2. \A r \in DOMAIN runs : DOMAIN runs[r].targets \subseteq Agents
  BY StoreFacts
<1>3. ASSUME NEW r \in DOMAIN runs, NEW b \in DOMAIN runs[r].targets,
             Open(runs'[r].targets[b])
      PROVE  OwnedBy(agent'[b], r) \/ <<r, b>> \in stranded'
  <2>1. CASE b = a
    BY <1>3, <2>1 DEF Mine
  <2>2. CASE b # a
    <3>1. b \in Agents \ {a} /\ Open(runs[r].targets[b])
      BY <1>2, <1>3, <2>2
    <3>2. OwnedBy(agent[b], r) \/ <<r, b>> \in stranded
      BY <1>3, <3>1 DEF OpenHasOwner, OwnedBy
    <3> QED BY <3>1, <3>2
  <2> QED BY <2>1, <2>2
<1> QED BY <1>1, <1>3 DEF OpenHasOwner, OwnedBy

\* The same, for a step that leaves the runs alone.
LEMMA OwnersMoved ==
  ASSUME RunInv, OpenHasOwner, runs' = runs, NEW a \in Agents, NEW ag, AgentIs(a, ag),
         \A r \in DOMAIN runs : \A b \in Agents \ {a} :
           <<r, b>> \in stranded => <<r, b>> \in stranded',
         \A r \in Mine(a) :
           /\ <<r, a>> \in stranded => OwnedBy(ag, r) \/ <<r, a>> \in stranded'
           /\ Open(runs[r].targets[a]) /\ OwnedBy(agent[a], r) =>
                OwnedBy(ag, r) \/ <<r, a>> \in stranded'
  PROVE  OpenHasOwner'
<1>1. StoreOK(runs) /\ Grows
  BY StillRuns DEF RunInv
<1>2. \A r \in Mine(a) : Open(runs[r].targets[a]) =>
        OwnedBy(agent[a], r) \/ <<r, a>> \in stranded
  BY DEF OpenHasOwner, OwnedBy, Mine
<1>3. agent'[a] = ag /\ \A b \in Agents \ {a} : agent'[b] = agent[b]
  BY DEF AgentIs
<1>4. \A r \in Mine(a) : Open(runs'[r].targets[a]) =>
           OwnedBy(agent'[a], r) \/ <<r, a>> \in stranded'
  BY <1>2, <1>3
<1> QED BY <1>1, <1>3, <1>4, OwnersKept

\* What a hole leaves open is counted.
LEMMA Stranded ==
  ASSUME StoreOK(runs), NEW a, NEW rs, stranded' = Strand(a, rs)
  PROVE  /\ stranded \subseteq stranded'
         /\ \A r \in rs \cap DOMAIN runs :
              Open(runs'[r].targets[a]) => <<r, a>> \in stranded'
<1>1. Nobody \notin DOMAIN runs /\ Foreign \notin DOMAIN runs
  BY StoreFacts
<1> QED BY <1>1 DEF Strand

LEMMA MovesOwned ==
  ASSUME RunInv, OpenHasOwner, NEW a \in Agents, NEW r \in DOMAIN runs,
         \/ \E steered \in BOOLEAN : Admit(a, r, steered)
         \/ Retry(a, r) \/ Steer(a, r) \/ SteerRejected(a) \/ SteerFailed(a) \/ Drop(a, r)
  PROVE  OpenHasOwner'
<1> DEFINE ag == agent[a]
<1>1. AgentsOK /\ StoreOK(runs)
  BY DEF RunInv
<1>2. Nobody \notin Mine(a) /\ Foreign \notin Mine(a) /\ Mine(a) \subseteq DOMAIN runs
  BY <1>1, AgentParts
<1>4. \A q : OwnedBy(ag, q) <=>
        \/ q \in ag.routing \/ q \in ag.queued \/ q \in ag.steering \/ q \in ag.absorbed
        \/ q = ag.turn \/ q = ag.steer.run
  BY DEF OwnedBy
<1>5. NoSteer.run = Nobody
  BY DEF NoSteer
<1>6. CASE \E steered \in BOOLEAN : Admit(a, r, steered)
  <2>1. PICK steered \in BOOLEAN : Admit(a, r, steered)
    BY <1>6
  <2> DEFINE q2 == IF steered THEN ag.queued ELSE ag.queued \cup {r}
             s2 == IF steered THEN ag.steering \cup {r} ELSE ag.steering
             new == Hold(ag.routing \ {r}, q2, ag.turn, ag.absorbed, s2, ag.steer,
                         ag.drained, ag.late)
  <2>2. AgentIs(a, new) /\ runs' = runs /\ stranded' = stranded
    BY <1>1, <2>1, AdmitHands DEF Admit
  <2>3. ag.queued \subseteq q2 /\ ag.steering \subseteq s2 /\ (r \in q2 \/ r \in s2)
    OBVIOUS
  <2> HIDE DEF q2, s2, ag
  <2>4. \A q \in Mine(a) : OwnedBy(ag, q) => OwnedBy(new, q)
    BY <1>4, <2>3, HoldOwns
  <2> QED BY <2>2, <2>4, OwnersMoved DEF ag
<1>7. CASE Retry(a, r)
  <2> DEFINE new == Hold({r}, ag.queued, ag.turn, ag.absorbed, ag.steering,
                         ag.steer, ag.drained, ag.late)
  <2>1. AgentIs(a, new)
    BY <1>1, <1>7, MoveHands
  <2>2. runs' = runs /\ stranded' = stranded \ {<<r, a>>} /\ ag.routing = {}
    BY <1>7 DEF Retry
  <2> HIDE DEF ag
  <2>3. \A q \in Mine(a) : OwnedBy(ag, q) => OwnedBy(new, q)
    BY <1>4, <2>2, HoldOwns
  <2>4. OwnedBy(new, r)
    BY HoldOwns
  <2> QED BY <2>1, <2>2, <2>3, <2>4, OwnersMoved DEF ag
<1>8. CASE Steer(a, r)
  <2> DEFINE st == [run |-> r, into |-> ag.turn, live |-> TRUE, mapped |-> ag.turn # Foreign]
             new == Hold(ag.routing, ag.queued, ag.turn, ag.absorbed, ag.steering \ {r},
                         st, ag.drained, ag.late)
  <2>1. AgentIs(a, new)
    BY <1>1, <1>8, MoveHands
  <2>2. runs' = runs /\ stranded' = stranded /\ ag.steer = NoSteer /\ st.run = r
    BY <1>8 DEF Steer
  <2> HIDE DEF ag, st
  <2>3. \A q \in Mine(a) : OwnedBy(ag, q) => OwnedBy(new, q)
    BY <1>2, <1>4, <1>5, <2>2, HoldOwns
  <2> QED BY <2>1, <2>2, <2>3, OwnersMoved DEF ag
<1>9. CASE SteerRejected(a)
  <2> DEFINE new == Hold(ag.routing, ag.queued \cup {ag.steer.run}, ag.turn,
                         ag.absorbed, ag.steering, NoSteer, ag.drained, ag.late)
  <2>1. AgentIs(a, new) /\ runs' = runs /\ stranded' = stranded
    BY <1>1, <1>9, MoveHands DEF SteerRejected
  <2> HIDE DEF ag
  <2>2. \A q \in Mine(a) : OwnedBy(ag, q) => OwnedBy(new, q)
    BY <1>4, HoldOwns
  <2> QED BY <2>1, <2>2, OwnersMoved DEF ag
<1>10. CASE SteerFailed(a)
  <2> DEFINE new == Hold(ag.routing, ag.queued, ag.turn, ag.absorbed, ag.steering,
                         NoSteer, ag.drained, ag.late)
  <2>1. AgentIs(a, new) /\ runs' = runs /\ stranded' = Strand(a, {ag.steer.run})
    BY <1>1, <1>10, MoveHands DEF SteerFailed
  <2>2. /\ stranded \subseteq stranded'
        /\ \A q \in Mine(a) : q = ag.steer.run /\ Open(runs[q].targets[a]) =>
             <<q, a>> \in stranded'
    BY <1>1, <1>2, <2>1, Stranded
  <2> HIDE DEF ag
  <2>3. \A q \in Mine(a) : OwnedBy(ag, q) => OwnedBy(new, q) \/ q = ag.steer.run
    BY <1>4, HoldOwns
  <2> QED BY <2>1, <2>2, <2>3, OwnersMoved DEF ag
<1>11. CASE Drop(a, r)
  <2> DEFINE new == Hold(ag.routing, ag.queued \ {r}, ag.turn, ag.absorbed,
                         ag.steering, ag.steer, ag.drained, ag.late)
  <2>1. AgentIs(a, new) /\ runs' = runs /\ stranded' = Strand(a, {r})
    BY <1>1, <1>11, MoveHands DEF Drop
  <2>2. /\ stranded \subseteq stranded'
        /\ \A q \in Mine(a) : q = r /\ Open(runs[q].targets[a]) => <<q, a>> \in stranded'
    BY <1>1, <1>2, <2>1, Stranded
  <2> HIDE DEF ag
  <2>3. \A q \in Mine(a) : OwnedBy(ag, q) => OwnedBy(new, q) \/ q = r
    BY <1>4, HoldOwns
  <2> QED BY <2>1, <2>2, <2>3, OwnersMoved DEF ag
<1> QED BY <1>6, <1>7, <1>8, <1>9, <1>10, <1>11

LEMMA HolesOwned ==
  ASSUME RunInv, OpenHasOwner, NEW a \in Agents, StartForeign(a) \/ Die(a)
  PROVE  OpenHasOwner'
<1> DEFINE ag == agent[a]
<1>1. AgentsOK /\ StoreOK(runs)
  BY DEF RunInv
<1>2. Nobody \notin Mine(a) /\ Foreign \notin Mine(a) /\ Mine(a) \subseteq DOMAIN runs
  BY <1>1, AgentParts
<1>4. \A q : OwnedBy(ag, q) <=>
        \/ q \in ag.routing \/ q \in ag.queued \/ q \in ag.steering \/ q \in ag.absorbed
        \/ q = ag.turn \/ q = ag.steer.run
  BY DEF OwnedBy
<1>5. CASE StartForeign(a)
  <2> DEFINE new == Hold(ag.routing, ag.queued \ {Foreign}, Foreign, ag.absorbed,
                         ag.steering, SteerAfter(ag, Foreign), ag.drained, ag.late)
  <2>1. AgentIs(a, new)
    BY <1>1, <1>5, StartForeignHands
  <2>2. runs' = runs /\ stranded' = stranded /\ ag.turn = Nobody
    BY <1>5 DEF StartForeign
  <2>3. SteerAfter(ag, Foreign).run = ag.steer.run
    BY DEF SteerAfter
  <2> HIDE DEF ag
  <2>4. \A q \in Mine(a) : OwnedBy(ag, q) => OwnedBy(new, q)
    BY <1>2, <1>4, <2>2, <2>3, HoldOwns
  <2> QED BY <2>1, <2>2, <2>4, OwnersMoved DEF ag
<1>6. CASE Die(a)
  <2> DEFINE new == Hold(ag.routing, {}, Nobody, {}, {}, NoSteer, {}, {})
             rs == {ag.turn, ag.steer.run} \cup ag.queued \cup ag.steering \cup ag.absorbed
  <2>1. AgentIs(a, new)
    BY <1>1, <1>6, DieHands
  <2>2. runs' = runs /\ stranded' = Strand(a, rs)
    BY <1>6 DEF Die
  <2>3. \A q \in Mine(a) : OwnedBy(ag, q) => q \in ag.routing \/ q \in rs
    BY <1>4
  <2> HIDE DEF ag, rs
  <2>4. /\ stranded \subseteq stranded'
        /\ \A q \in rs \cap DOMAIN runs : Open(runs[q].targets[a]) => <<q, a>> \in stranded'
    BY <1>1, <2>2, Stranded
  <2>5. \A q \in ag.routing : OwnedBy(new, q)
    BY HoldOwns
  <2> QED BY <1>2, <2>1, <2>2, <2>3, <2>4, <2>5, OwnersMoved DEF ag
<1> QED BY <1>5, <1>6

\* Runs that are not moved by a step of Settle keep their targets, and those
\* that are moved keep the targets of other agents.
LEMMA SettledTargets ==
  ASSUME NEW a, NEW ts, SettleDone(a, ts), DOMAIN ts \subseteq DOMAIN runs
  PROVE  /\ Grows /\ DOMAIN runs' = DOMAIN runs
         /\ \A r \in DOMAIN runs : \A b \in DOMAIN runs[r].targets \ {a} :
              runs'[r].targets[b] = runs[r].targets[b]
         /\ \A r \in DOMAIN runs \ DOMAIN ts : runs'[r].targets = runs[r].targets
         /\ \A r \in DOMAIN ts : Open(runs'[r].targets[a]) => runs'[r].targets[a] = ts[r]
BY DEF SettleDone, Moved

LEMMA TurnsOwned ==
  ASSUME RunInv, OpenHasOwner, NEW a \in Agents, NEW ts, SettleDone(a, ts),
         DOMAIN ts \subseteq DOMAIN runs,
         \A b \in Agents \ {a} : agent'[b] = agent[b], stranded \subseteq stranded',
         \A r \in Mine(a) \ DOMAIN ts : OwnedBy(agent[a], r) => OwnedBy(agent'[a], r),
         \A r \in DOMAIN ts : Open(ts[r]) =>
           OwnedBy(agent'[a], r)
             \/ (Open(runs'[r].targets[a]) => <<r, a>> \in stranded')
  PROVE  OpenHasOwner'
<1>1. StoreOK(runs)
  BY DEF RunInv
<1>2. /\ Grows /\ DOMAIN runs' = DOMAIN runs
      /\ \A r \in DOMAIN runs : \A b \in DOMAIN runs[r].targets \ {a} :
              runs'[r].targets[b] = runs[r].targets[b]
      /\ \A r \in DOMAIN runs \ DOMAIN ts : runs'[r].targets = runs[r].targets
      /\ \A r \in DOMAIN ts : Open(runs'[r].targets[a]) => runs'[r].targets[a] = ts[r]
  BY SettledTargets
<1>3. ASSUME NEW r \in Mine(a), Open(runs'[r].targets[a])
      PROVE  OwnedBy(agent'[a], r) \/ <<r, a>> \in stranded'
  <2>1. CASE r \in DOMAIN ts
    BY <1>2, <1>3, <2>1
  <2>2. CASE r \notin DOMAIN ts
    <3>1. Open(runs[r].targets[a])
      BY <1>2, <1>3, <2>2 DEF Mine
    <3>2. OwnedBy(agent[a], r) \/ <<r, a>> \in stranded
      BY <3>1 DEF OpenHasOwner, OwnedBy, Mine
    <3> QED BY <2>2, <3>2
  <2> QED BY <2>1, <2>2
<1> QED BY <1>1, <1>2, <1>3, OwnersKept

LEMMA EndsOwned ==
  ASSUME RunInv, OpenHasOwner, NEW a \in Agents, agent[a].turn # Nobody,
         NEW target \in {Cut, To("completed"), To("failed"), To("cancelled")},
         SettleDone(a, Outcomes(agent[a], target)), stranded' = stranded,
         NEW drained, NEW late,
         AgentIs(a, Hold(agent[a].routing, agent[a].queued \cup agent[a].steering,
                         Nobody, {}, {}, SteerLate(agent[a]), drained, late))
  PROVE  OpenHasOwner'
<1> DEFINE ag == agent[a]
           ts == Outcomes(agent[a], target)
           new == Hold(ag.routing, ag.queued \cup ag.steering, Nobody, {}, {},
                       SteerLate(ag), drained, late)
<1>1. AgentsOK /\ StoreOK(runs)
  BY DEF RunInv
<1>2. Nobody \notin Mine(a) /\ Foreign \notin Mine(a) /\ Mine(a) \subseteq DOMAIN runs
  BY <1>1, AgentParts
<1>3. /\ DOMAIN ts = ({agent[a].turn} \ {Foreign}) \cup agent[a].absorbed
      /\ DOMAIN ts \subseteq Mine(a)
      /\ \A r \in DOMAIN ts : ~Open(ts[r])
  BY <1>1, OutcomesSay
<1>4. \A q : OwnedBy(ag, q) <=>
        \/ q \in ag.routing \/ q \in ag.queued \/ q \in ag.steering \/ q \in ag.absorbed
        \/ q = ag.turn \/ q = ag.steer.run
  BY DEF OwnedBy
<1>5. SteerLate(ag).run = ag.steer.run
  BY DEF SteerLate
<1>6. agent'[a] = new /\ \A b \in Agents \ {a} : agent'[b] = agent[b]
  BY DEF AgentIs
<1> HIDE DEF ag, ts
<1>7. \A r \in Mine(a) \ DOMAIN ts : OwnedBy(ag, r) => OwnedBy(new, r)
  <2>1. DOMAIN ts = ({ag.turn} \ {Foreign}) \cup ag.absorbed
    BY <1>3 DEF ag
  <2> QED BY <1>2, <2>1, <1>4, <1>5, HoldOwns
<1>8. \A r \in Mine(a) \ DOMAIN ts : OwnedBy(agent[a], r) => OwnedBy(agent'[a], r)
  BY <1>6, <1>7 DEF ag
<1>9. SettleDone(a, ts) /\ DOMAIN ts \subseteq DOMAIN runs
  BY <1>2, <1>3 DEF ts
<1> HIDE DEF new
<1> QED BY <1>3, <1>6, <1>8, <1>9, TurnsOwned

LEMMA AcceptedOwned ==
  ASSUME RunInv, OpenHasOwner, NEW a \in Agents, SteerAccepted(a)
  PROVE  OpenHasOwner'
<1> DEFINE ag == agent[a]
           r == ag.steer.run
           state == AcceptState(a)
           ts == [q \in {r} |-> To(state)]
           ab == IF ag.steer.live THEN ag.absorbed \cup {r} ELSE ag.absorbed
           new == Hold(ag.routing, ag.queued, ag.turn, ab, ag.steering, NoSteer,
                       ag.drained, ag.late)
<1>1. AgentsOK /\ StoreOK(runs)
  BY DEF RunInv
<1>2. Nobody \notin Mine(a) /\ Foreign \notin Mine(a) /\ Mine(a) \subseteq DOMAIN runs
  BY <1>1, AgentParts
<1>3. /\ SettleDone(a, ts) /\ r \in Mine(a) /\ state \in TargetStates /\ AgentIs(a, new)
  BY AcceptedKeeps
<1>4. DOMAIN ts = {r} /\ ts[r] = To(state)
  OBVIOUS
<1>5. \A q : OwnedBy(ag, q) <=>
        \/ q \in ag.routing \/ q \in ag.queued \/ q \in ag.steering \/ q \in ag.absorbed
        \/ q = ag.turn \/ q = ag.steer.run
  BY DEF OwnedBy
<1>6. ag.absorbed \subseteq ab /\ (ag.steer.live => r \in ab)
  OBVIOUS
<1>7. /\ ag.steer.live \/ state \in TargetEnd => stranded' = stranded
      /\ ~(ag.steer.live \/ state \in TargetEnd) => stranded' = Strand(a, {r})
  BY DEF SteerAccepted, AcceptState
<1>8. agent'[a] = new /\ \A b \in Agents \ {a} : agent'[b] = agent[b]
  BY <1>3 DEF AgentIs
<1>9. ag.steer.run = r
  OBVIOUS
<1> HIDE DEF ab, ag, ts, r, state
<1>10. \A q \in Mine(a) \ DOMAIN ts : OwnedBy(ag, q) => OwnedBy(new, q)
  BY <1>4, <1>5, <1>6, <1>9, HoldOwns
<1>11. ag.steer.live => OwnedBy(new, r)
  BY <1>6, HoldOwns
<1>12. state \in TargetEnd => ~Open(ts[r])
  BY <1>4, Outcome
<1>13. /\ stranded \subseteq stranded'
       /\ \/ ag.steer.live \/ state \in TargetEnd
          \/ Open(runs'[r].targets[a]) => <<r, a>> \in stranded'
  BY <1>1, <1>2, <1>3, <1>7, Stranded
<1>14. \A q \in Mine(a) \ DOMAIN ts : OwnedBy(agent[a], q) => OwnedBy(agent'[a], q)
  BY <1>8, <1>10 DEF ag
<1>15. \A q \in DOMAIN ts : Open(ts[q]) =>
           OwnedBy(agent'[a], q)
             \/ (Open(runs'[q].targets[a]) => <<q, a>> \in stranded')
  BY <1>4, <1>8, <1>11, <1>12, <1>13
<1>16. DOMAIN ts \subseteq DOMAIN runs
  BY <1>2, <1>3, <1>4
<1> HIDE DEF new
<1> QED BY <1>3, <1>8, <1>13, <1>14, <1>15, <1>16, TurnsOwned

LEMMA SettlesOwned ==
  ASSUME RunInv, OpenHasOwner, NEW a \in Agents,
         \/ \E state \in {"input-required", "working"} : Approval(a, state)
         \/ \E state \in {"completed", "failed", "cancelled"}, patch \in BOOLEAN :
              Finish(a, state, patch)
         \/ \E target \in {Cut, To("failed")} : DrainBounded(a, target)
         \/ \E r \in DOMAIN runs, state \in {"completed", "failed", "cancelled"} :
              LateTerminal(a, r, state)
  PROVE  OpenHasOwner'
<1> DEFINE ag == agent[a]
<1>1. AgentsOK /\ StoreOK(runs)
  BY DEF RunInv
<1>2. Nobody \notin Mine(a) /\ Foreign \notin Mine(a) /\ Mine(a) \subseteq DOMAIN runs
  BY <1>1, AgentParts
<1>3. ASSUME NEW state \in {"input-required", "working"}, Approval(a, state)
      PROVE  OpenHasOwner'
  <2> DEFINE ts == [r \in {ag.turn} |-> To(state)]
  <2>1. SettleDone(a, ts) /\ ag.turn \in Mine(a)
    BY <1>3, ApprovalKeeps
  <2>2. agent' = agent /\ stranded' = stranded
    BY <1>3 DEF Approval
  <2>3. DOMAIN ts = {ag.turn} /\ OwnedBy(ag, ag.turn)
    BY DEF OwnedBy
  <2>4. DOMAIN ts \subseteq DOMAIN runs
    BY <1>2, <2>1, <2>3
  <2> HIDE DEF ts
  <2> QED BY <2>1, <2>2, <2>3, <2>4, TurnsOwned
<1>4. ASSUME NEW state \in {"completed", "failed", "cancelled"}, NEW patch \in BOOLEAN,
             Finish(a, state, patch)
      PROVE  OpenHasOwner'
  <2>1. /\ SettleDone(a, Outcomes(agent[a], To(state)))
        /\ AgentIs(a, Hold(agent[a].routing, agent[a].queued \cup agent[a].steering,
                           Nobody, {}, {}, SteerLate(agent[a]),
                           agent[a].drained, agent[a].late))
    BY <1>4, FinishKeeps
  <2>2. agent[a].turn # Nobody /\ stranded' = stranded
    BY <1>4 DEF Finish
  <2>3. To(state) \in {Cut, To("completed"), To("failed"), To("cancelled")}
    OBVIOUS
  <2> QED BY <2>1, <2>2, <2>3, EndsOwned
<1>5. ASSUME NEW target \in {Cut, To("failed")}, DrainBounded(a, target)
      PROVE  OpenHasOwner'
  <2> DEFINE own == {agent[a].turn} \ {Foreign}
  <2>1. /\ SettleDone(a, Outcomes(agent[a], target))
        /\ AgentIs(a, Hold(agent[a].routing, agent[a].queued \cup agent[a].steering,
                           Nobody, {}, {}, SteerLate(agent[a]),
                           agent[a].drained \cup own, agent[a].late \cup own))
    BY <1>5, DrainKeeps
  <2>2. agent[a].turn # Nobody /\ stranded' = stranded
    BY <1>5 DEF DrainBounded
  <2> HIDE DEF own
  <2> QED BY <2>1, <2>2, EndsOwned
<1>6. ASSUME NEW r, NEW state \in {"completed", "failed", "cancelled"},
             LateTerminal(a, r, state)
      PROVE  OpenHasOwner'
  <2> DEFINE ts == [q \in {r} |-> To(state)]
             new == Hold(ag.routing, ag.queued, ag.turn, ag.absorbed, ag.steering,
                         ag.steer, ag.drained, ag.late \ {r})
  <2>1. SettleDone(a, ts) /\ r \in Mine(a) /\ AgentIs(a, new)
    BY <1>6, LateKeeps
  <2>2. stranded' = stranded
    BY <1>6 DEF LateTerminal
  <2>3. state \in TargetEnd
    BY DEF TargetEnd
  <2>4. DOMAIN ts = {r} /\ ~Open(ts[r])
    BY <2>3, Outcome
  <2>5. DOMAIN ts \subseteq DOMAIN runs
    BY <1>2, <2>1, <2>4
  <2>6. \A q : OwnedBy(ag, q) => OwnedBy(new, q)
    BY HoldOwns DEF OwnedBy
  <2>7. agent'[a] = new /\ \A b \in Agents \ {a} : agent'[b] = agent[b]
    BY <2>1 DEF AgentIs
  <2> HIDE DEF ts, new
  <2>8. \A q \in Mine(a) \ DOMAIN ts : OwnedBy(agent[a], q) => OwnedBy(agent'[a], q)
    BY <2>6, <2>7
  <2> QED BY <2>1, <2>2, <2>4, <2>5, <2>7, <2>8, TurnsOwned
<1> QED BY <1>3, <1>4, <1>5, <1>6

LEMMA WritesOwned ==
  ASSUME RunInv, OpenHasOwner, NEW a \in Agents, NEW r,
         \/ \E state \in {"refused", "failed"} : Refuse(a, r, state)
         \/ \E batch \in SUBSET agent[a].queued : Start(a, r, batch)
  PROVE  OpenHasOwner'
<1> DEFINE ag == agent[a]
<1>1. AgentsOK /\ StoreOK(runs)
  BY DEF RunInv
<1>2. Nobody \notin Mine(a) /\ Foreign \notin Mine(a) /\ Mine(a) \subseteq DOMAIN runs
  BY <1>1, AgentParts
<1>3. ag.routing \subseteq Mine(a) /\ ag.queued \subseteq Mine(a)
  <2>1. HoldsOwn(ag, Mine(a))
    BY <1>1, AgentParts
  <2> QED BY <2>1, HoldFields
<1>4. \A q : OwnedBy(ag, q) <=>
        \/ q \in ag.routing \/ q \in ag.queued \/ q \in ag.steering \/ q \in ag.absorbed
        \/ q = ag.turn \/ q = ag.steer.run
  BY DEF OwnedBy
<1>5. \A q \in Mine(a) : Open(runs[q].targets[a]) => OwnedBy(ag, q) \/ <<q, a>> \in stranded
  BY DEF OpenHasOwner, OwnedBy, Mine
<1>6. ASSUME NEW state \in {"refused", "failed"}, Refuse(a, r, state)
      PROVE  OpenHasOwner'
  <2> DEFINE new == Hold(ag.routing \ {r}, ag.queued, ag.turn, ag.absorbed, ag.steering,
                         ag.steer, ag.drained, ag.late)
  <2>1. /\ r \in ag.routing /\ stranded' = stranded
        /\ runs' = [runs EXCEPT ![r] = Refused(runs[r], a, state)]
    BY <1>6 DEF Refuse
  <2>2. AgentIs(a, new)
    BY <1>1, <1>6, MoveHands
  <2>3. r \in Mine(a) /\ r \in DOMAIN runs /\ a \in DOMAIN runs[r].targets
    BY <1>3, <2>1 DEF Mine
  <2>4. state \in TargetEnd
    BY DEF TargetEnd
  <2>5. PICK run : run = Refused(runs[r], a, state)
    OBVIOUS
  <2>6. runs[r] \in RunRec /\ Sound(runs[r])
    BY <1>1, <2>3, StoreFacts
  <2>7. /\ run \in RunRec /\ Sound(run) /\ Settled(run) /\ Later(runs[r], run)
        /\ ~Open(run.targets[a])
        /\ \A b \in DOMAIN runs[r].targets \ {a} : run.targets[b] = runs[r].targets[b]
    BY <2>3, <2>4, <2>5, <2>6, RefusedSays
  <2>8. /\ Grows /\ DOMAIN runs' = DOMAIN runs /\ runs'[r] = run
        /\ \A q \in DOMAIN runs \ {r} : runs'[q] = runs[q]
    BY <1>1, <2>1, <2>3, <2>5, <2>7, RunWritten
  <2>9. agent'[a] = new /\ \A b \in Agents \ {a} : agent'[b] = agent[b]
    BY <2>2 DEF AgentIs
  <2> HIDE DEF ag
  <2>10. \A q \in Mine(a) : q # r /\ OwnedBy(ag, q) => OwnedBy(new, q)
    BY <1>4, HoldOwns
  <2>11. \A q \in Mine(a) : Open(runs'[q].targets[a]) =>
           OwnedBy(agent'[a], q) \/ <<q, a>> \in stranded'
    BY <1>2, <1>5, <2>1, <2>7, <2>8, <2>9, <2>10
  <2>12. \A q \in DOMAIN runs : \A b \in DOMAIN runs[q].targets \ {a} :
           runs'[q].targets[b] = runs[q].targets[b]
    BY <2>7, <2>8
  <2> QED BY <1>1, <2>1, <2>8, <2>9, <2>11, <2>12, OwnersKept
<1>7. ASSUME NEW batch \in SUBSET agent[a].queued, Start(a, r, batch)
      PROVE  OpenHasOwner'
  <2> DEFINE new == Hold(ag.routing, (ag.queued \ {r}) \ batch, r, ag.absorbed,
                         ag.steering, SteerAfter(ag, r), ag.drained, ag.late)
  <2>1. /\ r \in ag.queued /\ stranded' = Strand(a, batch) /\ ag.turn = Nobody
        /\ runs' = [runs EXCEPT ![r] = transitionAsyncRunTarget(runs[r], a, To("working"))]
    BY <1>7 DEF Start
  <2>3. r \in Mine(a) /\ r \in DOMAIN runs /\ a \in DOMAIN runs[r].targets
    BY <1>3, <2>1 DEF Mine
  <2>2. AgentIs(a, new)
    BY <1>1, <1>7, <2>3, StartHands
  <2>5. PICK run : run = transitionAsyncRunTarget(runs[r], a, To("working"))
    OBVIOUS
  <2>6. runs[r] \in RunRec /\ Sound(runs[r]) /\ Settled(runs[r])
    BY <1>1, <2>3, StoreFacts
  <2>7. /\ run \in RunRec /\ Sound(run) /\ Settled(run) /\ Later(runs[r], run)
        /\ \A b \in DOMAIN runs[r].targets \ {a} : run.targets[b] = runs[r].targets[b]
    BY <2>3, <2>5, <2>6, StartedRun
  <2>8. /\ Grows /\ DOMAIN runs' = DOMAIN runs /\ runs'[r] = run
        /\ \A q \in DOMAIN runs \ {r} : runs'[q] = runs[q]
    BY <1>1, <2>1, <2>3, <2>5, <2>7, RunWritten
  <2>9. agent'[a] = new /\ \A b \in Agents \ {a} : agent'[b] = agent[b]
    BY <2>2 DEF AgentIs
  <2>10. SteerAfter(ag, r).run = ag.steer.run
    BY DEF SteerAfter
  <2>11. /\ stranded \subseteq stranded'
         /\ \A q \in batch \cap DOMAIN runs :
              Open(runs'[q].targets[a]) => <<q, a>> \in stranded'
    BY <1>1, <2>1, Stranded
  <2> HIDE DEF ag
  <2>12. \A q \in Mine(a) : OwnedBy(ag, q) => OwnedBy(new, q) \/ q \in batch
    BY <1>2, <1>4, <2>1, <2>10, HoldOwns
  <2>13. OwnedBy(new, r)
    BY HoldOwns
  <2>14. \A q \in Mine(a) : Open(runs'[q].targets[a]) =>
           OwnedBy(agent'[a], q) \/ <<q, a>> \in stranded'
    BY <1>2, <1>5, <2>8, <2>9, <2>11, <2>12, <2>13
  <2>15. \A q \in DOMAIN runs : \A b \in DOMAIN runs[q].targets \ {a} :
           runs'[q].targets[b] = runs[q].targets[b]
    BY <2>7, <2>8
  <2> QED BY <1>1, <2>8, <2>9, <2>11, <2>14, <2>15, OwnersKept
<1> QED BY <1>6, <1>7

\* A step that adds runs or changes none of their targets.
LEMMA OwnersStay ==
  ASSUME OpenHasOwner, StoreOK(runs), stranded \subseteq stranded', NEW fresh,
         DOMAIN runs' = DOMAIN runs \cup fresh,
         \A q \in DOMAIN runs : runs'[q].targets = runs[q].targets,
         \A b \in Agents : \A q : OwnedBy(agent[b], q) => OwnedBy(agent'[b], q),
         \A q \in fresh : \A b \in DOMAIN runs'[q].targets :
           Open(runs'[q].targets[b]) => OwnedBy(agent'[b], q)
  PROVE  OpenHasOwner'
<1>1. \A r \in DOMAIN runs : DOMAIN runs[r].targets \subseteq Agents
  BY StoreFacts
<1>2. ASSUME NEW r \in DOMAIN runs', NEW b \in DOMAIN runs'[r].targets,
             Open(runs'[r].targets[b])
      PROVE  OwnedBy(agent'[b], r) \/ <<r, b>> \in stranded'
  <2>1. CASE r \in fresh
    BY <1>2, <2>1
  <2>2. CASE r \in DOMAIN runs
    <3>1. b \in DOMAIN runs[r].targets /\ Open(runs[r].targets[b]) /\ b \in Agents
      BY <1>1, <1>2, <2>2
    <3>2. OwnedBy(agent[b], r) \/ <<r, b>> \in stranded
      BY <2>2, <3>1 DEF OpenHasOwner, OwnedBy
    <3> QED BY <3>1, <3>2
  <2> QED BY <2>1, <2>2
<1> QED BY <1>2 DEF OpenHasOwner, OwnedBy

LEMMA PostOwned ==
  ASSUME RunInv, OpenHasOwner, NEW contract \in BOOLEAN, NEW targets \in SUBSET Agents,
         Post(contract, targets)
  PROVE  OpenHasOwner'
<1> DEFINE next == Len(runs) + 1
<1>1. AgentsOK /\ StoreOK(runs)
  BY DEF RunInv
<1>2. PICK new : new = NewRun(contract, 0, Nobody, targets)
  OBVIOUS
<1>3. new \in RunRec /\ Sound(new) /\ Settled(new) /\ DOMAIN new.targets = targets
  BY <1>2, NewRunSays DEF Nobody
<1>4. runs' = Append(runs, new) /\ stranded' = stranded
  BY <1>2 DEF Post
<1>5. /\ DOMAIN runs' = DOMAIN runs \cup {next}
      /\ runs'[next] = new /\ \A q \in DOMAIN runs : runs'[q] = runs[q]
  <2>1. /\ DOMAIN Append(runs, new) = DOMAIN runs \cup {Len(runs) + 1}
        /\ Append(runs, new)[Len(runs) + 1] = new
        /\ \A q \in DOMAIN runs : Append(runs, new)[q] = runs[q]
    BY <1>1, <1>3, RunAdded
  <2> QED BY <1>4, <2>1
<1> HIDE DEF next
<1>6. ASSUME NEW b \in Agents
      PROVE  /\ \A q : OwnedBy(agent[b], q) => OwnedBy(agent'[b], q)
             /\ b \in targets => OwnedBy(agent'[b], next)
  <2>1. CASE b \in targets
    <3>1. agent'[b] = Hold(agent[b].routing \cup {next}, agent[b].queued, agent[b].turn,
                           agent[b].absorbed, agent[b].steering, agent[b].steer,
                           agent[b].drained, agent[b].late)
      BY <1>1, <2>1, PostHands DEF next
    <3>2. \A q : OwnedBy(agent[b], q) \/ q = next => OwnedBy(agent'[b], q)
      BY <3>1, HoldOwns DEF OwnedBy
    <3> QED BY <3>2
  <2>2. CASE b \notin targets
    BY <1>1, <2>2, PostHands
  <2> QED BY <2>1, <2>2
<1>7. \A q \in {next} : \A b \in DOMAIN runs'[q].targets : OwnedBy(agent'[b], q)
  BY <1>3, <1>5, <1>6
<1>8. stranded \subseteq stranded'
      /\ \A q \in DOMAIN runs : runs'[q].targets = runs[q].targets
  BY <1>4, <1>5
<1>9. \A b \in Agents : \A q : OwnedBy(agent[b], q) => OwnedBy(agent'[b], q)
  BY <1>6
<1>10. PICK fresh : fresh = {next}
  OBVIOUS
<1>11. /\ DOMAIN runs' = DOMAIN runs \cup fresh
       /\ \A q \in fresh : \A b \in DOMAIN runs'[q].targets :
            Open(runs'[q].targets[b]) => OwnedBy(agent'[b], q)
  BY <1>5, <1>7, <1>10
<1> QED BY <1>1, <1>8, <1>9, <1>11, OwnersStay

LEMMA ContractsOwned ==
  ASSUME RunInv, OpenHasOwner, NEW e,
         \/ \E verdict \in {"met", "unmet", "unknown"}, paused \in BOOLEAN :
              Evaluate(e, verdict, paused)
         \/ \E routed \in BOOLEAN : PostFollowup(e, routed)
         \/ FollowupFails(e)
  PROVE  OpenHasOwner'
<1>1. StoreOK(runs) /\ evals \subseteq EvalRec
  BY DEF RunInv
<1>2. stranded' = stranded
  BY DEF Evaluate, PostFollowup, FollowupFails
<1>3. ASSUME NEW verdict \in {"met", "unmet", "unknown"}, NEW paused \in BOOLEAN,
             Evaluate(e, verdict, paused)
      PROVE  OpenHasOwner'
  <2>1. /\ agent' = agent /\ DOMAIN runs' = DOMAIN runs \cup {}
        /\ \A q \in DOMAIN runs : runs'[q].targets = runs[q].targets
    BY <1>3, EvaluateSays
  <2>2. /\ \A b \in Agents : \A q : OwnedBy(agent[b], q) => OwnedBy(agent'[b], q)
        /\ stranded \subseteq stranded'
    BY <1>2, <2>1
  <2>3. PICK fresh : fresh = {}
    OBVIOUS
  <2>4. /\ DOMAIN runs' = DOMAIN runs \cup fresh
        /\ \A q \in fresh : \A b \in DOMAIN runs'[q].targets :
             Open(runs'[q].targets[b]) => OwnedBy(agent'[b], q)
    BY <2>1, <2>3
  <2> QED BY <1>1, <2>1, <2>2, <2>4, OwnersStay
<1>4. ASSUME FollowupFails(e)
      PROVE  OpenHasOwner'
  <2>1. /\ agent' = agent /\ DOMAIN runs' = DOMAIN runs \cup {}
        /\ \A q \in DOMAIN runs : runs'[q].targets = runs[q].targets
    BY <1>4, FailsSays
  <2>2. /\ \A b \in Agents : \A q : OwnedBy(agent[b], q) => OwnedBy(agent'[b], q)
        /\ stranded \subseteq stranded'
    BY <1>2, <2>1
  <2>3. PICK fresh : fresh = {}
    OBVIOUS
  <2>4. /\ DOMAIN runs' = DOMAIN runs \cup fresh
        /\ \A q \in fresh : \A b \in DOMAIN runs'[q].targets :
             Open(runs'[q].targets[b]) => OwnedBy(agent'[b], q)
    BY <2>1, <2>3
  <2> QED BY <1>1, <2>1, <2>2, <2>4, OwnersStay
<1>5. ASSUME NEW routed \in BOOLEAN, PostFollowup(e, routed)
      PROVE  OpenHasOwner'
  <2> DEFINE next == Len(runs) + 1
             hands == Hold(agent[e.by].routing \cup {next}, agent[e.by].queued,
                           agent[e.by].turn, agent[e.by].absorbed,
                           agent[e.by].steering, agent[e.by].steer,
                           agent[e.by].drained, agent[e.by].late)
  <2>1. PICK new : new = FollowupRun(e, routed)
    OBVIOUS
  <2>2. /\ e \in evals /\ DOMAIN runs' = DOMAIN runs \cup {next} /\ runs'[next] = new
        /\ \A q \in DOMAIN runs : runs'[q].targets = runs[q].targets
        /\ IF routed THEN AgentIs(e.by, hands) ELSE agent' = agent
    BY <1>5, <2>1, FollowupSays
  <2>3. /\ DOMAIN new.targets = {e.by} /\ (Open(new.targets[e.by]) => routed)
    BY <2>1, <2>2, ChildSays
  <2>4. e.by \in Agents
    BY <1>1, <2>2 DEF EvalRec
  <2> HIDE DEF next
  <2>5. \A q : OwnedBy(agent[e.by], q) \/ q = next => OwnedBy(hands, q)
    BY HoldOwns DEF OwnedBy
  <2>6. /\ \A b \in Agents : \A q : OwnedBy(agent[b], q) => OwnedBy(agent'[b], q)
        /\ routed => OwnedBy(agent'[e.by], next)
    <3>1. CASE routed
      <4>1. agent'[e.by] = hands /\ \A b \in Agents \ {e.by} : agent'[b] = agent[b]
        BY <2>2, <3>1 DEF AgentIs
      <4> HIDE DEF hands
      <4> QED BY <2>5, <4>1
    <3>2. CASE ~routed
      BY <2>2, <3>2
    <3> QED BY <3>1, <3>2
  <2>7. \A q \in {next} : \A b \in DOMAIN runs'[q].targets :
           Open(runs'[q].targets[b]) => OwnedBy(agent'[b], q)
    BY <2>2, <2>3, <2>6
  <2>8. stranded \subseteq stranded'
    BY <1>2
  <2>9. PICK fresh : fresh = {next}
    OBVIOUS
  <2>10. /\ DOMAIN runs' = DOMAIN runs \cup fresh
         /\ \A q \in fresh : \A b \in DOMAIN runs'[q].targets :
              Open(runs'[q].targets[b]) => OwnedBy(agent'[b], q)
    BY <2>2, <2>7, <2>9
  <2> QED BY <1>1, <2>2, <2>6, <2>8, <2>10, OwnersStay
<1> QED BY <1>3, <1>4, <1>5

LEMMA RestartOwned ==
  ASSUME RunInv, NEW db, StoreOK(db), DOMAIN runs \subseteq DOMAIN db,
         \A r \in DOMAIN runs : Later(runs[r], db[r]), Restart(db)
  PROVE  OpenHasOwner'
<1>1. /\ DOMAIN runs' = DOMAIN db
      /\ \A r \in DOMAIN db : \A a \in DOMAIN runs'[r].targets : ~Open(runs'[r].targets[a])
  BY RestartSays
<1> QED BY <1>1 DEF OpenHasOwner

\* A step of the specification leaves no open target without an owner.
LEMMA StepOwned ==
  ASSUME RunInv, OpenHasOwner, [RunNext]_runVars
  PROVE  OpenHasOwner'
<1>1. ASSUME RoutingStep PROVE OpenHasOwner'
  <2>1. ASSUME NEW contract \in BOOLEAN, NEW targets \in SUBSET Agents, Post(contract, targets)
        PROVE  OpenHasOwner'
    BY <2>1, PostOwned
  <2>2. ASSUME NEW a \in Agents, NEW r \in DOMAIN runs,
               \/ \E steered \in BOOLEAN : Admit(a, r, steered)
               \/ \E state \in {"refused", "failed"} : Refuse(a, r, state)
               \/ Retry(a, r)
        PROVE  OpenHasOwner'
    <3>1. CASE (\E steered \in BOOLEAN : Admit(a, r, steered)) \/ Retry(a, r)
      BY <3>1, MovesOwned
    <3>2. CASE \E state \in {"refused", "failed"} : Refuse(a, r, state)
      BY <3>2, WritesOwned
    <3> QED BY <2>2, <3>1, <3>2
  <2> QED BY <1>1, <2>1, <2>2 DEF RoutingStep
<1>2. ASSUME NEW a \in Agents, TurnStep(a) PROVE OpenHasOwner'
  <2>1. ASSUME NEW r \in DOMAIN runs, \E batch \in SUBSET agent[a].queued : Start(a, r, batch)
        PROVE  OpenHasOwner'
    BY <2>1, WritesOwned
  <2>2. CASE StartForeign(a)
    BY <2>2, HolesOwned
  <2>3. CASE \/ \E state \in {"input-required", "working"} : Approval(a, state)
             \/ \E state \in {"completed", "failed", "cancelled"}, patch \in BOOLEAN :
                  Finish(a, state, patch)
             \/ \E target \in {Cut, To("failed")} : DrainBounded(a, target)
             \/ \E r \in DOMAIN runs, state \in {"completed", "failed", "cancelled"} :
                  LateTerminal(a, r, state)
    BY <2>3, SettlesOwned
  <2>4. ASSUME NEW r \in DOMAIN runs, Steer(a, r) PROVE OpenHasOwner'
    BY <2>4, MovesOwned
  <2>5. CASE SteerAccepted(a)
    BY <2>5, AcceptedOwned
  <2>6. CASE SteerRejected(a) \/ SteerFailed(a)
    <3>1. AgentsOK /\ StoreOK(runs)
      BY DEF RunInv
    <3>2. agent[a].steer # NoSteer
      BY <2>6 DEF SteerRejected, SteerFailed
    <3>3. HoldsOwn(agent[a], Mine(a)) /\ Mine(a) \subseteq DOMAIN runs
      BY <3>1, AgentParts
    <3>4. agent[a].steer.run \in DOMAIN runs
      BY <3>2, <3>3, HoldFields DEF HoldsOwn
    <3> QED BY <2>6, <3>4, MovesOwned
  <2> QED BY <1>2, <2>1, <2>2, <2>3, <2>4, <2>5, <2>6 DEF TurnStep
<1>3. ASSUME HoleStep PROVE OpenHasOwner'
  <2>1. ASSUME NEW a \in Agents, Die(a) PROVE OpenHasOwner'
    BY <2>1, HolesOwned
  <2>2. ASSUME NEW a \in Agents, NEW r \in DOMAIN runs, Drop(a, r) PROVE OpenHasOwner'
    BY <2>2, MovesOwned
  <2>3. ASSUME Crash PROVE OpenHasOwner'
    BY <2>3, CrashSays, RestartOwned
  <2>4. ASSUME NEW a \in Agents, NEW target \in {Cut, To("completed"), To("failed")},
               CrashEnding(a, target)
        PROVE  OpenHasOwner'
    <3>1. /\ StoreOK(EndingDb(a, target)) /\ Restart(EndingDb(a, target))
          /\ DOMAIN runs \subseteq DOMAIN EndingDb(a, target)
          /\ \A r \in DOMAIN runs : Later(runs[r], EndingDb(a, target)[r])
      BY <2>4, CrashEndingSays
    <3> QED BY <3>1, RestartOwned
  <2> QED BY <1>3, <2>1, <2>2, <2>3, <2>4 DEF HoleStep
<1>4. ASSUME NEW e \in evals, ContractStep(e) PROVE OpenHasOwner'
  <2>1. CASE \/ \E verdict \in {"met", "unmet", "unknown"}, paused \in BOOLEAN :
                  Evaluate(e, verdict, paused)
             \/ \E routed \in BOOLEAN : PostFollowup(e, routed)
             \/ FollowupFails(e)
    BY <2>1, ContractsOwned
  <2>2. ASSUME CrashFollowing(e) PROVE OpenHasOwner'
    <3>1. PICK db : /\ StoreOK(db) /\ Restart(db) /\ DOMAIN runs \subseteq DOMAIN db
                    /\ \A r \in DOMAIN runs : Later(runs[r], db[r])
      BY <2>2, CrashFollowingSays
    <3> QED BY <3>1, RestartOwned
  <2> QED BY <1>4, <2>1, <2>2 DEF ContractStep
<1>5. ASSUME UNCHANGED runVars PROVE OpenHasOwner'
  BY <1>5 DEF runVars, OpenHasOwner
<1> QED BY <1>1, <1>2, <1>3, <1>4, <1>5 DEF RunNext

\* An open target is always in its agent's hands, routed, queued, at work,
\* waiting for a steer or absorbed by a turn, or it was counted when one of the
\* known holes let go of it: no other step of the binder forgets a target.
THEOREM OpenOwned == RunSpec => []OpenHasOwner
<1>1. RunInit => OpenHasOwner
  BY DEF RunInit, OpenHasOwner
<1>2. RunInv /\ OpenHasOwner /\ [RunNext]_runVars => OpenHasOwner'
  BY StepOwned
<1> QED BY <1>1, <1>2, RunInvariant, PTL DEF RunSpec

-----------------------------------------------------------------------------
(* Until a turn is retried, an agent holds each run once, and only while   *)
(* its target is open.                                                     *)

\* r is in at most one of the agent's hands, and then its target is open; a
\* drained turn's is not, and one that may still end by itself was cut or failed.
Fit(routing, queued, turn, absorbed, steering, steered, drained, late, r, target) ==
  /\ r \in routing => /\ r \notin queued /\ r \notin absorbed /\ r \notin steering
                      /\ r # turn /\ r # steered /\ Open(target)
  /\ r \in queued => /\ r \notin absorbed /\ r \notin steering
                     /\ r # turn /\ r # steered /\ Open(target)
  /\ r \in absorbed => r \notin steering /\ r # turn /\ r # steered /\ Open(target)
  /\ r \in steering => r # turn /\ r # steered /\ Open(target)
  /\ r = turn => r # steered /\ Open(target)
  /\ r = steered => Open(target)
  /\ r \in drained => ~Open(target)
  /\ r \in late => target.state \in {"cancelled", "failed"}

OrderlyAt(ag, r, target) ==
  Fit(ag.routing, ag.queued, ag.turn, ag.absorbed, ag.steering, ag.steer.run,
      ag.drained, ag.late, r, target)

Orderly == \A a \in Agents : \A r \in Mine(a) : OrderlyAt(agent[a], r, runs[r].targets[a])

LEMMA HoldOrderly ==
  ASSUME NEW routing, NEW queued, NEW turn, NEW absorbed, NEW steering, NEW steer,
         NEW drained, NEW late, NEW r, NEW target,
         Fit(routing, queued, turn, absorbed, steering, steer.run, drained, late, r, target)
  PROVE  OrderlyAt(Hold(routing, queued, turn, absorbed, steering, steer, drained, late), r, target)
BY DEF OrderlyAt, Hold

\* A step of one agent, which writes only its own targets.
LEMMA OrderlyKept ==
  ASSUME Orderly, Grows, StoreOK(runs), DOMAIN runs' = DOMAIN runs,
         NEW a \in Agents, NEW ag, AgentIs(a, ag),
         \A r \in DOMAIN runs : \A b \in DOMAIN runs[r].targets \ {a} :
           runs'[r].targets[b] = runs[r].targets[b],
         \A r \in Mine(a) : OrderlyAt(ag, r, runs'[r].targets[a])
  PROVE  Orderly'
<1>1. \A b : Mine(b)' = Mine(b)
  BY DEF Grows, Later, Mine
<1>2. agent'[a] = ag /\ \A b \in Agents \ {a} : agent'[b] = agent[b]
  BY DEF AgentIs
<1>3. ASSUME NEW b \in Agents, NEW r \in Mine(b)
      PROVE  OrderlyAt(agent'[b], r, runs'[r].targets[b])
  <2>1. CASE b = a
    BY <1>2, <2>1
  <2>2. CASE b # a
    <3>1. runs'[r].targets[b] = runs[r].targets[b]
      BY <2>2 DEF Mine
    <3> QED BY <1>2, <2>2, <3>1 DEF Orderly
  <2> QED BY <2>1, <2>2
<1> QED BY <1>1, <1>3 DEF Orderly

LEMMA OrderlyMoved ==
  ASSUME RunInv, Orderly, runs' = runs, NEW a \in Agents, NEW ag, AgentIs(a, ag),
         \A r \in Mine(a) : OrderlyAt(ag, r, runs[r].targets[a])
  PROVE  Orderly'
<1>1. StoreOK(runs) /\ Grows
  BY StillRuns DEF RunInv
<1> QED BY <1>1, OrderlyKept

LEMMA OrderlyStill ==
  ASSUME Orderly, agent' = agent, DOMAIN runs' = DOMAIN runs, Grows,
         \A q \in DOMAIN runs : runs'[q].targets = runs[q].targets
  PROVE  Orderly'
<1>1. \A b : Mine(b)' = Mine(b)
  BY DEF Grows, Later, Mine
<1> QED BY <1>1 DEF Orderly, Mine

LEMMA MovesOrderly ==
  ASSUME RunInv, Orderly, NEW a \in Agents, NEW r \in DOMAIN runs,
         \/ \E steered \in BOOLEAN : Admit(a, r, steered)
         \/ Steer(a, r) \/ SteerRejected(a) \/ SteerFailed(a) \/ Drop(a, r)
  PROVE  Orderly'
<1> DEFINE ag == agent[a]
<1>1. AgentsOK /\ StoreOK(runs)
  BY DEF RunInv
<1>2. Nobody \notin Mine(a) /\ Foreign \notin Mine(a) /\ Mine(a) \subseteq DOMAIN runs
  BY <1>1, AgentParts
<1>3. \A q \in Mine(a) :
        Fit(ag.routing, ag.queued, ag.turn, ag.absorbed, ag.steering, ag.steer.run,
            ag.drained, ag.late, q, runs[q].targets[a])
  BY DEF Orderly, OrderlyAt
<1>5. NoSteer.run = Nobody
  BY DEF NoSteer
<1>6. CASE \E steered \in BOOLEAN : Admit(a, r, steered)
  <2>1. PICK steered \in BOOLEAN : Admit(a, r, steered)
    BY <1>6
  <2> DEFINE q2 == IF steered THEN ag.queued ELSE ag.queued \cup {r}
             s2 == IF steered THEN ag.steering \cup {r} ELSE ag.steering
             new == Hold(ag.routing \ {r}, q2, ag.turn, ag.absorbed, s2, ag.steer,
                         ag.drained, ag.late)
  <2>2. AgentIs(a, new) /\ runs' = runs /\ r \in ag.routing
    BY <1>1, <2>1, AdmitHands DEF Admit
  <2>3. \/ q2 = ag.queued /\ s2 = ag.steering \cup {r}
        \/ q2 = ag.queued \cup {r} /\ s2 = ag.steering
    OBVIOUS
  <2> HIDE DEF q2, s2, ag
  <2>4. \A q \in Mine(a) : Fit(ag.routing \ {r}, q2, ag.turn, ag.absorbed, s2, ag.steer.run,
                                ag.drained, ag.late, q, runs[q].targets[a])
    BY <1>3, <2>2, <2>3 DEF Fit
  <2>5. \A q \in Mine(a) : OrderlyAt(new, q, runs[q].targets[a])
    BY <2>4, HoldOrderly
  <2> QED BY <2>2, <2>5, OrderlyMoved DEF ag
<1>8. CASE Steer(a, r)
  <2> DEFINE st == [run |-> r, into |-> ag.turn, live |-> TRUE, mapped |-> ag.turn # Foreign]
             new == Hold(ag.routing, ag.queued, ag.turn, ag.absorbed, ag.steering \ {r},
                         st, ag.drained, ag.late)
  <2>1. AgentIs(a, new)
    BY <1>1, <1>8, MoveHands
  <2>2. runs' = runs /\ r \in ag.steering /\ st.run = r
    BY <1>8 DEF Steer
  <2> HIDE DEF ag, st
  <2>3. \A q \in Mine(a) : Fit(ag.routing, ag.queued, ag.turn, ag.absorbed, ag.steering \ {r},
                                st.run, ag.drained, ag.late, q, runs[q].targets[a])
    BY <1>3, <2>2 DEF Fit
  <2>4. \A q \in Mine(a) : OrderlyAt(new, q, runs[q].targets[a])
    BY <2>3, HoldOrderly
  <2> QED BY <2>1, <2>2, <2>4, OrderlyMoved DEF ag
<1>9. CASE SteerRejected(a)
  <2> DEFINE new == Hold(ag.routing, ag.queued \cup {ag.steer.run}, ag.turn,
                         ag.absorbed, ag.steering, NoSteer, ag.drained, ag.late)
  <2>1. AgentIs(a, new) /\ runs' = runs
    BY <1>1, <1>9, MoveHands DEF SteerRejected
  <2> HIDE DEF ag
  <2>2. \A q \in Mine(a) : Fit(ag.routing, ag.queued \cup {ag.steer.run}, ag.turn, ag.absorbed,
                                ag.steering, NoSteer.run, ag.drained, ag.late,
                                q, runs[q].targets[a])
    BY <1>2, <1>3, <1>5 DEF Fit
  <2>3. \A q \in Mine(a) : OrderlyAt(new, q, runs[q].targets[a])
    BY <2>2, HoldOrderly
  <2> QED BY <2>1, <2>3, OrderlyMoved DEF ag
<1>10. CASE SteerFailed(a)
  <2> DEFINE new == Hold(ag.routing, ag.queued, ag.turn, ag.absorbed, ag.steering,
                         NoSteer, ag.drained, ag.late)
  <2>1. AgentIs(a, new) /\ runs' = runs
    BY <1>1, <1>10, MoveHands DEF SteerFailed
  <2> HIDE DEF ag
  <2>2. \A q \in Mine(a) : Fit(ag.routing, ag.queued, ag.turn, ag.absorbed, ag.steering,
                                NoSteer.run, ag.drained, ag.late, q, runs[q].targets[a])
    BY <1>2, <1>3, <1>5 DEF Fit
  <2>3. \A q \in Mine(a) : OrderlyAt(new, q, runs[q].targets[a])
    BY <2>2, HoldOrderly
  <2> QED BY <2>1, <2>3, OrderlyMoved DEF ag
<1>11. CASE Drop(a, r)
  <2> DEFINE new == Hold(ag.routing, ag.queued \ {r}, ag.turn, ag.absorbed,
                         ag.steering, ag.steer, ag.drained, ag.late)
  <2>1. AgentIs(a, new) /\ runs' = runs
    BY <1>1, <1>11, MoveHands DEF Drop
  <2> HIDE DEF ag
  <2>2. \A q \in Mine(a) : Fit(ag.routing, ag.queued \ {r}, ag.turn, ag.absorbed, ag.steering,
                                ag.steer.run, ag.drained, ag.late, q, runs[q].targets[a])
    BY <1>3 DEF Fit
  <2>3. \A q \in Mine(a) : OrderlyAt(new, q, runs[q].targets[a])
    BY <2>2, HoldOrderly
  <2> QED BY <2>1, <2>3, OrderlyMoved DEF ag
<1> QED BY <1>6, <1>8, <1>9, <1>10, <1>11

LEMMA HolesOrderly ==
  ASSUME RunInv, Orderly, NEW a \in Agents, StartForeign(a) \/ Die(a)
  PROVE  Orderly'
<1> DEFINE ag == agent[a]
<1>1. AgentsOK /\ StoreOK(runs)
  BY DEF RunInv
<1>2. Nobody \notin Mine(a) /\ Foreign \notin Mine(a)
  BY <1>1, AgentParts
<1>3. \A q \in Mine(a) :
        Fit(ag.routing, ag.queued, ag.turn, ag.absorbed, ag.steering, ag.steer.run,
            ag.drained, ag.late, q, runs[q].targets[a])
  BY DEF Orderly, OrderlyAt
<1>4. CASE StartForeign(a)
  <2> DEFINE st == SteerAfter(ag, Foreign)
             new == Hold(ag.routing, ag.queued \ {Foreign}, Foreign, ag.absorbed,
                         ag.steering, st, ag.drained, ag.late)
  <2>1. AgentIs(a, new)
    BY <1>1, <1>4, StartForeignHands
  <2>2. runs' = runs
    BY <1>4 DEF StartForeign
  <2>3. st.run = ag.steer.run
    BY DEF SteerAfter
  <2> HIDE DEF ag, st
  <2>4. \A q \in Mine(a) : Fit(ag.routing, ag.queued \ {Foreign}, Foreign, ag.absorbed,
                               ag.steering, st.run, ag.drained, ag.late,
                               q, runs[q].targets[a])
    BY <1>2, <1>3, <2>3 DEF Fit
  <2>5. \A q \in Mine(a) : OrderlyAt(new, q, runs[q].targets[a])
    BY <2>4, HoldOrderly
  <2> QED BY <2>1, <2>2, <2>5, OrderlyMoved DEF ag
<1>5. CASE Die(a)
  <2> DEFINE new == Hold(ag.routing, {}, Nobody, {}, {}, NoSteer, {}, {})
  <2>1. AgentIs(a, new)
    BY <1>1, <1>5, DieHands
  <2>2. runs' = runs /\ NoSteer.run = Nobody
    BY <1>5 DEF Die, NoSteer
  <2> HIDE DEF ag
  <2>3. \A q \in Mine(a) : Fit(ag.routing, {}, Nobody, {}, {}, NoSteer.run, {}, {},
                               q, runs[q].targets[a])
    BY <1>2, <1>3, <2>2 DEF Fit
  <2>4. \A q \in Mine(a) : OrderlyAt(new, q, runs[q].targets[a])
    BY <2>3, HoldOrderly
  <2> QED BY <2>1, <2>2, <2>4, OrderlyMoved DEF ag
<1> QED BY <1>4, <1>5

\* A step of Settle by agent a on runs that it holds: each takes its outcome.
LEMMA SettleOrderly ==
  ASSUME RunInv, Orderly, NEW a \in Agents, NEW ts, SettleDone(a, ts),
         DOMAIN ts \subseteq DOMAIN runs, NEW ag, AgentIs(a, ag),
         \A r \in Mine(a) \ DOMAIN ts : OrderlyAt(ag, r, runs[r].targets[a]),
         \A r \in DOMAIN ts : OrderlyAt(ag, r, runs'[r].targets[a])
  PROVE  Orderly'
<1>1. StoreOK(runs)
  BY DEF RunInv
<1>2. /\ Grows /\ DOMAIN runs' = DOMAIN runs
      /\ \A r \in DOMAIN runs : \A b \in DOMAIN runs[r].targets \ {a} :
              runs'[r].targets[b] = runs[r].targets[b]
      /\ \A r \in DOMAIN runs \ DOMAIN ts : runs'[r].targets = runs[r].targets
  BY SettledTargets
<1>3. Mine(a) \subseteq DOMAIN runs
  BY DEF Mine
<1>4. \A r \in Mine(a) : OrderlyAt(ag, r, runs'[r].targets[a])
  BY <1>2, <1>3
<1> QED BY <1>1, <1>2, <1>4, OrderlyKept

\* A held run, whose target is open, takes what is written to it.
LEMMA SettleTakes ==
  ASSUME NEW a, NEW ts, SettleDone(a, ts), NEW r \in DOMAIN ts, Open(runs[r].targets[a])
  PROVE  runs'[r].targets[a] = ts[r]
BY DEF SettleDone, Moved

LEMMA EndsOrderly ==
  ASSUME RunInv, Orderly, NEW a \in Agents, agent[a].turn # Nobody,
         NEW target \in {Cut, To("completed"), To("failed"), To("cancelled")},
         SettleDone(a, Outcomes(agent[a], target)),
         NEW own, own = {} \/ (own = {agent[a].turn} \ {Foreign} /\ target \in {Cut, To("failed")}),
         AgentIs(a, Hold(agent[a].routing, agent[a].queued \cup agent[a].steering,
                         Nobody, {}, {}, SteerLate(agent[a]),
                         agent[a].drained \cup own, agent[a].late \cup own))
  PROVE  Orderly'
<1> DEFINE ag == agent[a]
           ts == Outcomes(agent[a], target)
           st == SteerLate(ag)
           new == Hold(ag.routing, ag.queued \cup ag.steering, Nobody, {}, {},
                       st, ag.drained \cup own, ag.late \cup own)
<1>1. AgentsOK /\ StoreOK(runs)
  BY DEF RunInv
<1>2. Nobody \notin Mine(a) /\ Foreign \notin Mine(a) /\ Mine(a) \subseteq DOMAIN runs
  BY <1>1, AgentParts
<1>3. /\ DOMAIN ts = ({ag.turn} \ {Foreign}) \cup ag.absorbed
      /\ DOMAIN ts \subseteq Mine(a)
      /\ \A r \in DOMAIN ts : ~Open(ts[r])
  BY <1>1, OutcomesSay
<1>4. ag.turn \in DOMAIN ts => ts[ag.turn] = target
  BY <1>3 DEF Outcomes
<1>5. st.run = ag.steer.run
  BY DEF SteerLate
<1>6. \A q \in Mine(a) :
        Fit(ag.routing, ag.queued, ag.turn, ag.absorbed, ag.steering, ag.steer.run,
            ag.drained, ag.late, q, runs[q].targets[a])
  BY DEF Orderly, OrderlyAt
<1>7. SettleDone(a, ts) /\ AgentIs(a, new)
  OBVIOUS
<1>8. target \in {Cut, To("failed")} => target.state \in {"cancelled", "failed"}
  BY DEF Cut, To
<1>9. own = {} \/ (own = {ag.turn} \ {Foreign} /\ target \in {Cut, To("failed")})
  OBVIOUS
<1> HIDE DEF ag, ts, st
<1>10. \A q \in DOMAIN ts : Open(runs[q].targets[a])
  BY <1>3, <1>6 DEF Fit
<1>11. \A q \in DOMAIN ts : runs'[q].targets[a] = ts[q]
  BY <1>7, <1>10, SettleTakes
<1>12. ASSUME NEW q \in Mine(a) \ DOMAIN ts
       PROVE  Fit(ag.routing, ag.queued \cup ag.steering, Nobody, {}, {}, st.run,
                  ag.drained \cup own, ag.late \cup own, q, runs[q].targets[a])
  <2>1. q \notin own /\ q # Nobody
    BY <1>2, <1>3, <1>9
  <2> QED BY <1>5, <1>6, <2>1 DEF Fit
<1>13. ASSUME NEW q \in DOMAIN ts
       PROVE  Fit(ag.routing, ag.queued \cup ag.steering, Nobody, {}, {}, st.run,
                  ag.drained \cup own, ag.late \cup own, q, runs'[q].targets[a])
  <2>1. q \in Mine(a) /\ q # Nobody /\ (q = ag.turn \/ q \in ag.absorbed)
    BY <1>2, <1>3
  <2>2. /\ q \notin ag.routing /\ q \notin ag.queued /\ q \notin ag.steering
        /\ q # ag.steer.run /\ q \notin ag.drained
    BY <1>6, <2>1 DEF Fit
  <2>3. q \notin ag.late
    BY <1>6, <1>10, <2>1 DEF Fit, Open, TargetEnd
  <2>4. ~Open(runs'[q].targets[a])
    BY <1>3, <1>11
  <2>5. q \in own => runs'[q].targets[a].state \in {"cancelled", "failed"}
    BY <1>4, <1>8, <1>9, <1>11
  <2> QED BY <1>5, <2>1, <2>2, <2>3, <2>4, <2>5 DEF Fit
<1>14. \A q \in Mine(a) \ DOMAIN ts : OrderlyAt(new, q, runs[q].targets[a])
  BY <1>12, HoldOrderly
<1>15. \A q \in DOMAIN ts : OrderlyAt(new, q, runs'[q].targets[a])
  BY <1>13, HoldOrderly
<1>16. DOMAIN ts \subseteq DOMAIN runs
  BY <1>2, <1>3
<1> HIDE DEF new
<1> QED BY <1>7, <1>14, <1>15, <1>16, SettleOrderly

LEMMA AcceptedOrderly ==
  ASSUME RunInv, Orderly, NEW a \in Agents, SteerAccepted(a)
  PROVE  Orderly'
<1> DEFINE ag == agent[a]
           r == ag.steer.run
           state == AcceptState(a)
           ts == [q \in {r} |-> To(state)]
           ab == IF ag.steer.live THEN ag.absorbed \cup {r} ELSE ag.absorbed
           new == Hold(ag.routing, ag.queued, ag.turn, ab, ag.steering, NoSteer,
                       ag.drained, ag.late)
<1>1. AgentsOK /\ StoreOK(runs)
  BY DEF RunInv
<1>2. Nobody \notin Mine(a) /\ Foreign \notin Mine(a) /\ Mine(a) \subseteq DOMAIN runs
  BY <1>1, AgentParts
<1>3. SettleDone(a, ts) /\ r \in Mine(a) /\ AgentIs(a, new)
  BY AcceptedKeeps
<1>4. DOMAIN ts = {r} /\ ts[r] = To(state)
  OBVIOUS
<1>5. \A q \in Mine(a) :
        Fit(ag.routing, ag.queued, ag.turn, ag.absorbed, ag.steering, r,
            ag.drained, ag.late, q, runs[q].targets[a])
  BY DEF Orderly, OrderlyAt
<1>6. ag.steer.live => state = "working"
  BY DEF AcceptState
<1>7. IF ag.steer.live THEN ab = ag.absorbed \cup {r} ELSE ab = ag.absorbed
  OBVIOUS
<1>8. NoSteer.run = Nobody
  BY DEF NoSteer
<1>9. Open(To("working"))
  BY DEF Open, To, TargetEnd
<1> HIDE DEF ab, ag, ts, r, state
<1>10. Open(runs[r].targets[a]) /\ r \notin ag.late
  BY <1>3, <1>5 DEF Fit, Open, TargetEnd
<1>11. runs'[r].targets[a] = To(state)
  BY <1>3, <1>4, <1>10, SettleTakes
<1>12. ASSUME NEW q \in Mine(a) \ DOMAIN ts
       PROVE  Fit(ag.routing, ag.queued, ag.turn, ab, ag.steering, NoSteer.run,
                  ag.drained, ag.late, q, runs[q].targets[a])
  BY <1>2, <1>4, <1>5, <1>7, <1>8 DEF Fit
<1>13. Fit(ag.routing, ag.queued, ag.turn, ab, ag.steering, NoSteer.run,
           ag.drained, ag.late, r, runs'[r].targets[a])
  <2>1. /\ r \notin ag.routing /\ r \notin ag.queued /\ r \notin ag.steering /\ r # ag.turn
        /\ r \notin ag.absorbed /\ r \notin ag.drained
    BY <1>3, <1>5, <1>10 DEF Fit
  <2>2. r \in ab => Open(runs'[r].targets[a])
    BY <1>6, <1>7, <1>9, <1>11, <2>1
  <2> QED BY <1>2, <1>3, <1>8, <1>10, <2>1, <2>2 DEF Fit
<1>14. \A q \in Mine(a) \ DOMAIN ts : OrderlyAt(new, q, runs[q].targets[a])
  BY <1>12, HoldOrderly
<1>15. \A q \in DOMAIN ts : OrderlyAt(new, q, runs'[q].targets[a])
  BY <1>4, <1>13, HoldOrderly
<1>16. DOMAIN ts \subseteq DOMAIN runs
  BY <1>2, <1>3, <1>4
<1> HIDE DEF new
<1> QED BY <1>3, <1>14, <1>15, <1>16, SettleOrderly

\* The runs of a step of Settle had not completed.
Unfinished(a, ts) ==
  /\ SettleDone(a, ts) /\ DOMAIN ts \subseteq Mine(a)
  /\ \A r \in DOMAIN ts : runs[r].targets[a].state # "completed"

LEMMA SettlesOrderly ==
  ASSUME RunInv, Orderly, NEW a \in Agents,
         \/ \E state \in {"input-required", "working"} : Approval(a, state)
         \/ \E state \in {"completed", "failed", "cancelled"}, patch \in BOOLEAN :
              Finish(a, state, patch)
         \/ \E target \in {Cut, To("failed")} : DrainBounded(a, target)
         \/ \E r \in DOMAIN runs, state \in {"completed", "failed", "cancelled"} :
              LateTerminal(a, r, state)
         \/ SteerAccepted(a)
  PROVE  Orderly' /\ \E ts : Unfinished(a, ts)
<1> DEFINE ag == agent[a]
<1>1. AgentsOK /\ StoreOK(runs)
  BY DEF RunInv
<1>2. Nobody \notin Mine(a) /\ Foreign \notin Mine(a) /\ Mine(a) \subseteq DOMAIN runs
  BY <1>1, AgentParts
<1>3. \A q \in Mine(a) :
        Fit(ag.routing, ag.queued, ag.turn, ag.absorbed, ag.steering, ag.steer.run,
            ag.drained, ag.late, q, runs[q].targets[a])
  BY DEF Orderly, OrderlyAt
<1>4. \A q \in Mine(a) : q = ag.turn \/ q \in ag.absorbed \/ q = ag.steer.run =>
        Open(runs[q].targets[a]) /\ runs[q].targets[a].state # "completed"
  BY <1>3 DEF Fit, Open, TargetEnd
<1>5. ASSUME NEW state \in {"input-required", "working"}, Approval(a, state)
      PROVE  Orderly' /\ \E ts : Unfinished(a, ts)
  <2> DEFINE ts == [r \in {ag.turn} |-> To(state)]
  <2>1. SettleDone(a, ts) /\ ag.turn \in Mine(a)
    BY <1>5, ApprovalKeeps
  <2>2. agent' = agent
    BY <1>5 DEF Approval
  <2>3. DOMAIN ts = {ag.turn} /\ ts[ag.turn] = To(state)
    OBVIOUS
  <2>4. Open(To(state))
    BY DEF Open, To, TargetEnd
  <2> HIDE DEF ts
  <2>5. runs'[ag.turn].targets[a] = To(state)
    BY <1>4, <2>1, <2>3, SettleTakes
  <2>6. AgentIs(a, ag)
    BY <1>1, <2>2 DEF AgentIs, AgentsOK
  <2>7. \A q \in Mine(a) \ DOMAIN ts : OrderlyAt(ag, q, runs[q].targets[a])
    BY DEF Orderly
  <2>8. ag.turn \notin ag.late
    BY <1>3, <1>4, <2>1 DEF Fit, Open, TargetEnd
  <2>9. Fit(ag.routing, ag.queued, ag.turn, ag.absorbed, ag.steering, ag.steer.run,
            ag.drained, ag.late, ag.turn, runs'[ag.turn].targets[a])
    <3>1. Open(runs'[ag.turn].targets[a]) /\ Open(runs[ag.turn].targets[a])
      BY <1>4, <2>1, <2>4, <2>5
    <3> HIDE DEF ag
    <3> QED BY <1>3, <2>1, <2>8, <3>1 DEF Fit
  <2>10. \A q \in DOMAIN ts : OrderlyAt(ag, q, runs'[q].targets[a])
    BY <2>3, <2>9 DEF OrderlyAt
  <2>11. DOMAIN ts \subseteq DOMAIN runs
    BY <1>2, <2>1, <2>3
  <2>12. Orderly'
    BY <2>1, <2>6, <2>7, <2>10, <2>11, SettleOrderly
  <2>13. Unfinished(a, ts)
    BY <1>4, <2>1, <2>3 DEF Unfinished
  <2> QED BY <2>12, <2>13
<1>6. ASSUME NEW target \in {Cut, To("completed"), To("failed"), To("cancelled")},
             ag.turn # Nobody, SettleDone(a, Outcomes(ag, target))
      PROVE  \E ts : Unfinished(a, ts)
  <2> DEFINE ts == Outcomes(ag, target)
  <2>1. /\ DOMAIN ts = ({ag.turn} \ {Foreign}) \cup ag.absorbed
        /\ DOMAIN ts \subseteq Mine(a)
    BY <1>1, <1>6, OutcomesSay
  <2>2. SettleDone(a, ts)
    BY <1>6
  <2> HIDE DEF ts
  <2>3. Unfinished(a, ts)
    BY <1>4, <2>1, <2>2 DEF Unfinished
  <2> QED BY <2>3
<1>7. ASSUME NEW state \in {"completed", "failed", "cancelled"}, NEW patch \in BOOLEAN,
             Finish(a, state, patch)
      PROVE  Orderly' /\ \E ts : Unfinished(a, ts)
  <2>1. /\ SettleDone(a, Outcomes(agent[a], To(state)))
        /\ AgentIs(a, Hold(agent[a].routing, agent[a].queued \cup agent[a].steering,
                           Nobody, {}, {}, SteerLate(agent[a]),
                           agent[a].drained, agent[a].late))
    BY <1>7, FinishKeeps
  <2>2. agent[a].turn # Nobody
    BY <1>7 DEF Finish
  <2>3. To(state) \in {Cut, To("completed"), To("failed"), To("cancelled")}
    OBVIOUS
  <2>4. PICK own : own = {}
    OBVIOUS
  <2>5. agent[a].drained \cup own = agent[a].drained /\ agent[a].late \cup own = agent[a].late
    BY <2>4
  <2>6. AgentIs(a, Hold(agent[a].routing, agent[a].queued \cup agent[a].steering,
                        Nobody, {}, {}, SteerLate(agent[a]),
                        agent[a].drained \cup own, agent[a].late \cup own))
    BY <2>1, <2>5
  <2>7. Orderly'
    BY <2>1, <2>2, <2>3, <2>4, <2>6, EndsOrderly
  <2> QED BY <1>6, <2>1, <2>2, <2>3, <2>7
<1>8. ASSUME NEW target \in {Cut, To("failed")}, DrainBounded(a, target)
      PROVE  Orderly' /\ \E ts : Unfinished(a, ts)
  <2> DEFINE own == {agent[a].turn} \ {Foreign}
  <2>1. /\ SettleDone(a, Outcomes(agent[a], target))
        /\ AgentIs(a, Hold(agent[a].routing, agent[a].queued \cup agent[a].steering,
                           Nobody, {}, {}, SteerLate(agent[a]),
                           agent[a].drained \cup own, agent[a].late \cup own))
    BY <1>8, DrainKeeps
  <2>2. agent[a].turn # Nobody
    BY <1>8 DEF DrainBounded
  <2>3. own = {agent[a].turn} \ {Foreign}
    OBVIOUS
  <2>4. target \in {Cut, To("completed"), To("failed"), To("cancelled")}
    OBVIOUS
  <2> HIDE DEF own
  <2>5. Orderly'
    BY <1>8, <2>1, <2>2, <2>3, <2>4, EndsOrderly
  <2> QED BY <1>6, <2>1, <2>2, <2>4, <2>5
<1>9. ASSUME NEW r, NEW state \in {"completed", "failed", "cancelled"},
             LateTerminal(a, r, state)
      PROVE  Orderly' /\ \E ts : Unfinished(a, ts)
  <2> DEFINE ts == [q \in {r} |-> To(state)]
             new == Hold(ag.routing, ag.queued, ag.turn, ag.absorbed, ag.steering,
                         ag.steer, ag.drained, ag.late \ {r})
  <2>1. SettleDone(a, ts) /\ r \in Mine(a) /\ AgentIs(a, new)
    BY <1>9, LateKeeps
  <2>2. r \in ag.late \/ (r \in ag.drained /\ r = ag.turn)
    BY <1>9 DEF LateTerminal
  <2>3. state \in TargetEnd
    BY DEF TargetEnd
  <2>4. DOMAIN ts = {r} /\ ts[r] = To(state) /\ ~Open(To(state))
    BY <2>3, Outcome
  <2>5. DOMAIN ts \subseteq DOMAIN runs
    BY <1>2, <2>1, <2>4
  <2> HIDE DEF ts
  <2>6. runs[r].targets[a].state \in {"cancelled", "failed"}
    BY <1>3, <2>1, <2>2 DEF Fit
  <2>7. ~Open(runs[r].targets[a])
    BY <2>6 DEF Open, TargetEnd
  <2>8. ~Open(runs'[r].targets[a])
    <3>1. Moved(a, r, ts[r], runs'[r])
      BY <2>1, <2>4 DEF SettleDone
    <3> QED BY <2>4, <2>7, <3>1 DEF Moved
  <2>9. \A q \in Mine(a) \ DOMAIN ts : OrderlyAt(new, q, runs[q].targets[a])
    <3>1. \A q \in Mine(a) \ DOMAIN ts :
            Fit(ag.routing, ag.queued, ag.turn, ag.absorbed, ag.steering, ag.steer.run,
                ag.drained, ag.late \ {r}, q, runs[q].targets[a])
      <4> HIDE DEF ag
      <4> QED BY <1>3 DEF Fit
    <3> QED BY <3>1, HoldOrderly
  <2>10. OrderlyAt(new, r, runs'[r].targets[a])
    <3>1. Fit(ag.routing, ag.queued, ag.turn, ag.absorbed, ag.steering, ag.steer.run,
              ag.drained, ag.late \ {r}, r, runs'[r].targets[a])
      <4> HIDE DEF ag
      <4> QED BY <1>3, <2>1, <2>7, <2>8 DEF Fit
    <3> QED BY <3>1, HoldOrderly
  <2> HIDE DEF new
  <2>11. Orderly'
    BY <2>1, <2>4, <2>5, <2>9, <2>10, SettleOrderly
  <2>12. Unfinished(a, ts)
    BY <2>1, <2>4, <2>6 DEF Unfinished
  <2> QED BY <2>11, <2>12
<1>10. CASE SteerAccepted(a)
  <2> DEFINE ts == [r \in {ag.steer.run} |-> To(AcceptState(a))]
  <2>1. Orderly'
    BY <1>10, AcceptedOrderly
  <2>2. SettleDone(a, ts) /\ ag.steer.run \in Mine(a)
    BY <1>10, AcceptedKeeps
  <2>3. DOMAIN ts = {ag.steer.run}
    OBVIOUS
  <2> HIDE DEF ts
  <2>4. Unfinished(a, ts)
    BY <1>4, <2>2, <2>3 DEF Unfinished
  <2> QED BY <2>1, <2>4
<1> QED BY <1>5, <1>7, <1>8, <1>9, <1>10

\* Only run r is written, and a's target of it was open.
WritesOpen(a, r) ==
  /\ DOMAIN runs' = DOMAIN runs /\ r \in Mine(a) /\ Open(runs[r].targets[a])
  /\ \A q \in DOMAIN runs \ {r} : runs'[q] = runs[q]

LEMMA WritesOrderly ==
  ASSUME RunInv, Orderly, NEW a \in Agents, NEW r,
         \/ \E state \in {"refused", "failed"} : Refuse(a, r, state)
         \/ \E batch \in SUBSET agent[a].queued : Start(a, r, batch)
  PROVE  Orderly' /\ WritesOpen(a, r)
<1> DEFINE ag == agent[a]
<1>1. AgentsOK /\ StoreOK(runs)
  BY DEF RunInv
<1>2. Nobody \notin Mine(a) /\ Foreign \notin Mine(a) /\ Mine(a) \subseteq DOMAIN runs
  BY <1>1, AgentParts
<1>3. ag.routing \subseteq Mine(a) /\ ag.queued \subseteq Mine(a)
  <2>1. HoldsOwn(ag, Mine(a))
    BY <1>1, AgentParts
  <2> QED BY <2>1, HoldFields
<1>4. \A q \in Mine(a) :
        Fit(ag.routing, ag.queued, ag.turn, ag.absorbed, ag.steering, ag.steer.run,
            ag.drained, ag.late, q, runs[q].targets[a])
  BY DEF Orderly, OrderlyAt
<1>5. ASSUME NEW state \in {"refused", "failed"}, Refuse(a, r, state)
      PROVE  Orderly' /\ WritesOpen(a, r)
  <2> DEFINE new == Hold(ag.routing \ {r}, ag.queued, ag.turn, ag.absorbed, ag.steering,
                         ag.steer, ag.drained, ag.late)
  <2>1. /\ r \in ag.routing
        /\ runs' = [runs EXCEPT ![r] = Refused(runs[r], a, state)]
    BY <1>5 DEF Refuse
  <2>2. AgentIs(a, new)
    BY <1>1, <1>5, MoveHands
  <2>3. r \in Mine(a) /\ r \in DOMAIN runs /\ a \in DOMAIN runs[r].targets
    BY <1>3, <2>1 DEF Mine
  <2>4. state \in TargetEnd
    BY DEF TargetEnd
  <2>5. PICK run : run = Refused(runs[r], a, state)
    OBVIOUS
  <2>6. runs[r] \in RunRec /\ Sound(runs[r])
    BY <1>1, <2>3, StoreFacts
  <2>7. /\ run \in RunRec /\ Sound(run) /\ Settled(run) /\ Later(runs[r], run)
        /\ ~Open(run.targets[a])
        /\ \A b \in DOMAIN runs[r].targets \ {a} : run.targets[b] = runs[r].targets[b]
    BY <2>3, <2>4, <2>5, <2>6, RefusedSays
  <2>8. /\ Grows /\ DOMAIN runs' = DOMAIN runs /\ runs'[r] = run
        /\ \A q \in DOMAIN runs \ {r} : runs'[q] = runs[q]
    BY <1>1, <2>1, <2>3, <2>5, <2>7, RunWritten
  <2> HIDE DEF ag
  <2>9. ASSUME NEW q \in Mine(a)
        PROVE  Fit(ag.routing \ {r}, ag.queued, ag.turn, ag.absorbed, ag.steering,
                   ag.steer.run, ag.drained, ag.late, q, runs'[q].targets[a])
    <3>1. CASE q = r
      <4>1. q \notin ag.late
        BY <1>4, <2>1, <3>1 DEF Fit, Open, TargetEnd
      <4> QED BY <1>4, <2>1, <2>7, <2>8, <3>1, <4>1 DEF Fit
    <3>2. CASE q # r
      <4>1. runs'[q] = runs[q]
        BY <1>2, <2>8, <3>2
      <4> QED BY <1>4, <4>1 DEF Fit
    <3> QED BY <3>1, <3>2
  <2>10. \A q \in Mine(a) : OrderlyAt(new, q, runs'[q].targets[a])
    BY <2>9, HoldOrderly
  <2>11. \A q \in DOMAIN runs : \A b \in DOMAIN runs[q].targets \ {a} :
           runs'[q].targets[b] = runs[q].targets[b]
    BY <2>7, <2>8
  <2> HIDE DEF new
  <2>12. Orderly'
    BY <1>1, <2>2, <2>8, <2>10, <2>11, OrderlyKept
  <2>13. Open(runs[r].targets[a])
    BY <1>4, <2>1, <2>3 DEF Fit
  <2> QED BY <2>3, <2>8, <2>12, <2>13 DEF WritesOpen
<1>6. ASSUME NEW batch \in SUBSET agent[a].queued, Start(a, r, batch)
      PROVE  Orderly' /\ WritesOpen(a, r)
  <2> DEFINE st == SteerAfter(ag, r)
             new == Hold(ag.routing, (ag.queued \ {r}) \ batch, r, ag.absorbed,
                         ag.steering, st, ag.drained, ag.late)
  <2>1. /\ r \in ag.queued
        /\ runs' = [runs EXCEPT ![r] = transitionAsyncRunTarget(runs[r], a, To("working"))]
    BY <1>6 DEF Start
  <2>2. r \in Mine(a) /\ r \in DOMAIN runs /\ a \in DOMAIN runs[r].targets
    BY <1>3, <2>1 DEF Mine
  <2>3. AgentIs(a, new)
    BY <1>1, <1>6, <2>2, StartHands
  <2>4. PICK run : run = transitionAsyncRunTarget(runs[r], a, To("working"))
    OBVIOUS
  <2>5. runs[r] \in RunRec /\ Sound(runs[r]) /\ Settled(runs[r])
    BY <1>1, <2>2, StoreFacts
  <2>6. /\ run \in RunRec /\ Sound(run) /\ Settled(run) /\ Later(runs[r], run)
        /\ \A b \in DOMAIN runs[r].targets \ {a} : run.targets[b] = runs[r].targets[b]
        /\ \/ run.targets = runs[r].targets /\ ~Open(runs[r].targets[a])
           \/ run.targets[a] = To("working")
    BY <2>2, <2>4, <2>5, StartedRun
  <2>7. /\ Grows /\ DOMAIN runs' = DOMAIN runs /\ runs'[r] = run
        /\ \A q \in DOMAIN runs \ {r} : runs'[q] = runs[q]
    BY <1>1, <2>1, <2>2, <2>4, <2>6, RunWritten
  <2>8. st.run = ag.steer.run
    BY DEF SteerAfter
  <2>9. Open(To("working"))
    BY DEF Open, To, TargetEnd
  <2> HIDE DEF ag, st
  <2>10. ASSUME NEW q \in Mine(a)
         PROVE  Fit(ag.routing, (ag.queued \ {r}) \ batch, r, ag.absorbed, ag.steering,
                    st.run, ag.drained, ag.late, q, runs'[q].targets[a])
    <3>1. CASE q = r
      <4>1. /\ q \notin ag.routing /\ q \notin ag.absorbed /\ q \notin ag.steering
            /\ q # ag.steer.run /\ Open(runs[q].targets[a]) /\ q \notin ag.drained
        BY <1>4, <2>1, <3>1 DEF Fit
      <4>2. q \notin ag.late
        BY <1>4, <4>1 DEF Fit, Open, TargetEnd
      <4>3. Open(runs'[q].targets[a])
        BY <2>6, <2>7, <2>9, <3>1, <4>1
      <4> QED BY <2>8, <3>1, <4>1, <4>2, <4>3 DEF Fit
    <3>2. CASE q # r
      <4>1. runs'[q] = runs[q]
        BY <1>2, <2>7, <3>2
      <4> QED BY <1>4, <2>8, <3>2, <4>1 DEF Fit
    <3> QED BY <3>1, <3>2
  <2>11. \A q \in Mine(a) : OrderlyAt(new, q, runs'[q].targets[a])
    BY <2>10, HoldOrderly
  <2>12. \A q \in DOMAIN runs : \A b \in DOMAIN runs[q].targets \ {a} :
           runs'[q].targets[b] = runs[q].targets[b]
    BY <2>6, <2>7
  <2> HIDE DEF new
  <2>13. Orderly'
    BY <1>1, <2>3, <2>7, <2>11, <2>12, OrderlyKept
  <2>14. Open(runs[r].targets[a])
    BY <1>4, <2>1, <2>2 DEF Fit
  <2> QED BY <2>2, <2>7, <2>13, <2>14 DEF WritesOpen
<1> QED BY <1>5, <1>6

\* An agent's fields hold only its own runs.
LEMMA OwnFields ==
  ASSUME AgentsOK, NEW b \in Agents
  PROVE  LET ag == agent[b]
         IN /\ ag.routing \subseteq Mine(b) /\ ag.queued \subseteq Mine(b)
            /\ ag.absorbed \subseteq Mine(b) /\ ag.steering \subseteq Mine(b)
            /\ ag.drained \subseteq Mine(b) /\ ag.late \subseteq Mine(b)
            /\ ag.turn \in Mine(b) \cup {Nobody, Foreign}
            /\ ag.steer.run \in Mine(b) \cup {Nobody}
<1>1. HoldsOwn(agent[b], Mine(b))
  BY DEF AgentsOK
<1> QED BY <1>1, HoldFields

\* A new run is routed to the agents it has an open target for.
LEMMA RoutedOrderly ==
  ASSUME RunInv, Orderly, NEW next, next \notin DOMAIN runs,
         DOMAIN runs' = DOMAIN runs \cup {next},
         \A q \in DOMAIN runs : runs'[q].targets = runs[q].targets,
         NEW routed, \A b \in routed : Open(runs'[next].targets[b]),
         \A b \in Agents : LET ag == agent[b] IN
           agent'[b] = IF b \in routed
                       THEN Hold(ag.routing \cup {next}, ag.queued, ag.turn, ag.absorbed,
                                 ag.steering, ag.steer, ag.drained, ag.late)
                       ELSE ag,
         next \notin {Nobody, Foreign}
  PROVE  Orderly'
<1>1. AgentsOK /\ StoreOK(runs)
  BY DEF RunInv
<1>2. ASSUME NEW b \in Agents, NEW q \in Mine(b)'
      PROVE  OrderlyAt(agent'[b], q, runs'[q].targets[b])
  <2> DEFINE ag == agent[b]
             rt == IF b \in routed THEN ag.routing \cup {next} ELSE ag.routing
  <2>1. Mine(b) \subseteq DOMAIN runs
    BY DEF Mine
  <2>2. /\ ag.routing \subseteq Mine(b) /\ ag.queued \subseteq Mine(b)
        /\ ag.absorbed \subseteq Mine(b) /\ ag.steering \subseteq Mine(b)
        /\ ag.drained \subseteq Mine(b) /\ ag.late \subseteq Mine(b)
        /\ ag.turn \in Mine(b) \cup {Nobody, Foreign}
        /\ ag.steer.run \in Mine(b) \cup {Nobody}
    BY <1>1, OwnFields
  <2>3. IF b \in routed THEN rt = ag.routing \cup {next} ELSE rt = ag.routing
    OBVIOUS
  <2>4. Fit(rt, ag.queued, ag.turn, ag.absorbed, ag.steering, ag.steer.run,
            ag.drained, ag.late, q, runs'[q].targets[b])
    <3>1. CASE q = next
      <4>1. /\ q \notin ag.routing /\ q \notin ag.queued /\ q \notin ag.absorbed
            /\ q \notin ag.steering /\ q \notin ag.drained /\ q \notin ag.late
            /\ q # ag.turn /\ q # ag.steer.run
        BY <2>1, <2>2, <3>1
      <4>2. q \in rt => Open(runs'[q].targets[b])
        BY <2>3, <3>1, <4>1
      <4> HIDE DEF rt, ag
      <4> QED BY <4>1, <4>2 DEF Fit
    <3>2. CASE q # next
      <4>1. q \in Mine(b) /\ runs'[q].targets[b] = runs[q].targets[b]
        BY <3>2 DEF Mine
      <4>2. Fit(ag.routing, ag.queued, ag.turn, ag.absorbed, ag.steering, ag.steer.run,
                ag.drained, ag.late, q, runs[q].targets[b])
        BY <4>1 DEF Orderly, OrderlyAt
      <4>3. q \in rt <=> q \in ag.routing
        BY <2>3, <3>2
      <4> HIDE DEF rt, ag
      <4> QED BY <4>1, <4>2, <4>3 DEF Fit
    <3> QED BY <3>1, <3>2
  <2>5. CASE b \in routed
    <3>1. agent'[b] = Hold(rt, ag.queued, ag.turn, ag.absorbed, ag.steering,
                           ag.steer, ag.drained, ag.late)
      BY <2>5
    <3> HIDE DEF rt, ag
    <3>2. OrderlyAt(Hold(rt, ag.queued, ag.turn, ag.absorbed, ag.steering,
                         ag.steer, ag.drained, ag.late), q, runs'[q].targets[b])
      BY <2>4, HoldOrderly
    <3> QED BY <3>1, <3>2
  <2>6. CASE b \notin routed
    <3>1. agent'[b] = ag /\ rt = ag.routing
      BY <2>6
    <3> HIDE DEF rt, ag
    <3> QED BY <2>4, <3>1 DEF OrderlyAt
  <2> QED BY <2>5, <2>6
<1> QED BY <1>2 DEF Orderly

LEMMA RestartOrderly ==
  ASSUME RunInv, NEW db, StoreOK(db), DOMAIN runs \subseteq DOMAIN db,
         \A r \in DOMAIN runs : Later(runs[r], db[r]), Restart(db)
  PROVE  Orderly'
<1>1. /\ \A a \in Agents : agent'[a] = NewAgent
      /\ RunInv'
  BY RestartSays DEF Kept
<1>2. /\ NewAgent.routing = {} /\ NewAgent.queued = {} /\ NewAgent.turn = Nobody
      /\ NewAgent.absorbed = {} /\ NewAgent.steering = {} /\ NewAgent.steer.run = Nobody
      /\ NewAgent.drained = {} /\ NewAgent.late = {}
  BY DEF NewAgent, NoSteer
<1>3. Nobody \notin DOMAIN runs'
  <2>1. StoreOK(runs')
    BY <1>1 DEF RunInv
  <2> QED BY <2>1, StoreFacts
<1>4. ASSUME NEW q \in DOMAIN runs', NEW target
      PROVE  OrderlyAt(NewAgent, q, target)
  BY <1>2, <1>3 DEF OrderlyAt, Fit
<1> QED BY <1>1, <1>4 DEF Orderly, Mine

-----------------------------------------------------------------------------
(* Follow-ups form chains.                                                 *)

ChainOf(db) ==
  \A r \in DOMAIN db : db[r].parent # Nobody =>
    LET p == db[db[r].parent]
    IN /\ db[r].parent \in DOMAIN db
       /\ p.state = "completed_unmet" /\ p.result = "unmet"
       /\ db[r].depth = p.depth + 1 /\ db[r].depth <= MaxFollowups
       /\ \A q \in DOMAIN db : db[q].parent = db[r].parent => q = r

\* A run is evaluated once, before it has a follow-up; an evaluation that is to
\* post one has found the contract unmet and the chain not yet spent.
OneEvaluation ==
  \A e \in evals :
    /\ \A q \in DOMAIN runs : runs[q].parent # e.run
    /\ \A f \in evals : f.run = e.run => f = e
    /\ e.step = "probe" => runs[e.run].state = "completed" /\ runs[e.run].result = "none"
    /\ e.step = "post" => /\ runs[e.run].state = "completed_unmet"
                          /\ runs[e.run].result = "unmet" /\ ~Spent(runs[e.run])

ChainInv == Orderly /\ ChainOf(runs) /\ OneEvaluation

LEMMA ChainLater ==
  ASSUME NEW db, ChainOf(db), NEW new, DOMAIN new = DOMAIN db,
         \A r \in DOMAIN db : Later(db[r], new[r])
  PROVE  ChainOf(new)
<1>1. ASSUME NEW r \in DOMAIN new, new[r].parent # Nobody
      PROVE  LET p == new[new[r].parent]
             IN /\ new[r].parent \in DOMAIN new
                /\ p.state = "completed_unmet" /\ p.result = "unmet"
                /\ new[r].depth = p.depth + 1 /\ new[r].depth <= MaxFollowups
                /\ \A q \in DOMAIN new : new[q].parent = new[r].parent => q = r
  <2>1. \A q \in DOMAIN db : new[q].parent = db[q].parent /\ new[q].depth = db[q].depth
    BY DEF Later
  <2>2. PICK p : p = db[r].parent
    OBVIOUS
  <2>3. /\ p \in DOMAIN db /\ new[r].parent = p
        /\ db[p].state = "completed_unmet" /\ db[p].result = "unmet"
        /\ db[r].depth = db[p].depth + 1 /\ db[r].depth <= MaxFollowups
        /\ \A q \in DOMAIN db : db[q].parent = p => q = r
    BY <1>1, <2>1, <2>2 DEF ChainOf
  <2>4. new[p].state = "completed_unmet" /\ new[p].result = "unmet"
    BY <2>3 DEF Later
  <2> QED BY <1>1, <2>1, <2>3, <2>4
<1> QED BY <1>1 DEF ChainOf

\* A run is added to the chains, of its own or below a run that has none yet.
LEMMA ChainAdded ==
  ASSUME NEW db, ChainOf(db), NEW next, next \notin DOMAIN db, Nobody \notin DOMAIN db,
         NEW new, DOMAIN new = DOMAIN db \cup {next},
         \A q \in DOMAIN db : Later(db[q], new[q]),
         \/ new[next].parent = Nobody
         \/ LET p == new[next].parent
            IN /\ p \in DOMAIN db /\ \A q \in DOMAIN db : db[q].parent # p
               /\ db[p].state = "completed_unmet" /\ db[p].result = "unmet"
               /\ new[next].depth = db[p].depth + 1 /\ new[next].depth <= MaxFollowups
  PROVE  ChainOf(new)
<1>1. \A q \in DOMAIN db : new[q].parent = db[q].parent /\ new[q].depth = db[q].depth
  BY DEF Later
<1>2. ASSUME NEW r \in DOMAIN db, new[r].parent # Nobody
      PROVE  LET p == new[new[r].parent]
             IN /\ new[r].parent \in DOMAIN new
                /\ p.state = "completed_unmet" /\ p.result = "unmet"
                /\ new[r].depth = p.depth + 1 /\ new[r].depth <= MaxFollowups
                /\ \A q \in DOMAIN new : new[q].parent = new[r].parent => q = r
  <2>1. PICK p : p = db[r].parent
    OBVIOUS
  <2>2. /\ p \in DOMAIN db /\ new[r].parent = p
        /\ db[p].state = "completed_unmet" /\ db[p].result = "unmet"
        /\ db[r].depth = db[p].depth + 1 /\ db[r].depth <= MaxFollowups
        /\ \A q \in DOMAIN db : db[q].parent = p => q = r
    BY <1>1, <1>2, <2>1 DEF ChainOf
  <2>3. new[p].state = "completed_unmet" /\ new[p].result = "unmet"
    BY <2>2 DEF Later
  <2>4. new[next].parent # p
    BY <1>2, <2>1, <2>2
  <2> QED BY <1>1, <2>2, <2>3, <2>4
<1>3. ASSUME new[next].parent # Nobody
      PROVE  LET p == new[new[next].parent]
             IN /\ new[next].parent \in DOMAIN new
                /\ p.state = "completed_unmet" /\ p.result = "unmet"
                /\ new[next].depth = p.depth + 1 /\ new[next].depth <= MaxFollowups
                /\ \A q \in DOMAIN new : new[q].parent = new[next].parent => q = next
  <2>1. PICK p : p = new[next].parent
    OBVIOUS
  <2>2. /\ p \in DOMAIN db /\ \A q \in DOMAIN db : db[q].parent # p
        /\ db[p].state = "completed_unmet" /\ db[p].result = "unmet"
        /\ new[next].depth = db[p].depth + 1 /\ new[next].depth <= MaxFollowups
    BY <1>3, <2>1
  <2>3. new[p].state = "completed_unmet" /\ new[p].result = "unmet"
    BY <2>2 DEF Later
  <2> QED BY <1>1, <2>1, <2>2, <2>3
<1> QED BY <1>2, <1>3 DEF ChainOf

\* A step that begins no evaluation and leaves the outcomes of those under way.
LEMMA ChainKept ==
  ASSUME RunInv, Grows, ChainOf(runs), OneEvaluation, DOMAIN runs' = DOMAIN runs,
         evals' \subseteq evals,
         \A e \in evals' : /\ runs'[e.run].state = runs[e.run].state
                           /\ runs'[e.run].result = runs[e.run].result
  PROVE  ChainOf(runs') /\ OneEvaluation'
<1>1. ChainOf(runs')
  BY ChainLater DEF Grows
<1>2. \A q \in DOMAIN runs : runs'[q].parent = runs[q].parent /\ runs'[q].depth = runs[q].depth
  BY DEF Grows, Later
<1>3. \A e \in evals : e.run \in DOMAIN runs
  BY DEF RunInv, EvalRec
<1>4. \A e \in evals' : Spent(runs'[e.run]) <=> Spent(runs[e.run])
  BY <1>2, <1>3 DEF Spent
<1>5. OneEvaluation'
  BY <1>2, <1>3, <1>4 DEF OneEvaluation
<1> QED BY <1>1, <1>5

\* A step of Settle begins an evaluation only of a run that had none.
LEMMA SettleChain ==
  ASSUME RunInv, ChainOf(runs), OneEvaluation, NEW a \in Agents, NEW ts, Unfinished(a, ts)
  PROVE  ChainOf(runs') /\ OneEvaluation'
<1>1. StoreOK(runs) /\ evals \subseteq EvalRec
  BY DEF RunInv
<1>2. /\ Grows /\ DOMAIN runs' = DOMAIN runs /\ evals \subseteq evals'
      /\ \A r \in DOMAIN runs \ DOMAIN ts : runs'[r] = runs[r]
      /\ \A r \in DOMAIN ts : Moved(a, r, ts[r], runs'[r])
      /\ \A e \in evals' \ evals :
           /\ e.run \in DOMAIN ts /\ e.step = "probe" /\ runs'[e.run].result = "none"
           /\ runs'[e.run].state = "completed"
      /\ \A e, f \in evals' \ evals : e.run = f.run => e = f
  BY DEF Unfinished, SettleDone
<1>3. ChainOf(runs')
  BY <1>2, ChainLater DEF Grows
<1>4. ASSUME NEW r \in DOMAIN ts
      PROVE  runs[r].state \notin {"completed", "completed_unmet"}
  <2>1. /\ r \in DOMAIN runs /\ a \in DOMAIN runs[r].targets
        /\ runs[r].targets[a].state # "completed"
    BY <1>4 DEF Unfinished, Mine
  <2>2. Sound(runs[r])
    BY <1>1, <2>1 DEF StoreOK
  <2> QED BY <2>1, <2>2 DEF Sound
<1>5. \A q \in DOMAIN runs : runs'[q].parent = runs[q].parent /\ runs'[q].depth = runs[q].depth
  BY <1>2 DEF Grows, Later
<1>6. \A e \in evals : /\ e.run \in DOMAIN runs /\ e.step \in {"probe", "post"}
                       /\ runs[e.run].state \in {"completed", "completed_unmet"}
  BY <1>1 DEF EvalRec, OneEvaluation
<1>7. \A e \in evals : runs'[e.run] = runs[e.run]
  BY <1>2, <1>4, <1>6
<1>8. ASSUME NEW e \in evals'
      PROVE  /\ \A q \in DOMAIN runs : runs'[q].parent # e.run
             /\ \A f \in evals' : f.run = e.run => f = e
             /\ e.step = "probe" => runs'[e.run].state = "completed" /\ runs'[e.run].result = "none"
             /\ e.step = "post" => /\ runs'[e.run].state = "completed_unmet"
                                   /\ runs'[e.run].result = "unmet" /\ ~Spent(runs'[e.run])
  <2>1. CASE e \in evals
    <3>1. \A f \in evals' \ evals : f.run # e.run
      BY <1>2, <1>4, <1>6, <2>1
    <3> QED BY <1>5, <1>7, <2>1, <3>1 DEF OneEvaluation
  <2>2. CASE e \in evals' \ evals
    <3>1. e.run \in DOMAIN ts /\ runs[e.run].state \notin {"completed", "completed_unmet"}
      BY <1>2, <1>4, <2>2
    <3>2. \A f \in evals : f.run # e.run
      BY <1>6, <3>1
    <3>3. e.run \in DOMAIN runs /\ e.run # Nobody
      BY <1>1, <3>1, StoreFacts DEF Unfinished, Mine
    <3>4. \A q \in DOMAIN runs : runs[q].parent # e.run
      BY <3>1, <3>3 DEF ChainOf
    <3> QED BY <1>2, <1>5, <2>2, <3>2, <3>4
  <2> QED BY <2>1, <2>2
<1>9. OneEvaluation'
  BY <1>2, <1>8 DEF OneEvaluation
<1> QED BY <1>3, <1>9

\* An evaluation is of a run that has completed.
LEMMA EvaluatedRuns ==
  ASSUME RunInv, OneEvaluation, NEW e \in evals
  PROVE  /\ e.run \in DOMAIN runs /\ e.by \in Agents /\ e.step \in {"probe", "post"}
         /\ runs[e.run].state \in {"completed", "completed_unmet"}
         /\ \A a \in DOMAIN runs[e.run].targets : ~Open(runs[e.run].targets[a])
<1>1. StoreOK(runs) /\ evals \subseteq EvalRec
  BY DEF RunInv
<1>2. e.run \in DOMAIN runs /\ e.by \in Agents /\ e.step \in {"probe", "post"}
  BY <1>1 DEF EvalRec
<1>3. runs[e.run].state \in {"completed", "completed_unmet"}
  BY <1>2 DEF OneEvaluation
<1>4. Sound(runs[e.run])
  BY <1>1, <1>2 DEF StoreOK
<1> QED BY <1>2, <1>3, <1>4 DEF Sound, RunEnd

LEMMA WritesChain ==
  ASSUME RunInv, ChainOf(runs), OneEvaluation, Grows, evals' = evals,
         NEW a \in Agents, NEW r, WritesOpen(a, r)
  PROVE  ChainOf(runs') /\ OneEvaluation'
<1>1. ASSUME NEW e \in evals
      PROVE  runs'[e.run] = runs[e.run]
  <2>1. /\ e.run \in DOMAIN runs
        /\ \A b \in DOMAIN runs[e.run].targets : ~Open(runs[e.run].targets[b])
    BY EvaluatedRuns
  <2>2. e.run # r
    BY <2>1 DEF WritesOpen, Mine
  <2> QED BY <2>1, <2>2 DEF WritesOpen
<1>2. DOMAIN runs' = DOMAIN runs
  BY DEF WritesOpen
<1> QED BY <1>1, <1>2, ChainKept

LEMMA IdleChain ==
  ASSUME RunInv, ChainOf(runs), OneEvaluation, runs' = runs, evals' = evals
  PROVE  ChainOf(runs') /\ OneEvaluation'
<1>1. Grows
  BY StillRuns DEF RunInv
<1> QED BY <1>1, ChainKept

LEMMA PostChain ==
  ASSUME RunInv, ChainInv, NEW contract \in BOOLEAN, NEW targets \in SUBSET Agents,
         Post(contract, targets)
  PROVE  ChainInv'
<1> DEFINE next == Len(runs) + 1
<1>1. AgentsOK /\ StoreOK(runs) /\ Orderly /\ ChainOf(runs) /\ OneEvaluation
  BY DEF RunInv, ChainInv
<1>2. PICK new : new = NewRun(contract, 0, Nobody, targets)
  OBVIOUS
<1>3. /\ new \in RunRec /\ Sound(new) /\ Settled(new) /\ DOMAIN new.targets = targets
      /\ new.parent = Nobody /\ \A b \in targets : Open(new.targets[b])
  BY <1>2, NewRunSays DEF Nobody
<1>4. runs' = Append(runs, new) /\ evals' = evals
  BY <1>2 DEF Post
<1>5. /\ DOMAIN runs' = DOMAIN runs \cup {next} /\ next \notin DOMAIN runs
      /\ runs'[next] = new /\ \A q \in DOMAIN runs : runs'[q] = runs[q]
  <2>1. /\ DOMAIN Append(runs, new) = DOMAIN runs \cup {Len(runs) + 1}
        /\ Len(runs) + 1 \notin DOMAIN runs
        /\ Append(runs, new)[Len(runs) + 1] = new
        /\ \A q \in DOMAIN runs : Append(runs, new)[q] = runs[q]
    BY <1>1, <1>3, RunAdded
  <2> QED BY <1>4, <2>1
<1>6. next \notin {Nobody, Foreign} /\ Nobody \notin DOMAIN runs
  BY <1>1, StoreFacts DEF Nobody, Foreign
<1> HIDE DEF next
<1>7. \A b \in Agents : LET ag == agent[b] IN
           agent'[b] = IF b \in targets
                       THEN Hold(ag.routing \cup {next}, ag.queued, ag.turn, ag.absorbed,
                                 ag.steering, ag.steer, ag.drained, ag.late)
                       ELSE ag
  BY <1>1, PostHands DEF next
<1>8. Orderly'
  <2>1. /\ \A q \in DOMAIN runs : runs'[q].targets = runs[q].targets
        /\ \A b \in targets : Open(runs'[next].targets[b])
    BY <1>3, <1>5
  <2> QED BY <1>1, <1>5, <1>6, <1>7, <2>1, RoutedOrderly
<1>9. \A q \in DOMAIN runs : Later(runs[q], runs'[q])
  BY <1>5 DEF Later
<1>10. ChainOf(runs')
  BY <1>1, <1>3, <1>5, <1>6, <1>9, ChainAdded
<1>11. OneEvaluation'
  <2>1. \A e \in evals : e.run \in DOMAIN runs
    BY <1>1, EvaluatedRuns
  <2> QED BY <1>1, <1>3, <1>4, <1>5, <1>6, <2>1 DEF OneEvaluation
<1> QED BY <1>8, <1>10, <1>11 DEF ChainInv

LEMMA EvaluateChain ==
  ASSUME RunInv, ChainInv, NEW e, NEW verdict \in {"met", "unmet", "unknown"},
         NEW paused \in BOOLEAN, Evaluate(e, verdict, paused)
  PROVE  ChainInv'
<1>1. StoreOK(runs) /\ Orderly /\ ChainOf(runs) /\ OneEvaluation /\ evals \subseteq EvalRec
  BY DEF RunInv, ChainInv
<1>2. /\ Kept /\ e \in evals /\ e.step = "probe" /\ agent' = agent
      /\ DOMAIN runs' = DOMAIN runs /\ \A q \in DOMAIN runs \ {e.run} : runs'[q] = runs[q]
      /\ runs'[e.run].targets = runs[e.run].targets
      /\ runs'[e.run].result = IF runs[e.run].result = "none" THEN verdict ELSE runs[e.run].result
      /\ runs'[e.run].state = IF runs'[e.run].result = "unmet" /\ runs[e.run].state = "completed"
                              THEN "completed_unmet" ELSE runs[e.run].state
      /\ \/ evals' = evals \ {e}
         \/ /\ evals' = (evals \ {e}) \cup {[e EXCEPT !.step = "post"]}
            /\ verdict = "unmet" /\ ~Spent(runs[e.run])
  BY EvaluateSays
<1>3. Grows
  BY <1>2 DEF Kept
<1>4. Orderly'
  <2>1. \A q \in DOMAIN runs : runs'[q].targets = runs[q].targets
    BY <1>2
  <2> QED BY <1>1, <1>2, <1>3, <2>1, OrderlyStill
<1>5. ChainOf(runs')
  BY <1>1, <1>2, <1>3, ChainLater DEF Grows
<1>6. \A f \in evals : f.run \in DOMAIN runs /\ (f # e => f.run # e.run)
  BY <1>1, <1>2, EvaluatedRuns DEF OneEvaluation
<1>7. \A q \in DOMAIN runs : runs'[q].parent = runs[q].parent /\ runs'[q].depth = runs[q].depth
  BY <1>3 DEF Grows, Later
<1>8. PICK g : g = [e EXCEPT !.step = "post"]
  OBVIOUS
<1>9. g.run = e.run /\ g.step = "post"
  BY <1>1, <1>2, <1>8 DEF EvalRec
<1>10. ASSUME verdict = "unmet", ~Spent(runs[e.run])
       PROVE  /\ runs'[e.run].state = "completed_unmet" /\ runs'[e.run].result = "unmet"
              /\ ~Spent(runs'[e.run])
  <2>1. runs[e.run].state = "completed" /\ runs[e.run].result = "none"
    BY <1>1, <1>2 DEF OneEvaluation
  <2> QED BY <1>2, <1>6, <1>7, <1>10, <2>1 DEF Spent
<1>11. ASSUME NEW f \in evals \ {e}
       PROVE  /\ \A q \in DOMAIN runs : runs'[q].parent # f.run
              /\ runs'[f.run] = runs[f.run] /\ f.run # e.run
  <2>1. runs'[f.run] = runs[f.run] /\ f.run # e.run
    BY <1>2, <1>6
  <2> QED BY <1>1, <1>7, <2>1 DEF OneEvaluation
<1>12. \A q \in DOMAIN runs : runs'[q].parent # e.run
  BY <1>1, <1>2, <1>7 DEF OneEvaluation
<1>13. OneEvaluation'
  <2>1. CASE evals' = evals \ {e}
    BY <1>1, <1>2, <1>11, <2>1 DEF OneEvaluation
  <2>2. CASE evals' = (evals \ {e}) \cup {g} /\ verdict = "unmet" /\ ~Spent(runs[e.run])
    <3>1. ASSUME NEW f \in evals'
          PROVE  /\ \A q \in DOMAIN runs' : runs'[q].parent # f.run
                 /\ \A h \in evals' : h.run = f.run => h = f
                 /\ f.step = "probe" => runs'[f.run].state = "completed" /\ runs'[f.run].result = "none"
                 /\ f.step = "post" => /\ runs'[f.run].state = "completed_unmet"
                                       /\ runs'[f.run].result = "unmet" /\ ~Spent(runs'[f.run])
      <4>1. CASE f = g
        BY <1>2, <1>9, <1>10, <1>11, <1>12, <2>2, <4>1
      <4>2. CASE f \in evals \ {e}
        <5>1. \A h \in evals' : h.run = f.run => h = f
          BY <1>1, <1>9, <1>11, <2>2, <4>2 DEF OneEvaluation
        <5> QED BY <1>1, <1>2, <1>11, <4>2, <5>1 DEF OneEvaluation
      <4> QED BY <2>2, <3>1, <4>1, <4>2
    <3> QED BY <3>1 DEF OneEvaluation
  <2> QED BY <1>2, <1>8, <2>1, <2>2
<1> QED BY <1>4, <1>5, <1>13 DEF ChainInv

\* The follow-up of an unmet run that has none, in a chain with room for it.
LEMMA FollowupHangs ==
  ASSUME RunInv, OneEvaluation, NEW e \in evals, e.step = "post", NEW routed \in BOOLEAN
  PROVE  LET new == FollowupRun(e, routed)
         IN /\ new.parent = e.run /\ e.run \in DOMAIN runs
            /\ \A q \in DOMAIN runs : runs[q].parent # e.run
            /\ runs[e.run].state = "completed_unmet" /\ runs[e.run].result = "unmet"
            /\ new.depth = runs[e.run].depth + 1 /\ new.depth <= MaxFollowups
<1>1. e.run \in DOMAIN runs
  BY EvaluatedRuns
<1>2. PICK new : new = FollowupRun(e, routed)
  OBVIOUS
<1>3. new.depth = runs[e.run].depth + 1 /\ new.parent = e.run
  BY <1>2, ChildSays
<1>4. runs[e.run].depth \in Nat
  <2>1. runs[e.run] \in RunRec
    BY <1>1, StoreFacts DEF RunInv
  <2> QED BY <2>1 DEF RunRec
<1>5. new.depth <= MaxFollowups
  BY <1>3, <1>4, RunConstants DEF OneEvaluation, Spent
<1> QED BY <1>1, <1>2, <1>3, <1>5 DEF OneEvaluation

LEMMA FollowupChains ==
  ASSUME RunInv, ChainInv, NEW e, NEW routed \in BOOLEAN, PostFollowup(e, routed)
  PROVE  ChainInv'
<1> DEFINE next == Len(runs) + 1
           hands == Hold(agent[e.by].routing \cup {next}, agent[e.by].queued,
                         agent[e.by].turn, agent[e.by].absorbed,
                         agent[e.by].steering, agent[e.by].steer,
                         agent[e.by].drained, agent[e.by].late)
<1>1. AgentsOK /\ StoreOK(runs) /\ Orderly /\ ChainOf(runs) /\ OneEvaluation
  BY DEF RunInv, ChainInv
<1>2. PICK new : new = FollowupRun(e, routed)
  OBVIOUS
<1>3. /\ Kept /\ e \in evals /\ e.step = "post" /\ evals' = evals \ {e}
      /\ DOMAIN runs' = DOMAIN runs \cup {next} /\ next \notin DOMAIN runs
      /\ runs'[next] = new
      /\ \A q \in DOMAIN runs \ {e.run} : runs'[q] = runs[q]
      /\ runs'[e.run].targets = runs[e.run].targets
      /\ IF routed THEN AgentIs(e.by, hands) ELSE agent' = agent
  BY <1>2, FollowupSays
<1>4. /\ DOMAIN new.targets = {e.by} /\ (routed <=> Open(new.targets[e.by]))
  BY <1>2, <1>3, ChildSays
<1>5. /\ new.parent = e.run /\ e.run \in DOMAIN runs
      /\ \A q \in DOMAIN runs : runs[q].parent # e.run
      /\ runs[e.run].state = "completed_unmet" /\ runs[e.run].result = "unmet"
      /\ new.depth = runs[e.run].depth + 1 /\ new.depth <= MaxFollowups
  BY <1>1, <1>2, <1>3, FollowupHangs
<1>6. next \notin {Nobody, Foreign} /\ Nobody \notin DOMAIN runs
  BY <1>1, StoreFacts DEF Nobody, Foreign
<1>7. \A q \in DOMAIN runs : Later(runs[q], runs'[q])
  BY <1>3 DEF Kept, Grows
<1> HIDE DEF next
<1>8. Orderly'
  <2> DEFINE rs == IF routed THEN {e.by} ELSE {}
  <2>1. \A q \in DOMAIN runs : runs'[q].targets = runs[q].targets
    BY <1>3
  <2>2. \A b \in rs : Open(runs'[next].targets[b])
    BY <1>3, <1>4
  <2>3. \A b \in Agents : LET ag == agent[b] IN
           agent'[b] = IF b \in rs
                       THEN Hold(ag.routing \cup {next}, ag.queued, ag.turn, ag.absorbed,
                                 ag.steering, ag.steer, ag.drained, ag.late)
                       ELSE ag
    <3>1. CASE routed
      <4>1. agent'[e.by] = hands /\ \A b \in Agents \ {e.by} : agent'[b] = agent[b]
        BY <1>3, <3>1 DEF AgentIs
      <4> QED BY <3>1, <4>1
    <3>2. CASE ~routed
      BY <1>3, <3>2
    <3> QED BY <3>1, <3>2
  <2> HIDE DEF rs
  <2> QED BY <1>1, <1>3, <1>6, <2>1, <2>2, <2>3, RoutedOrderly
<1>9. ChainOf(runs')
  BY <1>1, <1>3, <1>5, <1>6, <1>7, ChainAdded
<1>10. OneEvaluation'
  <2>1. ASSUME NEW f \in evals \ {e}
        PROVE  f.run \in DOMAIN runs /\ f.run # e.run /\ runs'[f.run] = runs[f.run]
    <3>1. f.run \in DOMAIN runs
      BY <1>1, EvaluatedRuns
    <3>2. f.run # e.run
      BY <1>1, <1>3 DEF OneEvaluation
    <3> QED BY <1>3, <3>1, <3>2
  <2>2. \A q \in DOMAIN runs : runs'[q].parent = runs[q].parent
    BY <1>7 DEF Later
  <2> QED BY <1>1, <1>3, <1>5, <2>1, <2>2 DEF OneEvaluation
<1> QED BY <1>8, <1>9, <1>10 DEF ChainInv

LEMMA FailsChain ==
  ASSUME RunInv, ChainInv, NEW e, FollowupFails(e)
  PROVE  ChainInv'
<1>1. StoreOK(runs) /\ Orderly /\ ChainOf(runs) /\ OneEvaluation
  BY DEF RunInv, ChainInv
<1>2. /\ Kept /\ agent' = agent /\ evals' = evals \ {e}
      /\ DOMAIN runs' = DOMAIN runs /\ \A q \in DOMAIN runs \ {e.run} : runs'[q] = runs[q]
      /\ runs'[e.run].targets = runs[e.run].targets
      /\ runs'[e.run].result = runs[e.run].result /\ runs'[e.run].state = runs[e.run].state
  BY FailsSays
<1>3. Grows /\ \A q \in DOMAIN runs : runs'[q].targets = runs[q].targets
  BY <1>2 DEF Kept
<1>4. Orderly'
  BY <1>1, <1>2, <1>3, OrderlyStill
<1>5. \A f \in evals' : /\ runs'[f.run].state = runs[f.run].state
                        /\ runs'[f.run].result = runs[f.run].result
  <2>1. \A f \in evals : f.run \in DOMAIN runs
    BY <1>1, EvaluatedRuns
  <2> QED BY <1>2, <2>1
<1>6. ChainOf(runs') /\ OneEvaluation'
  BY <1>1, <1>2, <1>3, <1>5, ChainKept
<1> QED BY <1>4, <1>6 DEF ChainInv

\* A restart keeps the chains that the store had.
LEMMA RestartChain ==
  ASSUME RunInv, NEW db, StoreOK(db), ChainOf(db), DOMAIN runs \subseteq DOMAIN db,
         \A r \in DOMAIN runs : Later(runs[r], db[r]), Restart(db)
  PROVE  ChainInv'
<1>1. Orderly'
  BY RestartOrderly
<1>2. /\ evals' = {} /\ DOMAIN runs' = DOMAIN db
      /\ \A r \in DOMAIN db : Later(db[r], runs'[r])
  BY RestartSays
<1>3. ChainOf(runs')
  BY <1>2, ChainLater
<1>4. OneEvaluation'
  BY <1>2 DEF OneEvaluation
<1> QED BY <1>1, <1>3, <1>4 DEF ChainInv

\* Every step but a retry keeps the order and the chains.
LEMMA StepChain ==
  ASSUME RunInv, ChainInv, [RunNext]_runVars
  PROVE  ChainInv' \/ budget'.retried
<1>1. StoreOK(runs) /\ Orderly /\ ChainOf(runs) /\ OneEvaluation /\ Grows
  BY StepKeeps DEF RunInv, ChainInv, Kept
<1>2. ASSUME RoutingStep PROVE ChainInv' \/ budget'.retried
  <2>1. ASSUME NEW contract \in BOOLEAN, NEW targets \in SUBSET Agents, Post(contract, targets)
        PROVE  ChainInv'
    BY <2>1, PostChain
  <2>2. ASSUME NEW a \in Agents, NEW r \in DOMAIN runs,
               \E steered \in BOOLEAN : Admit(a, r, steered)
        PROVE  ChainInv'
    <3>1. Orderly'
      BY <1>1, <2>2, MovesOrderly
    <3>2. runs' = runs /\ evals' = evals
      BY <2>2 DEF Admit
    <3> QED BY <1>1, <3>1, <3>2, IdleChain DEF ChainInv
  <2>3. ASSUME NEW a \in Agents, NEW r \in DOMAIN runs,
               \E state \in {"refused", "failed"} : Refuse(a, r, state)
        PROVE  ChainInv'
    <3>1. Orderly' /\ WritesOpen(a, r)
      BY <1>1, <2>3, WritesOrderly
    <3>2. evals' = evals
      BY <2>3 DEF Refuse
    <3> QED BY <1>1, <3>1, <3>2, WritesChain DEF ChainInv
  <2>4. ASSUME NEW a \in Agents, NEW r \in DOMAIN runs, Retry(a, r)
        PROVE  budget'.retried
    BY <2>4 DEF Retry
  <2> QED BY <1>2, <2>1, <2>2, <2>3, <2>4 DEF RoutingStep
<1>3. ASSUME NEW a \in Agents, TurnStep(a) PROVE ChainInv'
  <2>1. ASSUME NEW r \in DOMAIN runs, \E batch \in SUBSET agent[a].queued : Start(a, r, batch)
        PROVE  ChainInv'
    <3>1. Orderly' /\ WritesOpen(a, r)
      BY <1>1, <2>1, WritesOrderly
    <3>2. evals' = evals
      BY <2>1 DEF Start
    <3> QED BY <1>1, <3>1, <3>2, WritesChain DEF ChainInv
  <2>2. CASE StartForeign(a)
    <3>1. Orderly'
      BY <1>1, <2>2, HolesOrderly
    <3>2. runs' = runs /\ evals' = evals
      BY <2>2 DEF StartForeign
    <3> QED BY <1>1, <3>1, <3>2, IdleChain DEF ChainInv
  <2>3. CASE \/ \E state \in {"input-required", "working"} : Approval(a, state)
             \/ \E state \in {"completed", "failed", "cancelled"}, patch \in BOOLEAN :
                  Finish(a, state, patch)
             \/ \E target \in {Cut, To("failed")} : DrainBounded(a, target)
             \/ \E r \in DOMAIN runs, state \in {"completed", "failed", "cancelled"} :
                  LateTerminal(a, r, state)
             \/ SteerAccepted(a)
    <3>1. Orderly' /\ \E ts : Unfinished(a, ts)
      BY <1>1, <2>3, SettlesOrderly
    <3>2. ChainOf(runs') /\ OneEvaluation'
      BY <1>1, <3>1, SettleChain
    <3> QED BY <3>1, <3>2 DEF ChainInv
  <2>4. ASSUME NEW r \in DOMAIN runs, Steer(a, r) \/ SteerRejected(a) \/ SteerFailed(a)
        PROVE  ChainInv'
    <3>1. Orderly'
      BY <1>1, <2>4, MovesOrderly
    <3>2. runs' = runs /\ evals' = evals
      BY <2>4 DEF Steer, SteerRejected, SteerFailed
    <3> QED BY <1>1, <3>1, <3>2, IdleChain DEF ChainInv
  <2>5. SteerRejected(a) \/ SteerFailed(a) => \E r : r \in DOMAIN runs
    <3>1. AgentsOK
      BY DEF RunInv
    <3>2. SteerRejected(a) \/ SteerFailed(a) => agent[a].steer # NoSteer
      BY DEF SteerRejected, SteerFailed
    <3>3. HoldsOwn(agent[a], Mine(a)) /\ Mine(a) \subseteq DOMAIN runs
      BY <1>1, <3>1, AgentParts
    <3>4. agent[a].steer # NoSteer => agent[a].steer.run \in DOMAIN runs
      BY <3>3, HoldFields DEF HoldsOwn
    <3> QED BY <3>2, <3>4
  <2> QED BY <1>3, <2>1, <2>2, <2>3, <2>4, <2>5 DEF TurnStep
<1>4. ASSUME HoleStep PROVE ChainInv'
  <2>1. ASSUME NEW a \in Agents, Die(a) PROVE ChainInv'
    <3>1. Orderly'
      BY <1>1, <2>1, HolesOrderly
    <3>2. runs' = runs /\ evals' = evals
      BY <2>1 DEF Die
    <3> QED BY <1>1, <3>1, <3>2, IdleChain DEF ChainInv
  <2>2. ASSUME NEW a \in Agents, NEW r \in DOMAIN runs, Drop(a, r) PROVE ChainInv'
    <3>1. Orderly'
      BY <1>1, <2>2, MovesOrderly
    <3>2. runs' = runs /\ evals' = evals
      BY <2>2 DEF Drop
    <3> QED BY <1>1, <3>1, <3>2, IdleChain DEF ChainInv
  <2>3. ASSUME Crash PROVE ChainInv'
    BY <1>1, <2>3, CrashSays, RestartChain
  <2>4. ASSUME NEW a \in Agents, NEW target \in {Cut, To("completed"), To("failed")},
               CrashEnding(a, target)
        PROVE  ChainInv'
    <3>1. PICK db : db = EndingDb(a, target)
      OBVIOUS
    <3>2. /\ StoreOK(db) /\ Restart(db) /\ DOMAIN db = DOMAIN runs
          /\ \A r \in DOMAIN runs : Later(runs[r], db[r])
      BY <2>4, <3>1, CrashEndingSays
    <3>3. ChainOf(db) /\ DOMAIN runs \subseteq DOMAIN db
      BY <1>1, <3>2, ChainLater
    <3> QED BY <3>2, <3>3, RestartChain
  <2> QED BY <1>4, <2>1, <2>2, <2>3, <2>4 DEF HoleStep
<1>5. ASSUME NEW e \in evals, ContractStep(e) PROVE ChainInv'
  <2>1. ASSUME NEW verdict \in {"met", "unmet", "unknown"}, NEW paused \in BOOLEAN,
               Evaluate(e, verdict, paused)
        PROVE  ChainInv'
    BY <2>1, EvaluateChain
  <2>2. ASSUME NEW routed \in BOOLEAN, PostFollowup(e, routed) PROVE ChainInv'
    BY <2>2, FollowupChains
  <2>3. ASSUME FollowupFails(e) PROVE ChainInv'
    BY <2>3, FailsChain
  <2>4. ASSUME CrashFollowing(e) PROVE ChainInv'
    <3>1. PICK b \in BOOLEAN : b = TRUE
      OBVIOUS
    <3>2. PICK new : new = FollowupRun(e, b)
      OBVIOUS
    <3>3. PICK db : db = Append(runs, new)
      OBVIOUS
    <3>4. PICK next : next = Len(runs) + 1
      OBVIOUS
    <3>5. /\ StoreOK(db) /\ Restart(db) /\ e \in evals /\ e.step = "post"
          /\ DOMAIN db = DOMAIN runs \cup {next} /\ next \notin DOMAIN runs
          /\ db[next] = new
          /\ \A r \in DOMAIN runs : Later(runs[r], db[r])
      BY <2>4, <3>1, <3>2, <3>3, <3>4, CrashFollowingSays
    <3>6. /\ new.parent = e.run /\ e.run \in DOMAIN runs
          /\ \A q \in DOMAIN runs : runs[q].parent # e.run
          /\ runs[e.run].state = "completed_unmet" /\ runs[e.run].result = "unmet"
          /\ new.depth = runs[e.run].depth + 1 /\ new.depth <= MaxFollowups
      BY <1>1, <3>2, <3>5, FollowupHangs
    <3>7. Nobody \notin DOMAIN runs
      BY <1>1, StoreFacts
    <3>8. ChainOf(db)
      BY <1>1, <3>5, <3>6, <3>7, ChainAdded
    <3> QED BY <3>5, <3>8, RestartChain
  <2> QED BY <1>5, <2>1, <2>2, <2>3, <2>4 DEF ContractStep
<1>6. ASSUME UNCHANGED runVars PROVE ChainInv'
  <2>1. runs' = runs /\ evals' = evals /\ agent' = agent
    BY <1>6 DEF runVars
  <2>2. Orderly'
    BY <1>1, <2>1 DEF Orderly, Mine
  <2> QED BY <1>1, <2>1, <2>2, IdleChain DEF ChainInv
<1> QED BY <1>2, <1>3, <1>4, <1>5, <1>6 DEF RunNext

\* A retry is not forgotten.
LEMMA RetriedStays ==
  ASSUME RunInv, [RunNext]_runVars, budget.retried
  PROVE  budget'.retried
<1>1. BudgetOK
  BY DEF RunInv
<1>2. Fault => budget'.retried
  BY <1>1, FaultSpent
<1>3. ASSUME RoutingStep
      PROVE  budget' = budget \/ budget'.retried
  <2>1. ASSUME NEW contract, NEW targets, Post(contract, targets)
        PROVE  budget' = budget
    BY <2>1 DEF Post
  <2>2. ASSUME NEW a, NEW r,
               \/ \E steered \in BOOLEAN : Admit(a, r, steered)
               \/ \E state \in {"refused", "failed"} : Refuse(a, r, state)
               \/ Retry(a, r)
        PROVE  budget' = budget \/ budget'.retried
    <3>1. CASE \E steered \in BOOLEAN : Admit(a, r, steered)
      BY <3>1 DEF Admit
    <3>2. CASE \E state \in {"refused", "failed"} : Refuse(a, r, state)
      BY <3>2 DEF Refuse
    <3>3. CASE Retry(a, r)
      BY <3>3 DEF Retry
    <3> QED BY <2>2, <3>1, <3>2, <3>3
  <2> QED BY <1>3, <2>1, <2>2 DEF RoutingStep
<1>4. ASSUME NEW a \in Agents, TurnStep(a)
      PROVE  budget' = budget \/ Fault
  BY <1>4 DEF TurnStep, Start, StartForeign, Approval, Finish, DrainBounded, LateTerminal,
       Steer, SteerAccepted, SteerRejected, SteerFailed
<1>5. HoleStep => Fault
  BY DEF HoleStep, Die, Drop, Crash, CrashEnding, Restart
<1>6. ASSUME NEW e \in evals, ContractStep(e)
      PROVE  budget' = budget \/ Fault
  BY <1>6 DEF ContractStep, Evaluate, PostFollowup, FollowupFails, CrashFollowing, Restart
<1>7. UNCHANGED runVars => budget' = budget
  BY DEF runVars
<1> QED BY <1>2, <1>3, <1>4, <1>5, <1>6, <1>7 DEF RunNext

\* Until a turn is retried, follow-ups form chains: each hangs below an unmet
\* run, one level deeper and within the bound, and no run has two. An agent
\* then holds a run once and while its target is open, so a run completes once,
\* is evaluated once and is followed once, crashes included.
THEOREM FollowupsChain == RunSpec => []FollowupChain
<1> DEFINE Inv == ~budget.retried => ChainInv
<1>1. RunInit => Inv
  <2>1. RunInit => ChainOf(runs) /\ OneEvaluation /\ Orderly
    BY DEF RunInit, ChainOf, OneEvaluation, Orderly, Mine
  <2> QED BY <2>1 DEF ChainInv
<1>2. RunInv /\ Inv /\ [RunNext]_runVars => Inv'
  BY StepChain, RetriedStays
<1>3. Inv => FollowupChain
  BY DEF ChainInv, ChainOf, FollowupChain
<1> QED BY <1>1, <1>2, <1>3, RunInvariant, PTL DEF RunSpec
=============================================================================
