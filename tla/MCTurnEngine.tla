---------------------------- MODULE MCTurnEngine ----------------------------
(* TurnEngine on a few messages.                                           *)
EXTENDS TurnEngine

\* Two messages with all the disturbances, and with a retry or a delivery
\* contract; three of which at most one does not coalesce, with all the
\* disturbances; four that coalesce without a disturbance, or with one while
\* nothing is steered, no approval is asked and no packet is cut.
Explored ==
  LET posted == Range(log)
      singles == {m \in DOMAIN log : log[m] = "single"}
      quiet == b.steers = {} /\ b.steerQ = <<>> /\ b.approvals = {} /\ cut = {}
  IN /\ "contract" \in posted => Len(log) < MaxPosts - 1 /\ redone = {}
     /\ Len(log) >= MaxPosts - 1 => redone = {} /\ Cardinality(singles) <= 1
     /\ Len(log) = MaxPosts => singles = {} /\ (faults = 0 \/ (faults < MaxFaults /\ quiet))
=============================================================================
