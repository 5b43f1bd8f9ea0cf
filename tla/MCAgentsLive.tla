---------------------------- MODULE MCAgentsLive ----------------------------
(* What must happen eventually to agents, on few delegations or on few     *)
(* messages: `focus` says which, and the other part stays at its start.    *)
EXTENDS CompletionCallbacks, TurnEngine

VARIABLE focus

LiveInit == focus \in {"callbacks", "turns"} /\ Init /\ TurnInit

LiveNext ==
  /\ \/ focus = "callbacks" /\ Next /\ UNCHANGED turnVars
     \/ focus = "turns" /\ TurnNext /\ UNCHANGED vars
  /\ UNCHANGED focus

\* Nothing that is fair is enabled in the part that stays at its start.
LiveSpec ==
  /\ LiveInit /\ [][LiveNext]_<<focus, vars, turnVars>>
  /\ TurnFairness
  /\ \A e \in Edges : Progress(e)
=============================================================================
