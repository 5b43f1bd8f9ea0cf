------------------------------ MODULE MCParts ------------------------------
(* Parts of the hub that share no state, each explored by itself: `focus`  *)
(* says which one moves, and the others stay at their start.               *)
EXTENDS TerminalStream, AsyncRuns, HubLock, NodeLink, ReadState

VARIABLE focus

PartsInit ==
  /\ focus \in {"terminal", "runs", "lock", "link", "read"}
  /\ TerminalInit /\ RunInit /\ LockInit /\ NodeLinkInit /\ ReadInit

PartsNext ==
  /\ \/ focus = "terminal" /\ TerminalNext
        /\ UNCHANGED <<runVars, lockVars, nodeLinkVars, readStateVars>>
     \/ focus = "runs" /\ RunNext
        /\ UNCHANGED <<terminalVars, lockVars, nodeLinkVars, readStateVars>>
     \/ focus = "lock" /\ LockNext
        /\ UNCHANGED <<terminalVars, runVars, nodeLinkVars, readStateVars>>
     \/ focus = "link" /\ NodeLinkNext
        /\ UNCHANGED <<terminalVars, runVars, lockVars, readStateVars>>
     \/ focus = "read" /\ ReadNext
        /\ UNCHANGED <<terminalVars, runVars, lockVars, nodeLinkVars>>
  /\ UNCHANGED focus

\* Exploration bound: a third run when all are for agents that take steers.
RunsExplored ==
  Len(runs) > 2 => \A r \in DOMAIN runs : DOMAIN runs[r].targets \subseteq Steerable

\* What the hub's filter keeps of frames that lie end to end is what
\* FramesAfter keeps.
ASSUME FilterKeepsSuffix ==
  \A ends \in [1..3 -> 1..4], n \in 0..3, from \in 0..4 :
    LET frames == [i \in 1..n |-> Chunk(IF i = 1 THEN 0 ELSE ends[i - 1], ends[i])]
        filtered == SelectSeq(frames, LAMBDA f : f.cursor > from)
    IN (\A i \in 2..3 : ends[i - 1] < ends[i]) =>
         FramesAfter(frames, from) =
           [i \in DOMAIN filtered |-> Chunk(Max2(filtered[i].from, from), filtered[i].cursor)]

PartsSpec ==
  PartsInit /\ [][PartsNext]_<<focus, terminalVars, runVars, lockVars, nodeLinkVars,
                              readStateVars>>
=============================================================================
