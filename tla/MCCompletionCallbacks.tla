----------------------- MODULE MCCompletionCallbacks -----------------------
(* CompletionCallbacks on a few edges, interchangeable but for their use.  *)
EXTENDS CompletionCallbacks, TLC

Symmetry == Permutations(Edges)
=============================================================================
