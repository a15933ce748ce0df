--------------------------- MODULE MCPullExecutor ---------------------------
(* Instances of PullExecutor for TLC. *)
EXTENDS PullExecutor, TLC

Symmetry == Permutations(Models) \cup Permutations(Sessions) \cup Permutations(Pulls)
=============================================================================
