---------------------------- MODULE MCLocalModel ----------------------------
(* Instances of LocalModel for TLC. *)
EXTENDS LocalModel, TLC

Symmetry == Permutations(Models) \cup Permutations(Services)
              \cup Permutations(Pulls) \cup Permutations(Requests)
=============================================================================
