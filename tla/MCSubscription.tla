--------------------------- MODULE MCSubscription ---------------------------
(* Instances of Subscription for TLC. *)
EXTENDS Subscription, TLC

\* Applications, clusters, uuids and requests are interchangeable.
Symmetry == Permutations(Apps) \cup Permutations(Clusters) \cup Permutations(Applies) \cup Permutations(Requests)
=============================================================================
