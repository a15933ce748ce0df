--------------------------- MODULE MCPublishFlow ---------------------------
(* Instances of PublishFlow for TLC. *)
EXTENDS PublishFlow, TLC

CONSTANTS s1, s2, a1, a2

\* Every API belongs to the only service.
OneOwner == [a \in Apis |-> s1]

\* One API each for two services.
TwoOwners == (a1 :> s1) @@ (a2 :> s2)

Symmetry == Permutations(Releases) \cup Permutations(Flows)
              \cup Permutations(Clusters) \cup Permutations(Handlers)
=============================================================================
