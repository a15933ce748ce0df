--------------------------- MODULE MCKeyPriority ---------------------------
(* Instances of KeyPriority for TLC. *)
EXTENDS KeyPage, TLC

\* The ids of keys but the default one are interchangeable.
Symmetry == Permutations(Keys \ {Default})

\* Bound: what the rows become after numbers were mixed up is not followed, nor a
\* request that is held while the gateway has missed a change, or while all of three
\* keys were there when it read and are there still.
Followed ==
  /\ ~ skewed
  /\ \A r \in Requests : seen[r] # None =>
       missed = {} /\ Cardinality(StoredIn(seen[r])) + Cardinality(Stored) < 6
=============================================================================
