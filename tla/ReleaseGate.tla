---------------------------- MODULE ReleaseGate ----------------------------
(***************************************************************************)
(* What the publish workflow promises whoever calls a published service:   *)
(* a release goes live only once it has been approved, it goes live on a   *)
(* cluster as a whole and in one step, and the record of what a service    *)
(* runs only ever names an approved release.  PublishFlow implements it.   *)
(***************************************************************************)
CONSTANTS Services, Apis, Clusters, Releases, None

VARIABLES
  approved,  \* the releases a reviewer has approved
  serving,   \* per cluster, the project and version of each API's router
  recorded   \* the release each service is recorded to run

vars == <<approved, serving, recorded>>

Off == [project |-> None, version |-> None]

Init ==
  /\ approved = {}
  /\ serving = [c \in Clusters |-> [a \in Apis |-> Off]]
  /\ recorded = [s \in Services |-> None]

Approve(r) ==
  /\ approved' = approved \cup {r}
  /\ UNCHANGED <<serving, recorded>>

\* The routers of s on c become those of A at release r, all at once; no other
\* service loses a router except to A.
Deploy(c, s, r, A) ==
  /\ r \in approved
  /\ serving' = [serving EXCEPT ![c] =
       [a \in Apis |-> IF a \in A THEN [project |-> s, version |-> r]
                       ELSE IF serving[c][a].project = s THEN Off
                       ELSE serving[c][a]]]
  /\ UNCHANGED <<approved, recorded>>

Record(s, r) ==
  /\ r \in approved
  /\ recorded' = [recorded EXCEPT ![s] = r]
  /\ UNCHANGED <<approved, serving>>

Next ==
  \/ \E r \in Releases : Approve(r)
  \/ \E c \in Clusters, s \in Services, r \in Releases, A \in SUBSET Apis : Deploy(c, s, r, A)
  \/ \E s \in Services, r \in Releases : Record(s, r)

Spec == Init /\ [][Next]_vars
=============================================================================
