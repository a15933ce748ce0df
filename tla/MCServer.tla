------------------------------ MODULE MCServer ------------------------------
(***************************************************************************)
(* Instances for TLC of modules about the server's tables and what the      *)
(* gateway and the documents have of them.  As in MCConsole a behaviour is  *)
(* one of the modules: it has the variables of its name, the others are     *)
(* None, and the states are those of each of them, not of their product.    *)
(***************************************************************************)
EXTENDS Naturals, FiniteSets

CONSTANTS
  None,
  Service, Releases, Flows, Apis, Clusters,  \* publishing
  Strategies, Contents, MaxSeconds,          \* strategies
  Cats,                                      \* categories
  Entries, Local, MaxNumber,                 \* the fallback list
  Ids, Paths,                                \* routes of AI services
  Messages, Keys, KeyOf, MaxAttempts,        \* calls whose tokens are counted
  Single, Pair, Trio                         \* one, two and three requests at once

\* What each module needs of its constants, for the proofs in ServerProofs.
PublishConstants ==
  /\ None \notin {Service} \cup Releases \cup Flows
  /\ IsFiniteSet(Clusters)
  /\ \A q, r \in Single : q = r
MaskConstants    == None \notin Contents /\ MaxSeconds \in Nat
PlantConstants   == "root" \notin Cats /\ "gone" \notin Cats
BalanceConstants == IsFiniteSet(Entries) /\ MaxNumber \in Nat
RouteConstants   == None \notin Paths
CountConstants   ==
  /\ IsFiniteSet(Messages) /\ MaxAttempts \in Nat
  /\ KeyOf \in [Messages -> Keys]
  /\ None \notin Messages /\ None \notin Keys /\ None \notin Nat

ASSUME ConstantsAssumption ==
  /\ PublishConstants /\ MaskConstants /\ PlantConstants
  /\ BalanceConstants /\ RouteConstants /\ CountConstants

VARIABLES
  part,  \* which module the behaviour is of
  gateway, latest, rq, rows, used,                  \* of several modules
  release, commits, minted, flow, publishStatus,    \* PublishFlow
  running, pc, req, accepted, unsaid,
  row, now, hazy,                                   \* Strategy
  astray,                                           \* Catalogue
  missed, skewed, wanted,                           \* Balance
  claim, route, info, doc, upset,                   \* AiApi
  total, message, handler, edit, passed, torn       \* TokenCount

Publishing == INSTANCE PublishFlow WITH
  Services <- {Service}, ApiOwner <- [a \in Apis |-> Service], Handlers <- Single
Masking    == INSTANCE Strategy WITH Requests <- Pair
Planting   == INSTANCE Catalogue WITH Requests <- Trio
Balancing  == INSTANCE Balance WITH Requests <- Pair
Routing    == INSTANCE AiApi WITH Requests <- Pair
Counting   == INSTANCE TokenCount

-----------------------------------------------------------------------------
\* The variables of one module only.
publishing == <<release, commits, minted, flow, publishStatus, running, pc, req, accepted, unsaid>>
masking    == <<row, now, hazy>>
balancing  == <<missed, skewed, wanted>>
routing    == <<claim, route, info, doc, upset>>
counting   == <<total, message, handler, edit, passed, torn>>

vars == <<gateway, latest, rq, rows, used, astray,
          publishing, masking, balancing, routing, counting>>

NoPublishing ==
  /\ release = None /\ commits = None /\ minted = None /\ flow = None /\ publishStatus = None
  /\ running = None /\ pc = None /\ req = None /\ accepted = None /\ unsaid = None
NoMasking   == row = None /\ now = None /\ hazy = None
NoBalancing == missed = None /\ skewed = None /\ wanted = None
NoRouting   == claim = None /\ route = None /\ info = None /\ doc = None /\ upset = None
NoCounting  ==
  total = None /\ message = None /\ handler = None /\ edit = None /\ passed = None /\ torn = None

Init ==
  \/ /\ part = "publish" /\ Publishing!Init
     /\ rq = None /\ rows = None /\ used = None /\ astray = None
     /\ NoMasking /\ NoBalancing /\ NoRouting /\ NoCounting
  \/ /\ part = "mask" /\ Masking!Init
     /\ rows = None /\ astray = None
     /\ NoPublishing /\ NoBalancing /\ NoRouting /\ NoCounting
  \/ /\ part = "plant" /\ Planting!Init
     /\ gateway = None /\ latest = None /\ used = None
     /\ NoPublishing /\ NoMasking /\ NoBalancing /\ NoRouting /\ NoCounting
  \/ /\ part = "balance" /\ Balancing!Init
     /\ latest = None /\ used = None /\ astray = None
     /\ NoPublishing /\ NoMasking /\ NoRouting /\ NoCounting
  \/ /\ part = "route" /\ Routing!Init
     /\ gateway = None /\ latest = None /\ rows = None /\ used = None /\ astray = None
     /\ NoPublishing /\ NoMasking /\ NoBalancing /\ NoCounting
  \/ /\ part = "count" /\ Counting!Init
     /\ gateway = None /\ latest = None /\ rq = None /\ rows = None /\ astray = None
     /\ NoPublishing /\ NoMasking /\ NoBalancing /\ NoRouting

Next ==
  /\ \/ /\ part = "publish" /\ Publishing!NextReliable
        /\ UNCHANGED <<rq, rows, used, astray, masking, balancing, routing, counting>>
     \/ /\ part = "mask" /\ Masking!Next
        /\ UNCHANGED <<rows, astray, publishing, balancing, routing, counting>>
     \/ /\ part = "plant" /\ Planting!Next
        /\ UNCHANGED <<gateway, latest, used, publishing, masking, balancing, routing, counting>>
     \/ /\ part = "balance" /\ Balancing!Next
        /\ UNCHANGED <<latest, used, astray, publishing, masking, routing, counting>>
     \/ /\ part = "route" /\ Routing!Next
        /\ UNCHANGED <<gateway, latest, rows, used, astray,
                       publishing, masking, balancing, counting>>
     \/ /\ part = "count" /\ Counting!Next
        /\ UNCHANGED <<gateway, latest, rq, rows, astray,
                       publishing, masking, balancing, routing>>
  /\ UNCHANGED part

Spec == Init /\ [][Next]_<<part, vars>>

-----------------------------------------------------------------------------
\* The invariants of the modules, each where it says what is said of the states of
\* its module.
GatewayMatchesRunning == part = "publish" => Publishing!GatewayMatchesRunning
StatusHonest          == part = "mask"    => Masking!StatusHonest
CategoriesStay        == part = "plant"   => Planting!CategoriesStay
BalanceKept           == part = "balance" => Balancing!BalanceKept
DocMatches            == part = "route"   => Routing!DocMatches
CallsCounted          == part = "count"   => Counting!CallsCounted

\* For the .cfg: every call is answered by one key.
OneKey == [m \in Messages |-> CHOOSE k \in Keys : TRUE]
=============================================================================
