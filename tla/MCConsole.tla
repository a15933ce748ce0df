----------------------------- MODULE MCConsole ------------------------------
(***************************************************************************)
(* Instances for TLC of the modules about the console's pages.  The pages   *)
(* have nothing to do with each other, so that one run takes them one at a  *)
(* time: a behaviour is one of the modules, which has all of v, and the     *)
(* states are those of each of them, not of their product.                  *)
(***************************************************************************)
EXTENDS Naturals

CONSTANTS
  None,
  Service, Releases, Flows, Apis, Clusters, Handlers,  \* publish page
  Apps, Applies,                                       \* subscription pages
  Urls, Clients,                                       \* MCP inspector
  Users, Teams, Requests                               \* rights

VARIABLES
  part,  \* which module the behaviour is of
  v1, v2, v3, v4, v5, v6, v7, v8, v9, v10, v11, v12, v13

vars == <<v1, v2, v3, v4, v5, v6, v7, v8, v9, v10, v11, v12, v13>>

Publishing == INSTANCE PublishFlowProofs WITH
  Services <- {Service}, Visited <- Service, ApiOwner <- [a \in Apis |-> Service],
  release <- v1, commits <- v2, minted <- v3, flow <- v4, latest <- v5, publishStatus <- v6,
  running <- v7, gateway <- v8, pc <- v9, req <- v10, accepted <- v11, unsaid <- v13, shown <- v12

\* The gateway, which the run of Subscription is about, is left out: there are no clusters,
\* and telling and gateway are the same empty function.  Two users are taken
\* without losses, and one with them.
Subscribing == INSTANCE SubscriptionProofs WITH
  Clusters <- {}, MaxRows <- 1, MaxUsers <- 2, Lists <- {1}, Calm <- TRUE,
  Requests <- {"portal", "consumer", "provider", "pass", "refuse"},
  sub <- v1, rows <- v2, apply <- v3, auto <- v4, gateway <- v5, telling <- v5, rq <- v6, unsure <- v7,
  open <- v8, shown <- v9, dialog <- v10, sent <- v11, asked <- v12, outdated <- v13

Losing == INSTANCE SubscriptionProofs WITH
  Clusters <- {}, MaxRows <- 2, MaxUsers <- 1, Lists <- {1, 2}, Calm <- FALSE,
  Requests <- {"portal", "consumer", "provider", "pass", "refuse"},
  sub <- v1, rows <- v2, apply <- v3, auto <- v4, gateway <- v5, telling <- v5, rq <- v6, unsure <- v7,
  open <- v8, shown <- v9, dialog <- v10, sent <- v11, asked <- v12, outdated <- v13

\* What the pages of PagesProofs have: the market a service of each of two categories, one
\* above the other, and one of a category that is no more.
Waiting  == {"q1", "q2"}
Local    == "local"
MaxAsked == 3
Services == {[category |-> "c",    tags |-> {},    words |-> {"x"}],
             [category |-> "d",    tags |-> {"t"}, words |-> {}],
             [category |-> "gone", tags |-> {},    words |-> {"x"}]}
Parent   == [c |-> "none", d |-> "c", e |-> "c"]
Tags     == {"t"}
Words    == {"", "x"}
MaxTyped == 1

\* The models of two providers and of the server's own, and of one that has none.
Many == [p1 |-> "p", p2 |-> "p", q1 |-> "q", l1 |-> "local"]
Few  == [p1 |-> "p", l1 |-> "local"]

\* The pages, with the models of a route and of the fallback list; the first is the page on
\* which categories are dragged, the second one that shares them with another.  The editor
\* of a strategy is taken with attributes whose values come from the server, with one of
\* them and one whose values are typed, with one whose values are fixed, and with rules.
Route == INSTANCE PagesProofs WITH
  Cats <- {"c1", "c2"}, Calm <- TRUE,
  Providers <- {"p", "q"}, Owner <- Many, Models <- DOMAIN Many, Balancing <- FALSE,
  Remotes <- {"app", "api"}, Statics <- {}, Patterns <- {}, Items <- {1},
  RuleContents <- {}, MaxRules <- 0, MaxReads <- 2, MaxLines <- 2,
  url <- v1, status <- v2, mcpClient <- v3, conn <- v4, listing <- v5, tools <- v6, failed <- v7,
  overlapped <- v8, user <- v1, page <- v2, system <- v3, strayed <- v4, flushed <- v5, menu <- v6,
  team <- v7, rq <- v8, carried <- v9, rows <- v1, dialog <- v2, astray <- v3, gData <- v4,
  cateData <- v5, back <- v6, loading <- v7, excused <- v9, asked <- v1, llm <- v3,
  option <- v2, shown <- v3, typed <- v4, touched <- v5, late <- v6,
  stored <- v3, filters <- v4, rules <- v5, ready <- v6, open <- v7, form <- v8, kept <- v9,
  settled <- v10, row <- v1, task <- v4, reached <- v5, stream <- v6, wire <- v7, buffer <- v8,
  sent <- v9, handled <- v10, record <- v11, silent <- v12

Balance == INSTANCE PagesProofs WITH
  Cats <- {"c1"}, Calm <- FALSE,
  Providers <- {"p", "q"}, Owner <- Many, Models <- DOMAIN Many, Balancing <- TRUE,
  Remotes <- {"app"}, Statics <- {}, Patterns <- {"ip"}, Items <- {1, 2},
  RuleContents <- {}, MaxRules <- 0, MaxReads <- 1, MaxLines <- 0,
  url <- v1, status <- v2, mcpClient <- v3, conn <- v4, listing <- v5, tools <- v6, failed <- v7,
  overlapped <- v8, user <- v1, page <- v2, system <- v3, strayed <- v4, flushed <- v5, menu <- v6,
  team <- v7, rq <- v8, carried <- v9, rows <- v1, dialog <- v2, astray <- v3, gData <- v4,
  cateData <- v5, back <- v6, loading <- v7, excused <- v9, asked <- v1, llm <- v3,
  option <- v2, shown <- v3, typed <- v4, touched <- v5, late <- v6,
  stored <- v3, filters <- v4, rules <- v5, ready <- v6, open <- v7, form <- v8, kept <- v9,
  settled <- v10, row <- v1, task <- v4, reached <- v5, stream <- v6, wire <- v7, buffer <- v8,
  sent <- v9, handled <- v10, record <- v11, silent <- v12

ScarceRoute == INSTANCE PagesProofs WITH
  Cats <- {"c1"}, Calm <- TRUE,
  Providers <- {"p", "none"}, Owner <- Few, Models <- DOMAIN Few, Balancing <- FALSE,
  Remotes <- {}, Statics <- {"method"}, Patterns <- {"path"}, Items <- {1, 2},
  RuleContents <- {}, MaxRules <- 0, MaxReads <- 0, MaxLines <- 0,
  url <- v1, status <- v2, mcpClient <- v3, conn <- v4, listing <- v5, tools <- v6, failed <- v7,
  overlapped <- v8, user <- v1, page <- v2, system <- v3, strayed <- v4, flushed <- v5, menu <- v6,
  team <- v7, rq <- v8, carried <- v9, rows <- v1, dialog <- v2, astray <- v3, gData <- v4,
  cateData <- v5, back <- v6, loading <- v7, excused <- v9, asked <- v1, llm <- v3,
  option <- v2, shown <- v3, typed <- v4, touched <- v5, late <- v6,
  stored <- v3, filters <- v4, rules <- v5, ready <- v6, open <- v7, form <- v8, kept <- v9,
  settled <- v10, row <- v1, task <- v4, reached <- v5, stream <- v6, wire <- v7, buffer <- v8,
  sent <- v9, handled <- v10, record <- v11, silent <- v12

ScarceBalance == INSTANCE PagesProofs WITH
  Cats <- {"c1"}, Calm <- TRUE,
  Providers <- {"p", "none"}, Owner <- Few, Models <- DOMAIN Few, Balancing <- TRUE,
  Remotes <- {}, Statics <- {}, Patterns <- {}, Items <- {},
  RuleContents <- {"phone", "date"}, MaxRules <- 2, MaxReads <- 0, MaxLines <- 0,
  url <- v1, status <- v2, mcpClient <- v3, conn <- v4, listing <- v5, tools <- v6, failed <- v7,
  overlapped <- v8, user <- v1, page <- v2, system <- v3, strayed <- v4, flushed <- v5, menu <- v6,
  team <- v7, rq <- v8, carried <- v9, rows <- v1, dialog <- v2, astray <- v3, gData <- v4,
  cateData <- v5, back <- v6, loading <- v7, excused <- v9, asked <- v1, llm <- v3,
  option <- v2, shown <- v3, typed <- v4, touched <- v5, late <- v6,
  stored <- v3, filters <- v4, rules <- v5, ready <- v6, open <- v7, form <- v8, kept <- v9,
  settled <- v10, row <- v1, task <- v4, reached <- v5, stream <- v6, wire <- v7, buffer <- v8,
  sent <- v9, handled <- v10, record <- v11, silent <- v12

\* What the proofs need of the constants.
ASSUME ConstantsAssumption ==
  /\ None \notin {Service} \cup Releases \cup Flows /\ Publishing!IsFiniteSet(Clusters)
  /\ None \notin Apps \cup Applies
  /\ None \notin Clients /\ None \notin Teams
  /\ Route!ChoiceConstants /\ Balance!ChoiceConstants
  /\ ScarceRoute!ChoiceConstants /\ ScarceBalance!ChoiceConstants
  /\ Route!EditorConstants /\ Balance!EditorConstants
  /\ ScarceRoute!EditorConstants /\ ScarceBalance!EditorConstants

-----------------------------------------------------------------------------
\* The variables a module does not have.
After4  == <<v5, v6, v7, v8, v9, v10, v11, v12, v13>>
After6  == <<v7, v8, v9, v10, v11, v12, v13>>
After8  == <<v9, v10, v11, v12, v13>>
After9  == <<v10, v11, v12, v13>>
After10 == <<v11, v12, v13>>
Blank3  == v11 = None /\ v12 = None /\ v13 = None
Blank4  == v10 = None /\ Blank3
Blank7  == v7 = None /\ v8 = None /\ v9 = None /\ Blank4
Blank9  == v5 = None /\ v6 = None /\ Blank7

Init ==
  \/ part = "publish"   /\ Publishing!PageInit
  \/ part = "subscribe" /\ Subscribing!PageInit
  \/ part = "lose"      /\ Losing!PageInit
  \/ part = "deploy"    /\ Route!Deploy!Init /\ v13 = None
  \/ part = "inspect"   /\ Route!Mcp!Init /\ v9 = None /\ Blank4
  \/ part = "access"    /\ Route!Access!Init /\ Blank4
  \/ part = "drag"      /\ Route!Drag!PageInit /\ Blank4
  \/ part = "share"     /\ Balance!Drag!PageInit /\ Blank4
  \/ part = "market"    /\ Route!Browse!Init /\ Blank7
  \/ part = "remote"    /\ Route!Editor!Init /\ Blank3
  \/ part = "typed"     /\ Balance!Editor!Init /\ Blank3
  \/ part = "fixed"     /\ ScarceRoute!Editor!Init /\ Blank3
  \/ part = "rules"     /\ ScarceBalance!Editor!Init /\ Blank3
  \/ part = "route"     /\ Route!Choice!Init /\ Blank9
  \/ part = "balance"   /\ Balance!Choice!Init /\ Blank9
  \/ part = "scarce"    /\ ScarceRoute!Choice!Init /\ Blank9
  \/ part = "shortage"  /\ ScarceBalance!Choice!Init /\ Blank9

Next ==
  /\ \/ part = "publish"   /\ Publishing!PageNext
     \/ part = "subscribe" /\ Subscribing!PageNext
     \/ part = "lose"      /\ Losing!PageNext
     \/ part = "deploy"    /\ Route!Deploy!Next /\ UNCHANGED v13
     \/ part = "inspect"   /\ Route!Mcp!Next /\ UNCHANGED After8
     \/ part = "access"    /\ Route!Access!Next /\ UNCHANGED After9
     \/ part = "drag"      /\ Route!Drag!PageNext /\ UNCHANGED After9
     \/ part = "share"     /\ Balance!Drag!PageNext /\ UNCHANGED After9
     \/ part = "market"    /\ Route!Browse!Next /\ UNCHANGED After6
     \/ part = "remote"    /\ Route!Editor!Next /\ UNCHANGED After10
     \/ part = "typed"     /\ Balance!Editor!Next /\ UNCHANGED After10
     \/ part = "fixed"     /\ ScarceRoute!Editor!Next /\ UNCHANGED After10
     \/ part = "rules"     /\ ScarceBalance!Editor!Next /\ UNCHANGED After10
     \/ part = "route"     /\ Route!Choice!Next /\ UNCHANGED After4
     \/ part = "balance"   /\ Balance!Choice!Next /\ UNCHANGED After4
     \/ part = "scarce"    /\ ScarceRoute!Choice!Next /\ UNCHANGED After4
     \/ part = "shortage"  /\ ScarceBalance!Choice!Next /\ UNCHANGED After4
  /\ UNCHANGED part

Spec == Init /\ [][Next]_<<part, vars>>

-----------------------------------------------------------------------------
\* The invariants of the modules, each where it says what is said of the states of
\* its module.
OfferedIsServed   == part = "publish"   => Publishing!OfferedIsServed
BlockedHasWayOut  == part = "publish"   => Publishing!BlockedHasWayOut
ListKeepsUp       ==
  /\ part = "subscribe" => Subscribing!ListKeepsUp
  /\ part = "lose"      => Losing!ListKeepsUp
NoDialogHangs     ==
  /\ part = "subscribe" => Subscribing!NoDialogHangs
  /\ part = "lose"      => Losing!NoDialogHangs
LinesInOrder      == part = "deploy"    => Route!Deploy!LinesInOrder
FollowsDeployment == part = "deploy"    => Route!Deploy!FollowsDeployment
OneConnection     == part = "inspect"   => Route!Mcp!OneConnection
OwnRights         == part = "access"    => Route!Access!OwnRights
FiltersFit        ==
  /\ part = "remote" => Route!Editor!FiltersFit
  /\ part = "typed"  => Balance!Editor!FiltersFit
  /\ part = "fixed"  => ScarceRoute!Editor!FiltersFit
  /\ part = "rules"  => ScarceBalance!Editor!FiltersFit
UntouchedStay     ==
  /\ part = "remote" => Route!Editor!UntouchedStay
  /\ part = "typed"  => Balance!Editor!UntouchedStay
  /\ part = "fixed"  => ScarceRoute!Editor!UntouchedStay
  /\ part = "rules"  => ScarceBalance!Editor!UntouchedStay
PageFollows       ==
  /\ part = "drag"  => Route!Drag!PageFollows
  /\ part = "share" => Balance!Drag!PageFollows
ChoiceFits        ==
  /\ part = "route"    => Route!Choice!ChoiceFits
  /\ part = "balance"  => Balance!Choice!ChoiceFits
  /\ part = "scarce"   => ScarceRoute!Choice!ChoiceFits
  /\ part = "shortage" => ScarceBalance!Choice!ChoiceFits
ListFits          == part = "market"    => Route!Browse!ListFits
=============================================================================
