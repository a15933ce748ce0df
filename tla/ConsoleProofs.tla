---------------------------- MODULE ConsoleProofs -----------------------------
(* What PublishFlowProofs, SubscriptionProofs and PagesProofs prove of      *)
(* pages of the console, said of MCConsole.                                 *)
EXTENDS MCConsole, TLAPS

LEMMA PartInit ==
  ASSUME Init
  PROVE  /\ part = "publish" => Publishing!PageInit
         /\ part = "subscribe" => Subscribing!PageInit
         /\ part = "lose" => Losing!PageInit
         /\ part = "deploy" => Route!Deploy!Init
         /\ part = "inspect" => Route!Mcp!Init
         /\ part = "access" => Route!Access!Init
         /\ part = "drag" => Route!Drag!PageInit
         /\ part = "share" => Balance!Drag!PageInit
         /\ part = "market" => Route!Browse!Init
         /\ part = "remote" => Route!Editor!Init
         /\ part = "typed" => Balance!Editor!Init
         /\ part = "fixed" => ScarceRoute!Editor!Init
         /\ part = "rules" => ScarceBalance!Editor!Init
         /\ part = "route" => Route!Choice!Init
         /\ part = "balance" => Balance!Choice!Init
         /\ part = "scarce" => ScarceRoute!Choice!Init
         /\ part = "shortage" => ScarceBalance!Choice!Init
BY DEF Init

LEMMA PartNext ==
  ASSUME [Next]_<<part, vars>>
  PROVE  /\ part' = part
         /\ part = "publish" => [Publishing!PageNext]_(Publishing!pageVars)
         /\ part = "subscribe" => [Subscribing!PageNext]_(Subscribing!pageVars)
         /\ part = "lose" => [Losing!PageNext]_(Losing!pageVars)
         /\ part = "deploy" => [Route!Deploy!Next]_(Route!Deploy!vars)
         /\ part = "inspect" => [Route!Mcp!Next]_(Route!Mcp!vars)
         /\ part = "access" => [Route!Access!Next]_(Route!Access!vars)
         /\ part = "drag" => [Route!Drag!PageNext]_(Route!Drag!vars)
         /\ part = "share" => [Balance!Drag!PageNext]_(Balance!Drag!vars)
         /\ part = "market" => [Route!Browse!Next]_(Route!Browse!vars)
         /\ part = "remote" => [Route!Editor!Next]_(Route!Editor!vars)
         /\ part = "typed" => [Balance!Editor!Next]_(Balance!Editor!vars)
         /\ part = "fixed" => [ScarceRoute!Editor!Next]_(ScarceRoute!Editor!vars)
         /\ part = "rules" => [ScarceBalance!Editor!Next]_(ScarceBalance!Editor!vars)
         /\ part = "route" => [Route!Choice!Next]_(Route!Choice!vars)
         /\ part = "balance" => [Balance!Choice!Next]_(Balance!Choice!vars)
         /\ part = "scarce" => [ScarceRoute!Choice!Next]_(ScarceRoute!Choice!vars)
         /\ part = "shortage" => [ScarceBalance!Choice!Next]_(ScarceBalance!Choice!vars)
<1>1. CASE Next BY <1>1 DEF Next
<1>2. CASE UNCHANGED <<part, vars>>
  <2>1. UNCHANGED <<part, v1, v2, v3, v4, v5, v6, v7, v8, v9, v10, v11, v12, v13>>
    BY <1>2 DEF vars
  <2>11. UNCHANGED Publishing!pageVars
    BY <2>1 DEF Publishing!pageVars, Publishing!vars, Publishing!store
  <2>12. UNCHANGED Subscribing!pageVars
    BY <2>1 DEF Subscribing!pageVars, Subscribing!vars, Subscribing!pages
  <2>18. UNCHANGED Losing!pageVars
    BY <2>1 DEF Losing!pageVars, Losing!vars, Losing!pages
  <2>2. UNCHANGED Route!Mcp!vars BY <2>1 DEF Route!Mcp!vars
  <2>3. UNCHANGED Route!Access!vars BY <2>1 DEF Route!Access!vars
  <2>4. UNCHANGED Route!Drag!vars
    BY <2>1 DEF Route!Drag!vars, Route!Drag!catVars, Route!Drag!page
  <2>5. UNCHANGED Balance!Drag!vars
    BY <2>1 DEF Balance!Drag!vars, Balance!Drag!catVars, Balance!Drag!page
  <2>6. UNCHANGED Route!Browse!vars BY <2>1 DEF Route!Browse!vars
  <2>7. UNCHANGED Route!Choice!vars BY <2>1 DEF Route!Choice!vars
  <2>8. UNCHANGED Balance!Choice!vars BY <2>1 DEF Balance!Choice!vars
  <2>9. UNCHANGED ScarceRoute!Choice!vars BY <2>1 DEF ScarceRoute!Choice!vars
  <2>10. UNCHANGED ScarceBalance!Choice!vars BY <2>1 DEF ScarceBalance!Choice!vars
  <2>13. UNCHANGED Route!Editor!vars BY <2>1 DEF Route!Editor!vars
  <2>14. UNCHANGED Balance!Editor!vars BY <2>1 DEF Balance!Editor!vars
  <2>15. UNCHANGED ScarceRoute!Editor!vars BY <2>1 DEF ScarceRoute!Editor!vars
  <2>16. UNCHANGED ScarceBalance!Editor!vars BY <2>1 DEF ScarceBalance!Editor!vars
  <2>17. UNCHANGED Route!Deploy!vars
    BY <2>1 DEF Route!Deploy!vars, Route!Deploy!server, Route!Deploy!reader, Route!Deploy!screen
  <2> QED BY <2>1, <2>2, <2>3, <2>4, <2>5, <2>6, <2>7, <2>8, <2>9, <2>10, <2>11, <2>12, <2>13,
             <2>14, <2>15, <2>16, <2>17, <2>18
<1> QED BY <1>1, <1>2

\* The services, the APIs' owners and the absent values of the two instances are what
\* their modules assume.
LEMMA PublishHere ==
  /\ [a \in Apis |-> Service] \in [Apis -> {Service}]
  /\ None \notin {Service} \cup Releases \cup Flows
  /\ Publishing!IsFiniteSet(Clusters)
  /\ Service \in {Service}
BY ConstantsAssumption

LEMMA SubscribeHere ==
  /\ None \notin Apps \cup Applies
  /\ 1 \in Nat /\ 2 \in Nat
  /\ Subscribing!Slots \subseteq {"portal", "consumer", "provider", "pass", "refuse"}
  /\ Losing!Slots \subseteq {"portal", "consumer", "provider", "pass", "refuse"}
BY ConstantsAssumption DEF Subscribing!Slots, Losing!Slots

\* OfferedIsServed: what the list of releases offers is not refused.
THEOREM OffersKept == Spec => []OfferedIsServed
<1> DEFINE Here == part = "publish"
<1>1. Init => (Here => Publishing!PageInit) BY PartInit
<1>2. [Next]_<<part, vars>> => (Here' <=> Here) /\ (Here => [Publishing!PageNext]_(Publishing!pageVars))
  BY PartNext
<1>3. Publishing!PageSpec => []Publishing!OfferedIsServed BY Publishing!OfferedServed, PublishHere
<1>4. Here /\ Publishing!OfferedIsServed => OfferedIsServed BY DEF OfferedIsServed
<1>5. ~Here => OfferedIsServed BY DEF OfferedIsServed
<1> QED BY <1>1, <1>2, <1>3, <1>4, <1>5, PTL DEF Spec, Publishing!PageSpec

\* BlockedHasWayOut: a flow under review or accepted can be ended from the list.
THEOREM WayOutKept == Spec => []BlockedHasWayOut
<1> DEFINE Here == part = "publish"
<1>1. Init => (Here => Publishing!PageInit) BY PartInit
<1>2. [Next]_<<part, vars>> => (Here' <=> Here) /\ (Here => [Publishing!PageNext]_(Publishing!pageVars))
  BY PartNext
<1>3. Publishing!PageSpec => []Publishing!BlockedHasWayOut BY Publishing!WayOut, PublishHere
<1>4. Here /\ Publishing!BlockedHasWayOut => BlockedHasWayOut BY DEF BlockedHasWayOut
<1>5. ~Here => BlockedHasWayOut BY DEF BlockedHasWayOut
<1> QED BY <1>1, <1>2, <1>3, <1>4, <1>5, PTL DEF Spec, Publishing!PageSpec

\* Of two users.
LEMMA BusyListsKept == Spec => [](part = "subscribe" => Subscribing!ListKeepsUp)
<1> DEFINE Here == part = "subscribe"
<1>1. Init => (Here => Subscribing!PageInit) BY PartInit
<1>2. [Next]_<<part, vars>> => (Here' <=> Here) /\ (Here => [Subscribing!PageNext]_(Subscribing!pageVars))
  BY PartNext
<1>3. Subscribing!PageSpec => []Subscribing!ListKeepsUp BY Subscribing!ListsKeepUp, SubscribeHere
<1> QED BY <1>1, <1>2, <1>3, PTL DEF Spec, Subscribing!PageSpec

\* Of one who loses answers.
LEMMA LostListsKept == Spec => [](part = "lose" => Losing!ListKeepsUp)
<1> DEFINE Here == part = "lose"
<1>1. Init => (Here => Losing!PageInit) BY PartInit
<1>2. [Next]_<<part, vars>> => (Here' <=> Here) /\ (Here => [Losing!PageNext]_(Losing!pageVars))
  BY PartNext
<1>3. Losing!PageSpec => []Losing!ListKeepsUp BY Losing!ListsKeepUp, SubscribeHere
<1> QED BY <1>1, <1>2, <1>3, PTL DEF Spec, Losing!PageSpec

\* ListKeepsUp: a list of subscriptions that waits for nothing is up to date.
THEOREM ListsKept == Spec => []ListKeepsUp
<1>1. /\ part = "subscribe" => Subscribing!ListKeepsUp
      /\ part = "lose" => Losing!ListKeepsUp
      => ListKeepsUp
  BY DEF ListKeepsUp
<1> QED BY <1>1, BusyListsKept, LostListsKept, PTL

\* Of two users.
LEMMA BusyDialogsKept == Spec => [](part = "subscribe" => Subscribing!NoDialogHangs)
<1> DEFINE Here == part = "subscribe"
<1>1. Init => (Here => Subscribing!PageInit) BY PartInit
<1>2. [Next]_<<part, vars>> => (Here' <=> Here) /\ (Here => [Subscribing!PageNext]_(Subscribing!pageVars))
  BY PartNext
<1>3. Subscribing!PageSpec => []Subscribing!NoDialogHangs BY Subscribing!DialogsReleased, SubscribeHere
<1> QED BY <1>1, <1>2, <1>3, PTL DEF Spec, Subscribing!PageSpec

\* Of one who loses answers.
LEMMA LostDialogsKept == Spec => [](part = "lose" => Losing!NoDialogHangs)
<1> DEFINE Here == part = "lose"
<1>1. Init => (Here => Losing!PageInit) BY PartInit
<1>2. [Next]_<<part, vars>> => (Here' <=> Here) /\ (Here => [Losing!PageNext]_(Losing!pageVars))
  BY PartNext
<1>3. Losing!PageSpec => []Losing!NoDialogHangs BY Losing!DialogsReleased, SubscribeHere
<1> QED BY <1>1, <1>2, <1>3, PTL DEF Spec, Losing!PageSpec

\* NoDialogHangs: a busy dialog has a request in progress.
THEOREM DialogsKept == Spec => []NoDialogHangs
<1>1. /\ part = "subscribe" => Subscribing!NoDialogHangs
      /\ part = "lose" => Losing!NoDialogHangs
      => NoDialogHangs
  BY DEF NoDialogHangs
<1> QED BY <1>1, BusyDialogsKept, LostDialogsKept, PTL

\* LinesInOrder: the dialog of a deployment is handed the lines of its stream.
THEOREM LinesKept == Spec => []LinesInOrder
<1> DEFINE Here == part = "deploy"
<1>1. Init => (Here => Route!Deploy!Init) BY PartInit
<1>2. [Next]_<<part, vars>> => (Here' <=> Here) /\ (Here => [Route!Deploy!Next]_(Route!Deploy!vars))
  BY PartNext
<1>3. Route!Deploy!Spec => []Route!Deploy!LinesInOrder BY Route!LinesWhole
<1>4. Here /\ Route!Deploy!LinesInOrder => LinesInOrder BY DEF LinesInOrder
<1>5. ~Here => LinesInOrder BY DEF LinesInOrder
<1> QED BY <1>1, <1>2, <1>3, <1>4, <1>5, PTL DEF Spec, Route!Deploy!Spec

\* FollowsDeployment: it is never ahead, leaves no stream behind, and has an end to wait for.
THEOREM DeploymentKept == Spec => []FollowsDeployment
<1> DEFINE Here == part = "deploy"
<1>1. Init => (Here => Route!Deploy!Init) BY PartInit
<1>2. [Next]_<<part, vars>> => (Here' <=> Here) /\ (Here => [Route!Deploy!Next]_(Route!Deploy!vars))
  BY PartNext
<1>3. Route!Deploy!Spec => []Route!Deploy!FollowsDeployment BY Route!DeploymentFollowed
<1>4. Here /\ Route!Deploy!FollowsDeployment => FollowsDeployment BY DEF FollowsDeployment
<1>5. ~Here => FollowsDeployment BY DEF FollowsDeployment
<1> QED BY <1>1, <1>2, <1>3, <1>4, <1>5, PTL DEF Spec, Route!Deploy!Spec

\* OneConnection, whose general form is PagesProofs!OnlyOne.
THEOREM ConnectionsKept == Spec => []OneConnection
<1> DEFINE Here == part = "inspect"
<1>1. Init => (Here => Route!Mcp!Init) BY PartInit
<1>2. [Next]_<<part, vars>> => (Here' <=> Here) /\ (Here => [Route!Mcp!Next]_(Route!Mcp!vars))
  BY PartNext
<1>3. Route!Mcp!Spec => []Route!Mcp!OneConnection BY Route!OnlyOne, ConstantsAssumption
<1>4. Here /\ Route!Mcp!OneConnection => OneConnection BY DEF OneConnection
<1>5. ~Here => OneConnection BY DEF OneConnection
<1> QED BY <1>1, <1>2, <1>3, <1>4, <1>5, PTL DEF Spec, Route!Mcp!Spec

\* OwnRights: on no page is a user offered what is another's right.
THEOREM RightsKept == Spec => []OwnRights
<1> DEFINE Here == part = "access"
<1>1. Init => (Here => Route!Access!Init) BY PartInit
<1>2. [Next]_<<part, vars>> => (Here' <=> Here) /\ (Here => [Route!Access!Next]_(Route!Access!vars))
  BY PartNext
<1>3. Route!Access!Spec => []Route!Access!OwnRights BY Route!OnlyOwnRights, ConstantsAssumption
<1>4. Here /\ Route!Access!OwnRights => OwnRights BY DEF OwnRights
<1>5. ~Here => OwnRights BY DEF OwnRights
<1> QED BY <1>1, <1>2, <1>3, <1>4, <1>5, PTL DEF Spec, Route!Access!Spec

\* ListFits: the market shows what its filters let through.
THEOREM MarketKept == Spec => []ListFits
<1> DEFINE Here == part = "market"
<1>1. Init => (Here => Route!Browse!Init) BY PartInit
<1>2. [Next]_<<part, vars>> => (Here' <=> Here) /\ (Here => [Route!Browse!Next]_(Route!Browse!vars))
  BY PartNext
<1>3. Route!Browse!Spec => []Route!Browse!ListFits BY Route!MarketFits
<1>4. Here /\ Route!Browse!ListFits => ListFits BY DEF ListFits
<1>5. ~Here => ListFits BY DEF ListFits
<1> QED BY <1>1, <1>2, <1>3, <1>4, <1>5, PTL DEF Spec, Route!Browse!Spec

\* On the page that is alone.
LEMMA DraggedKept == Spec => [](part = "drag" => Route!Drag!PageFollows)
<1> DEFINE Here == part = "drag"
<1>1. Init => (Here => Route!Drag!PageInit) BY PartInit
<1>2. [Next]_<<part, vars>> => (Here' <=> Here) /\ (Here => [Route!Drag!PageNext]_(Route!Drag!vars))
  BY PartNext
<1>3. Route!Drag!PageSpec => []Route!Drag!PageFollows BY Route!TreeFollows
<1> QED BY <1>1, <1>2, <1>3, PTL DEF Spec, Route!Drag!PageSpec

\* On the page that another one disturbs.
LEMMA SharedKept == Spec => [](part = "share" => Balance!Drag!PageFollows)
<1> DEFINE Here == part = "share"
<1>1. Init => (Here => Balance!Drag!PageInit) BY PartInit
<1>2. [Next]_<<part, vars>> => (Here' <=> Here) /\ (Here => [Balance!Drag!PageNext]_(Balance!Drag!vars))
  BY PartNext
<1>3. Balance!Drag!PageSpec => []Balance!Drag!PageFollows BY Balance!TreeFollows
<1> QED BY <1>1, <1>2, <1>3, PTL DEF Spec, Balance!Drag!PageSpec

\* PageFollows: a page of categories that waits for nothing shows what is stored.
THEOREM TreesKept == Spec => []PageFollows
<1>1. /\ part = "drag" => Route!Drag!PageFollows
      /\ part = "share" => Balance!Drag!PageFollows
      => PageFollows
  BY DEF PageFollows
<1> QED BY <1>1, DraggedKept, SharedKept, PTL

\* The model of a route.
LEMMA RouteKept == Spec => [](part = "route" => Route!Choice!ChoiceFits)
<1> DEFINE Here == part = "route"
<1>1. Init => (Here => Route!Choice!Init) BY PartInit
<1>2. [Next]_<<part, vars>> => (Here' <=> Here) /\ (Here => [Route!Choice!Next]_(Route!Choice!vars))
  BY PartNext
<1>3. Route!Choice!Spec => []Route!Choice!ChoiceFits BY Route!ChoicesFit, ConstantsAssumption
<1> QED BY <1>1, <1>2, <1>3, PTL DEF Spec, Route!Choice!Spec

\* The fallback list's.
LEMMA BalanceKept == Spec => [](part = "balance" => Balance!Choice!ChoiceFits)
<1> DEFINE Here == part = "balance"
<1>1. Init => (Here => Balance!Choice!Init) BY PartInit
<1>2. [Next]_<<part, vars>> => (Here' <=> Here) /\ (Here => [Balance!Choice!Next]_(Balance!Choice!vars))
  BY PartNext
<1>3. Balance!Choice!Spec => []Balance!Choice!ChoiceFits BY Balance!ChoicesFit, ConstantsAssumption
<1> QED BY <1>1, <1>2, <1>3, PTL DEF Spec, Balance!Choice!Spec

\* The same, where a provider has no models.
LEMMA ScarceKept == Spec => [](part = "scarce" => ScarceRoute!Choice!ChoiceFits)
<1> DEFINE Here == part = "scarce"
<1>1. Init => (Here => ScarceRoute!Choice!Init) BY PartInit
<1>2. [Next]_<<part, vars>> => (Here' <=> Here) /\ (Here => [ScarceRoute!Choice!Next]_(ScarceRoute!Choice!vars))
  BY PartNext
<1>3. ScarceRoute!Choice!Spec => []ScarceRoute!Choice!ChoiceFits
  BY ScarceRoute!ChoicesFit, ConstantsAssumption
<1> QED BY <1>1, <1>2, <1>3, PTL DEF Spec, ScarceRoute!Choice!Spec

\* The same, where a provider has no models.
LEMMA ShortageKept == Spec => [](part = "shortage" => ScarceBalance!Choice!ChoiceFits)
<1> DEFINE Here == part = "shortage"
<1>1. Init => (Here => ScarceBalance!Choice!Init) BY PartInit
<1>2. [Next]_<<part, vars>> => (Here' <=> Here) /\ (Here => [ScarceBalance!Choice!Next]_(ScarceBalance!Choice!vars))
  BY PartNext
<1>3. ScarceBalance!Choice!Spec => []ScarceBalance!Choice!ChoiceFits
  BY ScarceBalance!ChoicesFit, ConstantsAssumption
<1> QED BY <1>1, <1>2, <1>3, PTL DEF Spec, ScarceBalance!Choice!Spec

\* ChoiceFits: the model that is chosen belongs to what it was chosen from.
THEOREM ChoicesKept == Spec => []ChoiceFits
<1>1. /\ part = "route" => Route!Choice!ChoiceFits
      /\ part = "balance" => Balance!Choice!ChoiceFits
      /\ part = "scarce" => ScarceRoute!Choice!ChoiceFits
      /\ part = "shortage" => ScarceBalance!Choice!ChoiceFits
      => ChoiceFits
  BY DEF ChoiceFits
<1> QED BY <1>1, RouteKept, BalanceKept, ScarceKept, ShortageKept, PTL

\* An editor of values that the server lists.
LEMMA RemoteFit == Spec => [](part = "remote" => Route!Editor!FiltersFit)
<1> DEFINE Here == part = "remote"
<1>1. Init => (Here => Route!Editor!Init) BY PartInit
<1>2. [Next]_<<part, vars>> => (Here' <=> Here) /\ (Here => [Route!Editor!Next]_(Route!Editor!vars))
  BY PartNext
<1>3. Route!Editor!Spec => []Route!Editor!FiltersFit
  BY Route!FiltersOwned, ConstantsAssumption
<1> QED BY <1>1, <1>2, <1>3, PTL DEF Spec, Route!Editor!Spec

\* An editor of values that are typed.
LEMMA TypedFit == Spec => [](part = "typed" => Balance!Editor!FiltersFit)
<1> DEFINE Here == part = "typed"
<1>1. Init => (Here => Balance!Editor!Init) BY PartInit
<1>2. [Next]_<<part, vars>> => (Here' <=> Here) /\ (Here => [Balance!Editor!Next]_(Balance!Editor!vars))
  BY PartNext
<1>3. Balance!Editor!Spec => []Balance!Editor!FiltersFit
  BY Balance!FiltersOwned, ConstantsAssumption
<1> QED BY <1>1, <1>2, <1>3, PTL DEF Spec, Balance!Editor!Spec

\* An editor of values that are fixed.
LEMMA FixedFit == Spec => [](part = "fixed" => ScarceRoute!Editor!FiltersFit)
<1> DEFINE Here == part = "fixed"
<1>1. Init => (Here => ScarceRoute!Editor!Init) BY PartInit
<1>2. [Next]_<<part, vars>> => (Here' <=> Here) /\ (Here => [ScarceRoute!Editor!Next]_(ScarceRoute!Editor!vars))
  BY PartNext
<1>3. ScarceRoute!Editor!Spec => []ScarceRoute!Editor!FiltersFit
  BY ScarceRoute!FiltersOwned, ConstantsAssumption
<1> QED BY <1>1, <1>2, <1>3, PTL DEF Spec, ScarceRoute!Editor!Spec

\* An editor of rules.
LEMMA RulesFit == Spec => [](part = "rules" => ScarceBalance!Editor!FiltersFit)
<1> DEFINE Here == part = "rules"
<1>1. Init => (Here => ScarceBalance!Editor!Init) BY PartInit
<1>2. [Next]_<<part, vars>> => (Here' <=> Here) /\ (Here => [ScarceBalance!Editor!Next]_(ScarceBalance!Editor!vars))
  BY PartNext
<1>3. ScarceBalance!Editor!Spec => []ScarceBalance!Editor!FiltersFit
  BY ScarceBalance!FiltersOwned, ConstantsAssumption
<1> QED BY <1>1, <1>2, <1>3, PTL DEF Spec, ScarceBalance!Editor!Spec

\* FiltersFit: a strategy's filters are of different attributes, and have their own values.
THEOREM FiltersKept == Spec => []FiltersFit
<1>1. /\ part = "remote" => Route!Editor!FiltersFit
      /\ part = "typed" => Balance!Editor!FiltersFit
      /\ part = "fixed" => ScarceRoute!Editor!FiltersFit
      /\ part = "rules" => ScarceBalance!Editor!FiltersFit
      => FiltersFit
  BY DEF FiltersFit
<1> QED BY <1>1, RemoteFit, TypedFit, FixedFit, RulesFit, PTL

\* An editor of values that the server lists.
LEMMA RemoteStay == Spec => [](part = "remote" => Route!Editor!UntouchedStay)
<1> DEFINE Here == part = "remote"
<1>1. Init => (Here => Route!Editor!Init) BY PartInit
<1>2. [Next]_<<part, vars>> => (Here' <=> Here) /\ (Here => [Route!Editor!Next]_(Route!Editor!vars))
  BY PartNext
<1>3. Route!Editor!Spec => []Route!Editor!UntouchedStay
  BY Route!UntouchedSaved, ConstantsAssumption
<1> QED BY <1>1, <1>2, <1>3, PTL DEF Spec, Route!Editor!Spec

\* An editor of values that are typed.
LEMMA TypedStay == Spec => [](part = "typed" => Balance!Editor!UntouchedStay)
<1> DEFINE Here == part = "typed"
<1>1. Init => (Here => Balance!Editor!Init) BY PartInit
<1>2. [Next]_<<part, vars>> => (Here' <=> Here) /\ (Here => [Balance!Editor!Next]_(Balance!Editor!vars))
  BY PartNext
<1>3. Balance!Editor!Spec => []Balance!Editor!UntouchedStay
  BY Balance!UntouchedSaved, ConstantsAssumption
<1> QED BY <1>1, <1>2, <1>3, PTL DEF Spec, Balance!Editor!Spec

\* An editor of values that are fixed.
LEMMA FixedStay == Spec => [](part = "fixed" => ScarceRoute!Editor!UntouchedStay)
<1> DEFINE Here == part = "fixed"
<1>1. Init => (Here => ScarceRoute!Editor!Init) BY PartInit
<1>2. [Next]_<<part, vars>> => (Here' <=> Here) /\ (Here => [ScarceRoute!Editor!Next]_(ScarceRoute!Editor!vars))
  BY PartNext
<1>3. ScarceRoute!Editor!Spec => []ScarceRoute!Editor!UntouchedStay
  BY ScarceRoute!UntouchedSaved, ConstantsAssumption
<1> QED BY <1>1, <1>2, <1>3, PTL DEF Spec, ScarceRoute!Editor!Spec

\* An editor of rules.
LEMMA RulesStay == Spec => [](part = "rules" => ScarceBalance!Editor!UntouchedStay)
<1> DEFINE Here == part = "rules"
<1>1. Init => (Here => ScarceBalance!Editor!Init) BY PartInit
<1>2. [Next]_<<part, vars>> => (Here' <=> Here) /\ (Here => [ScarceBalance!Editor!Next]_(ScarceBalance!Editor!vars))
  BY PartNext
<1>3. ScarceBalance!Editor!Spec => []ScarceBalance!Editor!UntouchedStay
  BY ScarceBalance!UntouchedSaved, ConstantsAssumption
<1> QED BY <1>1, <1>2, <1>3, PTL DEF Spec, ScarceBalance!Editor!Spec

\* UntouchedStay: what nobody touched in the editor stays as it was, there and when saved.
THEOREM UntouchedKept == Spec => []UntouchedStay
<1>1. /\ part = "remote" => Route!Editor!UntouchedStay
      /\ part = "typed" => Balance!Editor!UntouchedStay
      /\ part = "fixed" => ScarceRoute!Editor!UntouchedStay
      /\ part = "rules" => ScarceBalance!Editor!UntouchedStay
      => UntouchedStay
  BY DEF UntouchedStay
<1> QED BY <1>1, RemoteStay, TypedStay, FixedStay, RulesStay, PTL
=============================================================================
