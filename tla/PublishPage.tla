---------------------------- MODULE PublishPage ----------------------------
(***************************************************************************)
(* The console's publish page of a service, on top of the workflow it      *)
(* drives: the rows it shows of the service's releases, the buttons it     *)
(* offers for each, and the requests they send.  The code is               *)
(* SystemInsidePublishList with its drawer's content, and the handler      *)
(* behind the list.  A list is shown until it is loaded again, whatever    *)
(* happens meanwhile.                                                      *)
(***************************************************************************)
EXTENDS PublishFlow

CONSTANT Visited  \* the service whose page is open

VARIABLE shown  \* the rows the page loaded last

pageVars == <<vars, shown>>

-----------------------------------------------------------------------------
NoRow == [status |-> "none", flow |-> None, canDelete |-> FALSE]

\* Mutant: a flow that is accepted is overlooked.
ShownStatus_NoAccept == {"apply", "error"}

\* The statuses of a release's latest flow that show in its row.
ShownStatus == {"apply", "accept", "error"}

\* List: a release is running or not, unless its latest flow says more.
Row(r) ==
  LET f == latest[r]
      runs == GetRunning(release[r]) = r
      says == f # None /\ flow[f].status \in ShownStatus
  IN [status    |-> IF says THEN flow[f].status ELSE IF runs THEN "running" ELSE "none",
      flow      |-> f,
      canDelete |-> ~ says /\ ~ runs]

Rows == [r \in Releases |-> IF release[r] = Visited THEN Row(r) ELSE NoRow]

\* Mutant: an application cannot be withdrawn.
Buttons_NoCancel(row) ==
  (CASE row.status = "accept" -> {"online", "stop"}
     [] row.status = "apply"  -> {"approval"}
     [] OTHER -> {}) \cup (IF row.canDelete THEN {"delete"} ELSE {})

\* tableOperation.  (Every row can be viewed; List answers no "publishing".)
Buttons(row) ==
  (CASE row.status = "accept" -> {"online", "stop"}
     [] row.status = "apply"  -> {"approval", "cancel"}
     [] OTHER -> {}) \cup (IF row.canDelete THEN {"delete"} ELSE {})

Offers(r, button) == button \in Buttons(shown[r])

-----------------------------------------------------------------------------
(* What the user does.                                                     *)

Load ==
  /\ shown' = Rows
  /\ UNCHANGED vars

\* A new version is released, applied for, accepted and published in one call.
\* That no flow was in progress was checked when the drawer opened.
Add(h) ==
  /\ \E r \in Releases, A \in SUBSET Apis : CreateAndApply(h, Visited, r, A, "do")
  /\ UNCHANGED shown

\* "Stop" and "withdraw" are one request, with the flow of the row.
Stop(h, r) ==
  /\ Offers(r, "stop") \/ Offers(r, "cancel")
  /\ StopRead(h, Visited, shown[r].flow)
  /\ UNCHANGED shown

Delete(r) ==
  /\ Offers(r, "delete")
  /\ DeleteRelease(Visited, r)
  /\ UNCHANGED shown

\* The requests behind "approval" and "online" name the service in a parameter
\* the server does not read: they are refused.

Serve ==
  /\ \/ \E h \in Handlers : Continue(h) \/ GoWrong(h)
     \/ Restart
  /\ UNCHANGED shown

-----------------------------------------------------------------------------
PageInit == Init /\ shown = [r \in Releases |-> NoRow]

PageNext ==
  \/ Load
  \/ \E h \in Handlers : Add(h) \/ \E r \in Releases : Stop(h, r)
  \/ \E r \in Releases : Delete(r)
  \/ Serve

PageSpec == PageInit /\ [][PageNext]_pageVars

-----------------------------------------------------------------------------
(* Properties.                                                             *)

\* What the server does with a button of release r's row.
Served(r, button) ==
  CASE button \in {"stop", "cancel"} -> /\ flow[Rows[r].flow].service = Visited
                                        /\ flow[Rows[r].flow].status \in Active
    [] button = "delete" -> CanDelete(Visited, r)
    [] OTHER -> FALSE

\* The flags List computes and the guards of the handlers, which are written
\* apart, agree: what a list just loaded offers is not refused.  (Approval and
\* going online are, always.)
OfferedIsServed ==
  \A r \in Releases : \A button \in Buttons(Rows[r]) \ {"approval", "online"} : Served(r, button)

\* A service that turns applications away because a flow is under review or
\* accepted can be freed from the page: the list offers to stop or to withdraw
\* it.  Excepted are flows whose release was deleted while they were being
\* created, which no list shows.
BlockedHasWayOut ==
  \A f \in Flows :
    \/ flow[f].service # Visited \/ flow[f].status \notin Active
    \/ release[flow[f].release] = None
    \/ \E r \in Releases : Rows[r].flow = f /\ Buttons(Rows[r]) \cap {"stop", "cancel"} # {}
=============================================================================
