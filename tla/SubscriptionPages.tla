------------------------- MODULE SubscriptionPages -------------------------
(***************************************************************************)
(* The console's pages about the subscriptions of a service, on top of the *)
(* handlers they call: the portal where an application applies, the        *)
(* consumer's list of subscriptions, the provider's list of subscribers    *)
(* and its list of applications.  Each shows the list it was last answered *)
(* with, which others may have changed since the server read it, and acts  *)
(* through a modal dialog that stays open until its request has succeeded  *)
(* or its user gives up.  The answers to the lists a page asks for come in *)
(* any order, refuse, or are lost.                                         *)
(*                                                                         *)
(* A page is somebody's browser; a request in progress is named after what *)
(* sent it.  Both buttons of the approver's dialog may have one.           *)
(***************************************************************************)
EXTENDS Subscription

CONSTANTS
  MaxUsers,  \* bound: pages that are open, or have a request in progress, at once
  Lists,     \* the requests for its list that a page may have in progress
  Calm       \* bound: no answer is lost, and the service goes on approving as it did

Pages == {"portal", "consumer", "provider", "approver"}
Slots == {"portal", "consumer", "provider", "pass", "refuse"}

VARIABLES
  open,     \* the pages that are mounted
  shown,    \* what each page shows
  dialog,   \* the dialog of each page
  sent,     \* requests whose dialog waits for them
  asked,    \* the requests of each page for its list
  outdated  \* history: pages that show what need not be there any more

pages == <<open, shown, dialog, sent, asked, outdated>>
pageVars == <<vars, pages>>

-----------------------------------------------------------------------------
Page(s) == IF s \in {"pass", "refuse"} THEN "approver" ELSE s

NoDialog == [kind |-> "none", app |-> None, id |-> 0]

\* What the handlers behind the lists answer: the portal's applications that are
\* not subscribed, the consumer's row if it is subscribed or under review, the
\* subscribers, the undecided applications.
SubscriptionsOf(a) == IF sub[a].status \in {"subscribe", "review"} THEN sub[a] ELSE NoRow

Listed(p) ==
  CASE p = "portal"   -> Apps \ Subscribed
    [] p = "consumer" -> [a \in Apps |-> SubscriptionsOf(a)]
    [] p = "provider" -> Subscribed
    [] p = "approver" -> {x \in Applies : apply[x].status = "review"}

InUse == open \cup {Page(s) : s \in {q \in Slots : rq[q].at # "idle"}}

Free(s) == rq[s].at = "idle"

-----------------------------------------------------------------------------
(* Lists.                                                                  *)

Blank(p) == IF p = "consumer" THEN [a \in Apps |-> NoRow] ELSE {}

\* A request for a list: whether it has been asked for and read, what was read, and
\* whether it is too late: another has been asked for since, or what it says changed.
NoList(p) == [at |-> "none", list |-> Blank(p), late |-> FALSE]
NewList(p) == [NoList(p) EXCEPT !.at = "asked"]

Late(l) == [l EXCEPT !.late = l.at # "none"]

\* Page p asks for its list.
Asks(p) ==
  \E n \in Lists :
    /\ asked[p][n].at = "none"
    /\ asked' = [asked EXCEPT ![p] = [m \in Lists |-> IF m = n THEN NewList(p) ELSE Late(asked[p][m])]]

\* A step of the server for s changes what pages should show: what other pages show is
\* outdated, and what has been read of a list that is under way too late.
Changed(s) ==
  /\ outdated' = outdated \cup {p \in open \ {Page(s)} : Listed(p)' # Listed(p)}
  /\ asked' = [p \in Pages |-> [n \in Lists |->
                IF asked[p][n].at = "read" /\ Listed(p)' # Listed(p) THEN Late(asked[p][n])
                ELSE asked[p][n]]]

Enter(p) ==
  /\ p \notin open
  /\ Cardinality(InUse \cup {p}) <= MaxUsers
  /\ open' = open \cup {p}
  /\ Asks(p)
  /\ UNCHANGED <<vars, shown, dialog, sent, outdated>>

\* What was sent goes on, and finds nobody.
Leave(p) ==
  /\ p \in open
  /\ open' = open \ {p}
  /\ shown' = [shown EXCEPT ![p] = Blank(p)]
  /\ dialog' = [dialog EXCEPT ![p] = NoDialog]
  /\ sent' = {s \in sent : Page(s) # p}
  /\ asked' = [asked EXCEPT ![p] = [n \in Lists |-> NoList(p)]]
  /\ outdated' = outdated \ {p}
  /\ UNCHANGED vars

\* The consumer asks again.
Refresh(p) ==
  /\ p = "consumer"
  /\ p \in open
  /\ Asks(p)
  /\ UNCHANGED <<vars, open, shown, dialog, sent, outdated>>

ReadList(p, n) ==
  /\ asked[p][n].at = "asked"
  /\ asked' = [asked EXCEPT ![p][n].at = "read", ![p][n].list = Listed(p)]
  /\ UNCHANGED <<vars, open, shown, dialog, sent, outdated>>

Drop(p, n) == asked' = [asked EXCEPT ![p][n] = NoList(p)]

\* The list that arrives is shown, whichever was asked for last.
Load(p, n) ==
  /\ asked[p][n].at = "read"
  /\ shown' = [shown EXCEPT ![p] = asked[p][n].list]
  /\ outdated' = IF asked[p][n].late THEN outdated \cup {p} ELSE outdated \ {p}
  /\ Drop(p, n)
  /\ UNCHANGED <<vars, open, dialog, sent>>

\* It is refused or lost: what was shown stays.
LoadFails(p, n) ==
  /\ ~Calm
  /\ asked[p][n].at # "none"
  /\ outdated' = IF asked[p][n].late THEN outdated ELSE outdated \cup {p}
  /\ Drop(p, n)
  /\ UNCHANGED <<vars, open, shown, dialog, sent>>

-----------------------------------------------------------------------------
(* Dialogs.                                                                *)

Open(p, kind, a, id) ==
  /\ p \in open
  /\ dialog[p] = NoDialog
  /\ dialog' = [dialog EXCEPT ![p] = [kind |-> kind, app |-> a, id |-> id]]
  /\ UNCHANGED <<vars, open, shown, sent, asked, outdated>>

\* The portal offers what it showed as not subscribed.
OpenApply(a) == a \in shown["portal"] /\ Open("portal", "apply", a, 0)

\* A row under review may be taken back, any other ended.
OpenCancel(a) ==
  LET row == shown["consumer"][a]
  IN /\ row # NoRow
     /\ Open("consumer", IF row.status = "review" THEN "cancelSubApply" ELSE "cancelSub", a, row.id)

\* Any application may be added, and what is shown removed.
OpenSubscriber(a) ==
  \/ Open("provider", "add", a, 0)
  \/ a \in shown["provider"] /\ Open("provider", "delete", a, 0)

\* The application is read again before its dialog opens, and not looked at.
OpenApproval(x) == x \in shown["approver"] /\ Open("approver", "approval", x, 0)

\* The user gives up; a request that was sent goes on.
Close(p) ==
  /\ dialog[p] # NoDialog
  /\ dialog' = [dialog EXCEPT ![p] = NoDialog]
  /\ sent' = {s \in sent : Page(s) # p}
  /\ UNCHANGED <<vars, open, shown, asked, outdated>>

-----------------------------------------------------------------------------
(* Requests.                                                               *)

Send(s, kind) ==
  /\ dialog[Page(s)].kind = kind
  /\ Free(s)
  /\ s \notin sent
  /\ sent' = sent \cup {s}
  /\ UNCHANGED <<open, shown, dialog>>

App(p) == dialog[p].app

Confirm(s) ==
  /\ \/ Send(s, "apply") /\ (SubscribeRead(s, App("portal")) \/ Fails(s))
     \/ Send(s, "cancelSubApply") /\ RevokeApplyRead(s, App("consumer"), dialog["consumer"].id)
     \/ Send(s, "cancelSub") /\ RevokeRead(s, App("consumer"), dialog["consumer"].id)
     \/ Send(s, "add") /\ (AddSubscriber(s, App("provider")) \/ Fails(s))
     \/ Send(s, "delete") /\ (DeleteSubscriber(s, App("provider")) \/ Fails(s))
     \/ s = "pass" /\ Send(s, "approval") /\ Pass(s, App("approver"))
     \/ s = "refuse" /\ Send(s, "approval") /\ Reject(s, App("approver"))
  /\ Changed(s)

Serve(s) == Handle(s) /\ Changed(s) /\ UNCHANGED <<open, shown, dialog, sent>>

\* Mutant: the list is not asked for again.
Succeed_KeepsList(s) ==
  /\ rq[s].at = "ok"
  /\ Answered(s)
  /\ IF s \in sent THEN /\ dialog' = [dialog EXCEPT ![Page(s)] = NoDialog]
                           /\ sent' = {q \in sent : Page(q) # Page(s)}
                      ELSE UNCHANGED <<dialog, sent>>
  /\ UNCHANGED <<open, shown, asked, outdated>>

\* A success closes the dialog, if it is still open, and asks for the list again.
Succeed(s) ==
  /\ rq[s].at = "ok"
  /\ Answered(s)
  /\ IF Page(s) \in open THEN Asks(Page(s)) ELSE UNCHANGED asked
  /\ IF s \in sent THEN /\ dialog' = [dialog EXCEPT ![Page(s)] = NoDialog]
                           /\ sent' = {q \in sent : Page(q) # Page(s)}
                      ELSE UNCHANGED <<dialog, sent>>
  /\ UNCHANGED <<open, shown, outdated>>

\* An error leaves the dialog open: its button may be pressed again.
Reported(s) ==
  /\ rq[s].at = "error"
  /\ Answered(s)
  /\ sent' = sent \ {s}
  /\ UNCHANGED <<open, shown, dialog, asked, outdated>>

\* Mutant: no dialog notices.
Notices_None(s) == FALSE

\* The promise of the dialog that adds a subscriber has no catch on its request:
\* it does not learn that there will be no answer, and its button stays busy.
Notices(s) == dialog[Page(s)].kind # "add"

\* The answer is lost: whatever the handler did is done, and the list stays.
AnswerLost(s) ==
  /\ ~Calm
  /\ rq[s].at \in {"ok", "error"}
  /\ Answered(s)
  /\ sent' = {q \in sent : q = s => ~ Notices(s)}
  /\ outdated' = outdated \cup ({Page(s)} \cap open)
  /\ UNCHANGED <<open, shown, dialog, asked>>

-----------------------------------------------------------------------------
Elsewhere ==
  /\ (~Calm /\ SetApproval) \/ \E c \in Clusters : ResetCluster(c) \/ TellCluster(c)
  /\ UNCHANGED pages

PageInit ==
  /\ Init
  /\ open = {}
  /\ shown = [p \in Pages |-> Blank(p)]
  /\ dialog = [p \in Pages |-> NoDialog]
  /\ sent = {}
  /\ asked = [p \in Pages |-> [n \in Lists |-> NoList(p)]]
  /\ outdated = {}

Act ==
  \/ \E p \in Pages : Enter(p) \/ Leave(p) \/ Refresh(p) \/ Close(p)
  \/ \E p \in Pages, n \in Lists : ReadList(p, n) \/ Load(p, n) \/ LoadFails(p, n)
  \/ \E a \in Apps : OpenApply(a) \/ OpenCancel(a) \/ OpenSubscriber(a)
  \/ \E x \in Applies : OpenApproval(x)
  \/ \E s \in Slots : Confirm(s)

Respond(s) == Serve(s) \/ Succeed(s) \/ Reported(s) \/ AnswerLost(s)

PageNext ==
  \/ Act
  \/ \E s \in Slots : Respond(s)
  \/ Elsewhere

PageSpec == PageInit /\ [][PageNext]_pageVars

-----------------------------------------------------------------------------
(* Properties.                                                             *)

\* Pages and dialogs keep the shape of the code.
PageTypeOK ==
  /\ \A p \in Pages \ {"consumer"} : shown[p] \subseteq Apps \cup Applies
  /\ shown["consumer"] \in [Apps -> [id : Nat, status : Status]]
  /\ sent \subseteq Slots /\ outdated \subseteq open
  /\ \A s \in sent : dialog[Page(s)] # NoDialog

\* A page that has nothing under way shows what the server has: every operation of its
\* own makes it ask for its list again, and no answer that comes in between stands for
\* the last one.  Excepted is a page that has not had, since then, a list it asked for
\* last: when someone else changed what it shows, the answer to its own request was
\* lost, or the list it asked for last failed or came before one asked for earlier.
ListKeepsUp ==
  \A p \in open :
    \/ p \in outdated
    \/ \E n \in Lists : asked[p][n].at # "none"
    \/ \E s \in Slots : Page(s) = p /\ ~ Free(s)
    \/ shown[p] = Listed(p)

\* A dialog never waits for nothing: while its button is busy its request is in
\* progress, so that it is released or closed when that ends.  The one that adds
\* a subscriber is excepted (Notices).
NoDialogHangs ==
  \A s \in sent : Free(s) => dialog[Page(s)].kind = "add"
=============================================================================
