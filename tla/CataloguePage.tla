--------------------------- MODULE CataloguePage ----------------------------
(***************************************************************************)
(* The page on which the tree of categories is edited and dragged           *)
(* (ServiceCategory, ServiceHubCategoryConfig).  All requests are its own;  *)
(* what another page does is a change that it does not hear of.             *)
(***************************************************************************)
EXTENDS Catalogue

CONSTANT
  Calm      \* bound: no dialog is withdrawn while it waits, and no other page writes

VARIABLES
  gData,    \* the tree it shows
  cateData, \* the tree it has read last
  back,     \* the tree that comes back when a sort is refused
  loading,  \* whether it is covered by a spinner
  dialog,   \* the dialog about a category, with its request
  excused   \* history: whether it need not show what is stored

page == <<gData, cateData, back, loading, dialog>>
vars == <<catVars, page, excused>>

-----------------------------------------------------------------------------
NoDialog == [kind |-> Nothing, cat |-> Nothing, sent |-> Nothing]

List == Request("list")

\* The page opens, and reads the tree.
PageInit ==
  /\ rows \in Planted /\ astray = {}
  /\ \E first \in Requests : rq = [r \in Requests |-> IF r = first THEN List ELSE Free]
  /\ gData = Empty /\ cateData = Empty /\ back = [r \in Requests |-> Empty]
  /\ loading = TRUE /\ dialog = NoDialog
  /\ excused = TRUE

Idle == ~loading /\ dialog = NoDialog

\* A request that is sent beside another may overtake it.
Send(r, q) ==
  /\ rq[r].kind = Nothing
  /\ Put(r, q)
  /\ excused' = (excused \/ InProgress # {})
  /\ Unwritten

\* onDrop and sortCategories: a category is dragged to another, not below itself.  The
\* tree that is shown is sent, and the one that was read is kept for a refusal.
Drop(r, c, to) ==
  /\ Idle
  /\ c \in DOMAIN gData /\ to \in DOMAIN gData \cup {Root}
  /\ c \notin Above(gData, to)
  /\ gData' = [gData EXCEPT ![c] = to]
  /\ back' = [back EXCEPT ![r] = cateData]
  /\ loading' = TRUE
  /\ Send(r, Sort(gData'))
  /\ UNCHANGED <<cateData, dialog>>

\* openModal, to rename or delete a category or to add one below it or at the root.
Open(kind, c) ==
  /\ Idle
  /\ c \in DOMAIN gData \/ (kind = "add" /\ c = Root)
  /\ dialog' = [kind |-> kind, cat |-> c, sent |-> Nothing]
  /\ UNCHANGED <<catVars, gData, cateData, back, loading, excused>>

Unknown == New \ (DOMAIN gData \cup DOMAIN cateData \cup {dialog.cat}
                  \cup UNION {DOMAIN back[r] : r \in Requests})

\* onOk, which save or deleteCate answer.
Confirm(r) ==
  /\ dialog.kind # Nothing /\ dialog.sent = Nothing
  /\ dialog' = [dialog EXCEPT !.sent = r]
  /\ \/ dialog.kind = "add" /\ \E c \in Unknown : Send(r, Add(c, dialog.cat))
     \/ dialog.kind # "add" /\ Send(r, About(dialog.kind, dialog.cat))
  /\ UNCHANGED <<gData, cateData, back, loading>>

\* Also while it waits for its request, which goes on.
Withdraw ==
  /\ dialog.kind # Nothing
  /\ Calm => dialog.sent = Nothing
  /\ dialog' = NoDialog
  /\ UNCHANGED <<catVars, gData, cateData, back, loading, excused>>

-----------------------------------------------------------------------------
(* The server.                                                             *)

Serve(r) == Handle(r) /\ UNCHANGED <<page, excused>>

\* Search.
ListRead(r) ==
  /\ Read(r, "list")
  /\ Put(r, [Goes(r) EXCEPT !.tree = Tree])
  /\ excused' = (excused /\ InProgress # {r})
  /\ Unwritten /\ UNCHANGED page

\* Another page moves or deletes categories.
Elsewhere ==
  /\ ~Calm
  /\ rows' \in {f \in Planted : \A c \in Cats \ Stored : f[c] = Gone}
  /\ astray' = {}
  /\ excused' = TRUE
  /\ UNCHANGED <<rq, page>>

-----------------------------------------------------------------------------
(* The answers, or their loss, which is a failure to the page.             *)

\* getCategoryList, after an operation: with the same request.
Again(r) == Put(r, List)

\* Mutant: what was dragged stays although it was refused.
Reverted_Not(r) == gData

\* What is shown after a refusal.
Reverted(r) == back[r]

ListAnswer(r, ok) ==
  /\ rq[r].kind = "list"
  /\ gData' = (IF ok THEN rq[r].tree ELSE gData)
  /\ cateData' = (IF ok THEN rq[r].tree ELSE cateData)
  /\ loading' = FALSE
  /\ Put(r, Free)
  /\ UNCHANGED <<back, dialog>>

\* The list is read again, and yet the page does not wait for it: finally comes last.
SortAnswer(r, ok) ==
  /\ rq[r].kind = "sort"
  /\ loading' = FALSE
  /\ back' = [back EXCEPT ![r] = Empty]
  /\ \/ ok /\ Again(r) /\ UNCHANGED gData
     \/ ~ok /\ Put(r, Free) /\ gData' = Reverted(r)
  /\ UNCHANGED <<cateData, dialog>>

\* The dialog closes, or may be confirmed again.
DialogAnswer(r, ok) ==
  /\ rq[r].kind \in {"add", "rename", "delete"}
  /\ LET mine == dialog.sent = r IN
     \/ ok /\ Again(r) /\ loading' = TRUE
           /\ dialog' = IF mine THEN NoDialog ELSE dialog
     \/ ~ok /\ Put(r, Free) /\ UNCHANGED loading
            /\ dialog' = IF mine THEN [dialog EXCEPT !.sent = Nothing] ELSE dialog
  /\ UNCHANGED <<gData, cateData, back>>

Answers(r, ok) == ListAnswer(r, ok) \/ SortAnswer(r, ok) \/ DialogAnswer(r, ok)

Arrive(r) ==
  /\ rq[r].pc = "done" \/ rq[r].pc = "refused" \/ Write(r, "list")
  /\ Answers(r, rq[r].pc # "refused")
  /\ excused' = (excused \/ (rq[r].kind = "list" /\ rq[r].pc = "refused"))
  /\ Unwritten

Lose(r) ==
  /\ rq[r].pc = "done" \/ Write(r, "list")
  /\ Answers(r, FALSE)
  /\ excused' = TRUE
  /\ Unwritten

-----------------------------------------------------------------------------
PageNext ==
  \/ Withdraw \/ Elsewhere
  \/ \E kind \in {"add", "rename", "delete"}, c \in Cats \cup {Root} : Open(kind, c)
  \/ \E r \in Requests :
       \/ \E c \in Cats, to \in Cats \cup {Root} : Drop(r, c, to)
       \/ Confirm(r) \/ Serve(r) \/ ListRead(r) \/ Arrive(r) \/ Lose(r)

PageSpec == PageInit /\ [][PageNext]_vars

-----------------------------------------------------------------------------
\* A page that waits for nothing shows what is stored, after refusals too, unless
\* another page changed it, an answer was lost, or two of its own requests overlapped.
PageFollows == (~excused /\ InProgress = {}) => gData = Tree
=============================================================================
