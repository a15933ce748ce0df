----------------------------- MODULE Catalogue ------------------------------
(***************************************************************************)
(* The tree of service categories at the server (module/catalogue).         *)
(*                                                                          *)
(* The console sends the whole tree it shows when a category is dragged,    *)
(* and the server writes every row of it in one transaction; the other      *)
(* operations write one row, after a read that nothing protects.  The       *)
(* requests are those of any number of pages, each of which may show a tree *)
(* of long ago.  CataloguePage is one of them.                              *)
(*                                                                          *)
(* Names and the order of siblings are left out: a category is its row's    *)
(* parent.                                                                  *)
(***************************************************************************)
EXTENDS Functions

CONSTANTS
  Cats,     \* categories
  Requests  \* bound: requests that are in progress at once

VARIABLES
  rows,   \* the parent of each category that is stored
  rq,     \* requests in progress
  astray  \* history: categories whose place was written blindly

catVars == <<rows, rq, astray>>

-----------------------------------------------------------------------------
Root == "root"
Nothing == "none"
Gone == "gone"

Stored == {c \in Cats : rows[c] # Gone}

Children(c) == {d \in Stored : rows[d] = c}

\* The places that have with a category all that is above it in a tree.
Upward(tree) == {S \in SUBSET (Cats \cup {Root, Gone}) : \A c \in S \cap DOMAIN tree : tree[c] \in S}

\* What is at or above c in a tree: what all of these that have c have in common.
Above(tree, c) ==
  LET homes == {S \in Upward(tree) : c \in S}
  IN {d \in Cats \cup {Root, Gone} : \A S \in homes : d \in S}

\* What hangs from the root.
Reached(tree) == LET homes == Upward(tree) IN {c \in DOMAIN tree : \A S \in homes : c \in S => Root \in S}

\* Search with treeItems.
Tree == Restrict(rows, Reached(rows))

Empty == [c \in {} |-> Root]

\* The trees a page may show: all of it hangs from the root.
Trees == {t \in UNION {[C -> C \cup {Root}] : C \in SUBSET Cats} : Reached(t) = DOMAIN t}

Free == [kind |-> Nothing, pc |-> Nothing]

InProgress == {r \in Requests : rq[r].kind # Nothing}

Request(kind) ==
  [kind |-> kind, pc |-> "sent", cat |-> Nothing, parent |-> Root, tree |-> Empty, had |-> {}]

Sort(tree)     == [Request("sort") EXCEPT !.tree = tree]
Add(c, parent) == [Request("add") EXCEPT !.cat = c, !.parent = parent]
About(kind, c) == [Request(kind) EXCEPT !.cat = c]

\* A new category gets an identifier of its own.
New == {c \in Cats \ Stored : \A r \in InProgress : c # rq[r].cat /\ c \notin DOMAIN rq[r].tree}

\* The rows of a catalogue in which everything hangs from the root.
Planted == {f \in [Cats -> Cats \cup {Root, Gone}] : Reached(f) = {c \in Cats : f[c] # Gone}}

Init ==
  /\ rows \in Planted
  /\ rq = [r \in Requests |-> Free]
  /\ astray = {}

Put(r, q) == rq' = [rq EXCEPT ![r] = q]

-----------------------------------------------------------------------------
(* The handlers.                                                           *)

Read(r, kind)  == rq[r].kind = kind /\ rq[r].pc = "sent"
Write(r, kind) == rq[r].kind = kind /\ rq[r].pc = "read"

Goes(r)    == [rq[r] EXCEPT !.pc = "read"]
Done(r)    == [Request(rq[r].kind) EXCEPT !.pc = "done"]
Refused(r) == [Request(rq[r].kind) EXCEPT !.pc = "refused"]

Unwritten == UNCHANGED <<rows, astray>>

\* The rows of the tree are read in the transaction, which fails if one is not there.
SortRead(r) ==
  /\ Read(r, "sort")
  /\ Put(r, IF DOMAIN rq[r].tree \subseteq Stored THEN Goes(r) ELSE Refused(r))
  /\ Unwritten

\* Mutant: there is no transaction, so that each row is written when its turn comes.
Commits_EachRow(tree) == {CHOOSE c \in DOMAIN tree : TRUE}

\* The rows of a tree that a sort makes visible at once.
Commits(tree) == DOMAIN tree

\* recurseUpdateSort, committed.  A row that has been deleted since it was read is
\* inserted again.
SortWrite(r) ==
  /\ Write(r, "sort")
  /\ LET now  == Commits(rq[r].tree)
         rest == Restrict(rq[r].tree, DOMAIN rq[r].tree \ now)
     IN /\ rows' = [c \in Cats |-> IF c \in now THEN rq[r].tree[c] ELSE rows[c]]
        /\ astray' = astray \ now
        /\ Put(r, IF rest = Empty THEN Done(r) ELSE [rq[r] EXCEPT !.tree = rest])

\* The parent is looked up before the handler is called.
AddRead(r) ==
  /\ Read(r, "add")
  /\ Put(r, IF rq[r].parent \in Stored \cup {Root} THEN Goes(r) ELSE Refused(r))
  /\ Unwritten

AddWrite(r) ==
  /\ Write(r, "add")
  /\ rows' = [rows EXCEPT ![rq[r].cat] = rq[r].parent]
  /\ astray' = IF rq[r].parent \in Stored \cup {Root} THEN astray ELSE astray \cup {rq[r].cat}
  /\ Put(r, Done(r))

\* Save, of a new name: the row is read and written as a whole.
RenameRead(r) ==
  /\ Read(r, "rename")
  /\ LET c == rq[r].cat IN
     Put(r, IF c \in Stored THEN [Goes(r) EXCEPT !.parent = rows[c]] ELSE Refused(r))
  /\ Unwritten

RenameWrite(r) ==
  /\ Write(r, "rename")
  /\ LET c == rq[r].cat IN
     /\ rows' = [rows EXCEPT ![c] = rq[r].parent]
     /\ astray' = IF rows[c] = rq[r].parent THEN astray ELSE astray \cup {c}
  /\ Put(r, Done(r))

\* Mutant: whether there are categories below is not looked at.
Deletable_Any(c) == TRUE

Deletable(c) == Children(c) = {}

DeleteRead(r) ==
  /\ Read(r, "delete")
  /\ LET c == rq[r].cat IN
     Put(r, IF Deletable(c) THEN [Goes(r) EXCEPT !.had = Children(c)] ELSE Refused(r))
  /\ Unwritten

DeleteWrite(r) ==
  /\ Write(r, "delete")
  /\ LET c == rq[r].cat IN
     IF c \in Stored
     THEN /\ rows' = [rows EXCEPT ![c] = Gone]
          /\ astray' = (astray \ {c}) \cup (Children(c) \ rq[r].had)
          /\ Put(r, Done(r))
     ELSE Put(r, Refused(r)) /\ Unwritten

\* A statement fails, before anything is written.
GoWrong(r) ==
  /\ rq[r].pc \in {"sent", "read"}
  /\ Put(r, Refused(r))
  /\ Unwritten

Handle(r) ==
  \/ SortRead(r) \/ SortWrite(r) \/ AddRead(r) \/ AddWrite(r)
  \/ RenameRead(r) \/ RenameWrite(r) \/ DeleteRead(r) \/ DeleteWrite(r) \/ GoWrong(r)

-----------------------------------------------------------------------------
Ask(r) ==
  /\ rq[r].kind = Nothing
  /\ \/ \E t \in Trees \ {Empty} : Put(r, Sort(t))
     \/ \E c \in New, parent \in Cats \cup {Root} : c # parent /\ Put(r, Add(c, parent))
     \/ \E kind \in {"rename", "delete"}, c \in Cats : Put(r, About(kind, c))
  /\ Unwritten

Answer(r) ==
  /\ rq[r].pc \in {"done", "refused"}
  /\ Put(r, Free)
  /\ Unwritten

Next == \E r \in Requests : Ask(r) \/ Handle(r) \/ Answer(r)

Spec == Init /\ [][Next]_catVars

-----------------------------------------------------------------------------
\* No category disappears from the tree: each hangs from the root, whatever trees are
\* sent by pages that do not know of each other's changes.  Two races do take one away,
\* with what is below it: a rename that writes back the place it read, and a category
\* put under one that is being deleted, by an addition or by a drag.
CategoriesStay ==
  \A c \in Stored : c \in Reached(rows) \/ Above(rows, c) \cap astray # {}
=============================================================================
