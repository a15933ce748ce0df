------------------------------- MODULE Market -------------------------------
(***************************************************************************)
(* The market's list of services with its filters (market: ServiceHubList,  *)
(* ServiceHubGroup).  The services and the categories come with two answers *)
(* in either order.  What is shown is not computed when the page is drawn   *)
(* but kept, and made anew by whatever changes a filter, from the filters   *)
(* as the page had them when that was set up: when the page opened for the  *)
(* services' answer, at the keystroke for a search half a second later.     *)
(*                                                                         *)
(* A service belongs to one category, and not to those above it.            *)
(***************************************************************************)
EXTENDS Naturals, Sequences

CONSTANTS
  Services,  \* each with its category, its tags and the words that find it
  Parent,    \* the category above a category, or "none"
  Tags,
  Words,     \* what is typed into the search
  MaxTyped   \* bound: keystrokes that have not taken effect

VARIABLES
  asked,    \* requests without an answer: "services", "categories"
  option,   \* filterOption, without what is shown and the spinner
  shown,    \* showServicesList
  typed,    \* keystrokes that have not taken effect, with the filters at each
  touched,  \* history: a filter was used since the page opened
  late      \* history: what is shown was made from filters of before

vars == <<asked, option, shown, typed, touched, late>>

-----------------------------------------------------------------------------
Categories == DOMAIN Parent
Empty == "empty"  \* the tag of services that have none

\* initialServiceHubListState.
Initial == [services |-> {}, known |-> FALSE, cates |-> {}, tags |-> {}, word |-> ""]

TagsOf(s) == IF s.tags = {} THEN {Empty} ELSE s.tags

Fits(s, o) ==
  /\ s.category \in o.cates
  /\ TagsOf(s) \cap o.tags # {}
  /\ o.word = "" \/ o.word \in s.words

\* filterServiceList.
Filtered(o) == IF o.known THEN {s \in o.services : Fits(s, o)} ELSE o.services

-----------------------------------------------------------------------------
\* The filters are those the page was opened with, so that all services are shown.
ServicesArrive ==
  /\ "services" \in asked
  /\ asked' = asked \ {"services"}
  /\ option' = [option EXCEPT !.services = Services]
  /\ shown' = Filtered([Initial EXCEPT !.services = Services])
  /\ late' = touched
  /\ UNCHANGED <<typed, touched>>

\* All categories and tags are checked; what is shown stays.
CategoriesArrive ==
  /\ "categories" \in asked
  /\ asked' = asked \ {"categories"}
  /\ option' = [option EXCEPT !.known = TRUE, !.cates = Categories, !.tags = Tags \cup {Empty}]
  /\ late' = (late \/ touched)
  /\ UNCHANGED <<shown, typed, touched>>

Refused(r) ==
  /\ r \in asked
  /\ asked' = asked \ {r}
  /\ UNCHANGED <<option, shown, typed, touched, late>>

\* The tree of categories: what is below a checked category is checked, and what is above
\* one that is not, is not.
Branches == {S \in SUBSET Categories : \A d \in Categories : Parent[d] \in S => d \in S}

Below(c) == {d \in Categories : \A S \in Branches : c \in S => d \in S}

Above(c) == {d \in Categories : c \in Below(d)}

Toggled(c, checked) ==
  IF c \in checked THEN checked \ (Below(c) \cup Above(c))
  ELSE LET more == checked \cup Below(c)
       IN more \cup {d \in Above(c) : Below(d) \ Above(c) \subseteq more}

\* Mutant: what is shown is made from the filters without the one that has changed.
Checked_Before(o) == Filtered(option)

\* onCheckHandler: a category or a tag is checked or not.
Checked(o) == Filtered(o)

Check(o) ==
  /\ option.known
  /\ option' = o
  /\ shown' = Checked(o)
  /\ touched' = TRUE /\ late' = FALSE
  /\ UNCHANGED <<asked, typed>>

CheckCategory(c) == Check([option EXCEPT !.cates = Toggled(c, @)])

CheckTag(t) == Check([option EXCEPT !.tags = IF t \in @ THEN @ \ {t} ELSE @ \cup {t}])

\* Every keystroke has a debounce of its own, so that none is dropped.
Type(w) ==
  /\ Len(typed) < MaxTyped
  /\ typed' = Append(typed, [option EXCEPT !.word = w])
  /\ touched' = TRUE
  /\ UNCHANGED <<asked, option, shown, late>>

\* onSearchWordChange, which knows the filters of the keystroke.
Search ==
  /\ typed # <<>>
  /\ typed' = Tail(typed)
  /\ option' = [option EXCEPT !.word = Head(typed).word]
  /\ shown' = Filtered(Head(typed))
  /\ late' = (option' # Head(typed))
  /\ UNCHANGED <<asked, touched>>

-----------------------------------------------------------------------------
Init ==
  /\ asked = {"services", "categories"}
  /\ option = Initial
  /\ shown = {}
  /\ typed = <<>>
  /\ touched = FALSE /\ late = FALSE

Next ==
  \/ ServicesArrive \/ CategoriesArrive
  \/ \E r \in asked : Refused(r)
  \/ \E c \in Categories : CheckCategory(c)
  \/ \E t \in Tags \cup {Empty} : option.known /\ CheckTag(t)
  \/ \E w \in Words : Type(w)
  \/ Search

Spec == Init /\ [][Next]_vars

-----------------------------------------------------------------------------
\* Services whose category and tags the page knows: a category may have been deleted that
\* still has services, or added between the two answers.
Placed(s) == s.category \in Categories /\ s.tags \subseteq Tags

\* The list is what the filters on the page say, in whatever order the answers come and
\* filters are used; unless the services came, or a search took effect, after a filter had
\* changed that it does not know of, and no category or tag was checked since.
ListFits ==
  option.known /\ ~ late =>
    \A s \in {s \in Services : Placed(s)} :
      s \in shown <=> s \in option.services /\ Fits(s, option)

=============================================================================
