------------------------------ MODULE KeyList ------------------------------
(***************************************************************************)
(* The list of API keys the console shows for a provider, in the order of  *)
(* their call priority: new keys go to its end, a key can be taken out, or  *)
(* moved directly before or after another one.  KeyPriority implements it  *)
(* with numbers.                                                           *)
(***************************************************************************)
EXTENDS SequencesExt

CONSTANT Keys

VARIABLE list

ListInit == list = <<>>

Add(k) ==
  /\ k \notin Range(list)
  /\ list' = Append(list, k)

\* Where k is in l.
At(l, k) == CHOOSE i \in DOMAIN l : l[i] = k

TakeOut(k) ==
  /\ k \in Range(list)
  /\ list' = RemoveAt(list, At(list, k))

\* l after o is taken out and put in again next to t.
Moved(l, o, t, before) ==
  LET rest == RemoveAt(l, At(l, o))
      at   == At(rest, t)
  IN InsertAt(rest, IF before THEN at ELSE at + 1, o)

Move(o, t, before) ==
  /\ {o, t} \subseteq Range(list)
  /\ list' = Moved(list, o, t, before)

Clear == list' = <<>>

ListNext ==
  \/ \E k \in Keys : Add(k) \/ TakeOut(k)
  \/ \E o, t \in Keys, before \in BOOLEAN : o # t /\ Move(o, t, before)
  \/ Clear
=============================================================================
