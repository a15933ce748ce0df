------------------------------ MODULE KeyPage -------------------------------
(***************************************************************************)
(* The console's page of the keys of a provider: a row dragged to another   *)
(* place is sent as the key next to which it was dropped, and the keys on   *)
(* the page may be some of the provider's only, those a search found or a   *)
(* page of the list holds.  The page of the load balancer sends the same.   *)
(***************************************************************************)
EXTENDS KeyPriority, SequencesExt

\* Places of the list that rise, n of them.
Rising(n) == {at \in [1 .. n -> DOMAIN Order] : \A x, y \in 1 .. n : x < y => at[x] < at[y]}

\* The rows there may be on the page: some of the keys, in the order of the list.
Shown == UNION {{[x \in 1 .. n |-> Order[at[x]]] : at \in Rising(n)} : n \in DOMAIN Order}

\* newDataSource: the rows after the i-th was dropped at place j.
Dragged(rows, i, j) == InsertAt(RemoveAt(rows, i), j, rows[i])

\* Mutant: the neighbour is taken from the rows before the drag.
SortRequest_OldRows(rows, i, j) ==
  IF j > 1
    THEN [origin |-> rows[i], target |-> rows[j - 1], before |-> FALSE]
    ELSE [origin |-> rows[i], target |-> rows[j], before |-> TRUE]

\* handleDragSortEnd: after the row above, or before the row below the first.
SortRequest(rows, i, j) ==
  LET new == Dragged(rows, i, j)
  IN IF j > 1
       THEN [origin |-> rows[i], target |-> new[j - 1], before |-> FALSE]
       ELSE [origin |-> rows[i], target |-> new[j + 1], before |-> TRUE]

-----------------------------------------------------------------------------
\* A row stays where it was dropped: the keys the page shows, be they all of the
\* provider's or those of a search, are listed in the dragged order once the service has
\* renumbered all keys for the request, whatever the keys between them that it hid.
DragArrives ==
  ~ skewed =>
    \A rows \in Shown : \A i, j \in DOMAIN rows :
      i # j =>
        LET sent == SortRequest(rows, i, j)
            new  == Dragged(rows, i, j)
            key2 == Sorted(key, sent.origin, sent.target, sent.before)
        IN \A u, v \in DOMAIN new : u < v => key2[new[u]].number < key2[new[v]].number

=============================================================================
