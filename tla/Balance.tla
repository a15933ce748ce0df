------------------------------ MODULE Balance ------------------------------
(***************************************************************************)
(* The models the gateway falls back to when one fails: their rows, ordered *)
(* by a number, and the numbers the gateway has of them (module/ai-balance, *)
(* service/ai-balance).  Numbers need not follow each other: deleting an    *)
(* entry leaves a gap, unlike for keys (KeyPriority).                       *)
(*                                                                         *)
(* Create reads the largest number before its transaction.  Sort has none:  *)
(* its reads and each of its updates are steps of their own, for its        *)
(* updates are made with the context outside the transaction it opens, and  *)
(* the gateway is told after them.                                          *)
(***************************************************************************)
EXTENDS Naturals, SequencesExt

CONSTANTS
  Entries,    \* the ids of entries
  Local,      \* those of them that are local models
  Requests,   \* requests that can be in progress at once
  MaxNumber   \* bound: entries are numbered up to it

VARIABLES
  rows,     \* table ai_balance: the number (column priority) of each entry, 0 for no row
  gateway,  \* the number the gateway has of each entry, 0 for none
  rq,       \* requests in progress
  missed,   \* history: entries of which the gateway does not know the last
  skewed,   \* history: two requests got in each other's way, a sort failed half-way, or one
            \* gave an entry the number of another
  wanted    \* history: the list as its users have put it

vars == <<rows, gateway, rq, missed, skewed, wanted>>

Wanted == INSTANCE KeyList WITH Keys <- Entries, list <- wanted

-----------------------------------------------------------------------------
Stored == {e \in Entries : rows[e] # 0}

Largest == CHOOSE n \in 0 .. MaxNumber :
             /\ \A e \in Stored : rows[e] <= n
             /\ n # 0 => \E e \in Stored : rows[e] = n

\* Rows as a query lists them.
ByNumber(S) ==
  CHOOSE list \in Bijection(1 .. Cardinality(S), S) :
    \A i, j \in DOMAIN list : i < j => rows[list[i]] <= rows[list[j]]

\* List.
Order == ByNumber(Stored)

Free == [kind |-> "none", at |-> "none"]

InProgress(kinds) == {r \in Requests : rq[r].kind \in kinds}

Put(r, q) == rq' = [rq EXCEPT ![r] = q]
Done(r)   == Put(r, Free)

Unwritten == UNCHANGED <<rows, skewed, wanted>>

\* A request of this kind works on what those of these kinds are about to change.  In the
\* middle of a sort the largest number may be a smaller one.
Disturbs == [create |-> {"create", "sort"}, sort |-> {"sort", "sync"}, delete |-> {"sort", "sync"},
             sync |-> {"sort"}]

Overlaps(kind) == InProgress(Disturbs[kind]) # {}

Starts(kind) == skewed' = (skewed \/ Overlaps(kind))

-----------------------------------------------------------------------------
(* The gateway.                                                            *)

\* The entries of a list of numbers <<entry, number>>.
Named(list) == {u[1] : u \in Range(list)}

\* syncGateway: the numbers are sent one after the other, and the first that is refused is
\* the last.  A gateway that cannot be had is answered as success.
Online(list) ==
  \E n \in 0 .. Len(list) :
    LET sent == {list[i] : i \in 1 .. n} IN
    /\ gateway' = [e \in Entries |-> IF \E u \in sent : u[1] = e
                                      THEN (CHOOSE u \in sent : u[1] = e)[2] ELSE gateway[e]]
    /\ missed' = (missed \cup Named(list)) \ {u[1] : u \in sent}

-----------------------------------------------------------------------------
(* The operations.                                                         *)

\* An entry that is added gets an id of its own.
New == {e \in Entries \ Stored : /\ gateway[e] = 0 /\ e \notin missed
                                 /\ \A r \in InProgress({"create"}) : rq[r].entry # e}

CreateRead(r, e) ==
  /\ rq[r] = Free
  /\ e \in New
  /\ Largest < MaxNumber
  /\ Put(r, [kind |-> "create", at |-> "write", entry |-> e, number |-> Largest + 1])
  /\ Starts("create")
  /\ UNCHANGED <<rows, gateway, missed, wanted>>

CreateWrite(r) ==
  /\ rq[r].at = "write"
  /\ LET e == rq[r].entry IN
     /\ rows' = [rows EXCEPT ![e] = rq[r].number]
     /\ Online(<<<<e, rq[r].number>>>>)
     /\ Wanted!Add(e)
  /\ Done(r)
  /\ UNCHANGED skewed

\* The entry goes with its number.  That the gateway refused is ignored.
Delete(e) ==
  /\ e \in Stored
  /\ rows' = [rows EXCEPT ![e] = 0]
  /\ \/ gateway' = [gateway EXCEPT ![e] = 0] /\ missed' = missed \ {e}
     \/ missed' = missed \cup {e} /\ UNCHANGED gateway
  /\ Wanted!TakeOut(e)
  /\ Starts("delete")
  /\ UNCHANGED rq

\* The transaction of a Delete that the gateway has followed does not commit: the row stays.
DeleteFails(e) ==
  /\ e \in Stored
  /\ gateway' = [gateway EXCEPT ![e] = 0]
  /\ missed' = missed \cup {e}
  /\ Unwritten /\ UNCHANGED rq

\* SortAfter of an entry with itself is to give it the number after its own.
Climbs(o, t, before) == o = t /\ ~ before

\* That number is another entry's, or is about to be.
Ties(o, t, before) ==
  /\ Climbs(o, t, before)
  /\ \/ \E e \in Stored : rows[e] = rows[o] + 1
     \/ \E s \in InProgress({"create"}) : rq[s].number = rows[o] + 1

\* SortBefore and SortAfter read the two rows first, which may be one.
SortRead(r, o, t, before) ==
  /\ rq[r] = Free
  /\ {o, t} \subseteq Stored
  /\ Climbs(o, t, before) => rows[o] < MaxNumber
  /\ Put(r, [kind |-> "sort", at |-> "list", origin |-> o, target |-> t, before |-> before,
             from |-> rows[o], to |-> rows[t]])
  /\ skewed' = (skewed \/ Overlaps("sort") \/ Ties(o, t, before))
  /\ UNCHANGED <<rows, gateway, missed, wanted>>

\* The entries that make room for the one that goes from number a to b's place.
Between(a, b, before) ==
  {e \in Stored :
     IF a < b THEN a < rows[e] /\ (rows[e] < b \/ (~ before /\ rows[e] = b))
              ELSE rows[e] < a /\ (rows[e] > b \/ (before /\ rows[e] = b))}

Place(a, b, before) ==
  IF a < b THEN IF before THEN b - 1 ELSE b
           ELSE IF before THEN b ELSE b + 1

\* Mutant: the others make room in the wrong direction.
Step_Back(n, a, b) == IF a < b THEN n + 1 ELSE n - 1

Step(n, a, b) == IF a < b THEN n - 1 ELSE n + 1

\* The new numbers, of the entries in their order and then of the moved one.
SortList(r) ==
  /\ rq[r].at = "list"
  /\ LET q    == rq[r]
         room == ByNumber(Between(q.from, q.to, q.before))
         new  == [i \in DOMAIN room |-> <<room[i], Step(rows[room[i]], q.from, q.to)>>]
     IN Put(r, [kind |-> "sort", at |-> "update", origin |-> q.origin, target |-> q.target,
                before |-> q.before, sent |-> <<>>,
                todo |-> Append(new, <<q.origin, Place(q.from, q.to, q.before)>>)])
  /\ Unwritten /\ UNCHANGED <<gateway, missed>>

\* Mutant: the moved entry is not among the result.
Result_Room(q, u) == IF Len(q.todo) = 1 THEN q.sent ELSE Append(q.sent, u)

\* The result: what was updated, which is then sent to the gateway.
Result(q, u) == Append(q.sent, u)

\* A row that has been deleted stays so.  Who puts an entry next to itself wants nothing.
SortUpdate(r) ==
  /\ rq[r].at = "update"
  /\ LET q    == rq[r]
         u    == Head(q.todo)
         last == Len(q.todo) = 1
     IN /\ rows' = [rows EXCEPT ![u[1]] = IF @ = 0 THEN 0 ELSE u[2]]
        /\ Put(r, [q EXCEPT !.todo = Tail(@), !.sent = Result(q, u),
                            !.at = IF last THEN "push" ELSE @])
        /\ IF last /\ q.origin # q.target /\ {q.origin, q.target} \subseteq Range(wanted)
             THEN Wanted!Move(q.origin, q.target, q.before)
             ELSE UNCHANGED wanted
  /\ UNCHANGED <<gateway, missed, skewed>>

\* The gateway may refuse in between, and is told nothing when no address of local models
\* has been set, which is an error after the rows have been written.
SortPush(r) ==
  /\ rq[r].at = "push" /\ rq[r].kind = "sort"
  /\ Online(rq[r].sent)
  /\ Done(r)
  /\ Unwritten

Numbered(entries) == [i \in DOMAIN entries |-> <<entries[i], rows[entries[i]]>>]

\* SyncLocalBalances, for a new address of the local models, and initGateway, for all.
SyncRead(r, all) ==
  /\ rq[r] = Free
  /\ Put(r, [kind |-> "sync", at |-> "push",
             sent |-> Numbered(ByNumber({e \in Stored : all \/ e \in Local}))])
  /\ Starts("sync")
  /\ UNCHANGED <<rows, gateway, missed, wanted>>

SyncPush(r) ==
  /\ rq[r].at = "push" /\ rq[r].kind = "sync"
  /\ Online(rq[r].sent)
  /\ Done(r)
  /\ Unwritten

\* A statement fails, or the process stops; the transaction of Create may fail after the
\* gateway has been told.
Fail(r) ==
  /\ rq[r] # Free
  /\ Done(r)
  /\ CASE rq[r].at = "write" -> \/ /\ gateway' = [gateway EXCEPT ![rq[r].entry] = rq[r].number]
                                    /\ missed' = missed \cup {rq[r].entry}
                                 \/ UNCHANGED <<gateway, missed>>
       [] rq[r].at = "push" -> missed' = missed \cup Named(rq[r].sent) /\ UNCHANGED gateway
       [] OTHER -> UNCHANGED <<gateway, missed>>
  /\ skewed' = (skewed \/ (rq[r].at = "update" /\ rq[r].sent # <<>>))
  /\ UNCHANGED <<rows, wanted>>

-----------------------------------------------------------------------------
Init ==
  /\ rows = [e \in Entries |-> 0]
  /\ gateway = [e \in Entries |-> 0]
  /\ rq = [r \in Requests |-> Free]
  /\ missed = {}
  /\ skewed = FALSE
  /\ wanted = <<>>

Serve(r) ==
  \/ \E e \in Entries : CreateRead(r, e)
  \/ \E o, t \in Entries, before \in BOOLEAN : SortRead(r, o, t, before)
  \/ \E all \in BOOLEAN : SyncRead(r, all)
  \/ CreateWrite(r) \/ SortList(r) \/ SortUpdate(r) \/ SortPush(r) \/ SyncPush(r) \/ Fail(r)

\* Bound: nothing is said of what comes after requests have got in each other's way or two
\* entries are to have one number.
Over == skewed /\ UNCHANGED vars

Next ==
  \/ ~ skewed /\ ((\E r \in Requests : Serve(r)) \/ (\E e \in Entries : Delete(e) \/ DeleteFails(e)))
  \/ Over

Spec == Init /\ [][Next]_vars

-----------------------------------------------------------------------------
\* Sorts that have changed rows and not all of them, or have not told the gateway.
Sorting == {r \in InProgress({"sort"}) : rq[r].at \in {"update", "push"}}

\* As long as no two requests that disturb each other overlap, no sort stops half-way and
\* none puts an entry behind itself where the next number is taken, no two entries have one
\* number; but while a sort is at work they are listed as their users have put them, and the
\* gateway tries them in that order, with the numbers of the rows, except where it could not
\* be told.  Gaps that deletions leave do no harm.
BalanceKept ==
  ~ skewed /\ Sorting = {} =>
    /\ \A d, e \in Stored : d # e => rows[d] # rows[e]
    /\ Order = wanted
    /\ \A e \in Entries \ missed : gateway[e] = rows[e]

=============================================================================
