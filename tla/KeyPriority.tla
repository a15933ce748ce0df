---------------------------- MODULE KeyPriority ----------------------------
(***************************************************************************)
(* The API keys of one AI provider: their rows, numbered 1, 2, ... in the   *)
(* order in which the gateway is to try them, and the copies of them that  *)
(* the gateway has.  The code is module/ai-key, service/ai-key, the        *)
(* operations of module/ai that touch a provider's keys, and the handler   *)
(* of the gateway's messages about keys, which is another process.         *)
(*                                                                         *)
(* A request works on the rows as it has read them, now or when Read kept  *)
(* them for it: it saves whole rows, number and status together, and the   *)
(* calls to the gateway come before its commit, which may fail.  Keys are   *)
(* found by their id alone, so that a request may name another provider    *)
(* than the key's.  Time is abstract: whether a key has expired when a     *)
(* handler looks is any answer.                                            *)
(***************************************************************************)
EXTENDS Naturals, FiniteSets, FiniteSetsExt

CONSTANTS
  Keys,      \* the ids of keys
  Default,   \* the id of the provider's own key
  Requests,  \* requests that can be in progress at once
  MaxNumber, \* bound: keys are numbered up to it
  Foreign,   \* numbers that keys of other providers may have
  MaxMissed, \* bound: keys whose last change the gateway may have missed at once
  None

ASSUME DefaultAssumption == Default \in Keys
ASSUME NoneAssumption == None \notin Keys
ASSUME BoundAssumption == MaxNumber \in Nat \ {0} /\ MaxMissed \in Nat
ASSUME ForeignAssumption == Foreign \subseteq 1 .. MaxNumber

VARIABLES
  provider,  \* whether the provider has a row
  key,       \* table ai_key: status and number (column sort) of each key
  gateway,   \* the gateway's copy of each key
  seen,      \* the rows a request in progress has read
  missed,    \* history: keys whose last change the gateway was not told, or that it
             \* was told of something else: by a commit that then failed, by a row
             \* that was read before it changed, or under another provider's name
  skewed     \* history: numbers were written that rest on others than the table has,
             \* or a key was moved behind itself or with a key of another provider,
             \* and the provider has had keys ever since

vars == <<provider, key, gateway, seen, missed, skewed>>

-----------------------------------------------------------------------------
\* "active" stands for normal, error, exceeded and expired: which of them a key has
\* when a handler looks is any answer.
Status == {"none", "disabled", "active"}

NoKey   == [status |-> "none", number |-> 0]
Offline == [number |-> 0, disabled |-> FALSE]

StoredIn(rows) == {k \in Keys : rows[k] # NoKey}
Stored == StoredIn(key)
Online == {k \in Keys : gateway[k] # Offline}

Numbers(rows) == [k \in StoredIn(rows) |-> rows[k].number]

MaxPriority(rows) == Max({rows[k].number : k \in StoredIn(rows)})

NewKey(row) == [number |-> row.number, disabled |-> row.status = "disabled"]

-----------------------------------------------------------------------------
(* Transactions: rows is the table after it, was the one it has read.      *)

\* syncGateway for the keys K; the calls for those in lost do not arrive, and the
\* caller is not told.  The copies of those in wrong are not what their rows say.
Tell(K, copies, lost, wrong) ==
  /\ gateway' = [k \in Keys |-> IF k \in K \ lost THEN copies[k] ELSE gateway[k]]
  /\ missed' = (missed \ K) \cup lost \cup wrong
  /\ Cardinality(missed') <= MaxMissed

\* Keys that had changed since they were read, and have been written nevertheless
\* without a call, or pushed as nobody has written them.
Overwritten(was, rows, K, copies) ==
  {k \in Keys : /\ was[k] # key[k]
                /\ IF k \in K THEN copies[k] \notin {Offline, NewKey(rows[k])}
                   ELSE rows[k] # key[k]}

\* Numbers have been written that rest on others than the table has.
Mixed(was, rows) == Numbers(rows) # Numbers(key) /\ Numbers(was) # Numbers(key)

\* No call to the gateway, which untold needed.
Write(was, rows, untold, mixed) ==
  /\ key' = rows
  /\ skewed' = (skewed \/ mixed)
  /\ Tell({}, <<>>, {}, untold \cup Overwritten(was, rows, {}, <<>>))

\* A gateway that cannot be reached misses all of K.
Commit(was, rows, K, copies, mixed) ==
  /\ key' = rows
  /\ skewed' = (skewed \/ mixed)
  /\ \E lost \in {{}, K} : Tell(K, copies, lost, Overwritten(was, rows, K, copies))

\* The gateway refuses a key after others, or the commit fails: it has been told.
RollBack(K, copies) ==
  /\ UNCHANGED <<key, skewed>>
  /\ \E told \in SUBSET K \ {{}} :
       Tell(told, copies, {}, {k \in told : copies[k] \notin {Offline, NewKey(key[k])}})

\* The keys K are brought online as the transaction sees them.
Push(was, rows, K, view, mixed) ==
  LET copies == [k \in K |-> NewKey(view[k])]
  IN Commit(was, rows, K, copies, mixed) \/ RollBack(K, copies)

Drop(was, rows, k, mixed) ==
  LET copies == [j \in {k} |-> Offline]
  IN Commit(was, rows, {k}, copies, mixed) \/ RollBack({k}, copies)

\* Save: the row as it was read, with a new status; a deleted one is inserted again.
Saved(was, K, status) ==
  [k \in Keys |-> IF k \in K THEN [was[k] EXCEPT !.status = status] ELSE key[k]]

-----------------------------------------------------------------------------
(* The provider.                                                           *)

\* A custom provider starts without a key.
AddProvider ==
  /\ ~ provider
  /\ provider' = TRUE
  /\ UNCHANGED <<key, gateway, missed, skewed>>

\* The default key is created; its id must be free.
WithDefault == [key EXCEPT ![Default] = [status |-> "active", number |-> 1]]

\* UpdateProviderConfig writes the default key, and pushes it when the provider
\* is enabled; a disabled provider is taken offline without its keys.
Configure(was, enable) ==
  LET rows   == IF Default \in StoredIn(was)
                  THEN Saved(was, {Default}, IF enable THEN "active" ELSE "disabled")
                  ELSE WithDefault
      copies == [k \in {Default} |-> NewKey(rows[k])]
      mixed  == Mixed(was, rows)
  IN /\ Default \in Stored => Default \in StoredIn(was)
     /\ \/ /\ provider' = TRUE
           /\ IF enable THEN Commit(was, rows, {Default}, copies, mixed)
                        ELSE Write(was, rows, {Default}, mixed)
        \/ UNCHANGED provider /\ enable /\ RollBack({Default}, copies)

\* Listing keys or providers creates a default key that is missing.
EnsureDefault(was) ==
  /\ Default \notin StoredIn(was) \cup Stored
  /\ Write(was, WithDefault, {}, Mixed(was, WithDefault))
  /\ UNCHANGED provider

\* Mutant: the gateway keeps the keys.
DeleteProvider_KeepsOnline(was) ==
  /\ provider' = FALSE
  /\ key' = [k \in Keys |-> NoKey]
  /\ skewed' = FALSE
  /\ UNCHANGED <<gateway, missed>>

\* Delete of a provider deletes its keys and takes those it has read offline; that
\* the gateway refused one is ignored.
DeleteProvider(was) ==
  LET K      == StoredIn(was)
      rows   == [k \in Keys |-> NoKey]
      copies == [k \in K |-> Offline]
  IN \/ /\ provider' = FALSE
        /\ key' = rows
        /\ skewed' = FALSE
        /\ \E lost \in SUBSET K : Tell(K, copies, lost, Overwritten(was, rows, K, copies))
     \/ UNCHANGED provider /\ RollBack(K, copies)

-----------------------------------------------------------------------------
(* Keys.                                                                   *)

\* The largest number is read before the transaction.  An id that exists already is
\* an error that is dropped: the key that is found is pushed.  Only the provider's
\* own key has its id.
Create(was, k) ==
  /\ StoredIn(was) # {}
  /\ LET new   == [key EXCEPT ![k] = [status |-> "active", number |-> MaxPriority(was) + 1]]
         mixed == Stored = {} \/ MaxPriority(was) # MaxPriority(key)
     IN \/ /\ k \notin Stored \cup {Default}
           /\ MaxPriority(was) < MaxNumber
           /\ Push(was, new, {k}, new, mixed)
        \/ \E found \in {was, key} :
             k \in StoredIn(found) /\ Push(was, key, {k}, found, FALSE)

\* A disabled key stays so; the others become normal, and are pushed, or expired; a
\* key of which its quota was exceeded stays so and is not pushed.
Edit(was, k) ==
  LET rows == Saved(was, {k}, was[k].status)
  IN /\ k \in StoredIn(was)
     /\ \/ Write(was, rows, {}, Mixed(was, rows))
        \/ was[k].status = "active" /\ Push(was, rows, {k}, rows, Mixed(was, rows))

\* The rows with those behind number n moved up.
MovedUp(was, n) ==
  [j \in Keys |-> IF was[j].number > n THEN [was[j] EXCEPT !.number = @ - 1] ELSE key[j]]

\* Mutant: the keys behind do not move up.
DeleteKey_LeavesGap(was, k) ==
  LET rows == [key EXCEPT ![k] = NoKey]
  IN k \in StoredIn(was) \ {Default} /\ Drop(was, rows, k, Mixed(was, rows))

\* Delete: the keys behind move up, in the database only.
DeleteKey(was, k) ==
  LET rows == [MovedUp(was, was[k].number) EXCEPT ![k] = NoKey]
  IN k \in StoredIn(was) \ {Default} /\ Drop(was, rows, k, Mixed(was, rows))

\* UpdateKeyStatus: disabling takes the key offline ...
Disable(was, k) ==
  LET rows == Saved(was, {k}, "disabled")
  IN k \in StoredIn(was) /\ Drop(was, rows, k, Mixed(was, rows))

\* ... enabling, which decides on a status read even before, pushes it if it has not
\* expired.
Enable(was, k) ==
  LET rows == Saved(was, {k}, "active")
  IN /\ k \in StoredIn(was)
     /\ Write(was, rows, {}, Mixed(was, rows)) \/ Push(was, rows, {k}, rows, Mixed(was, rows))

\* HandleMessage: the gateway reports how calls with the keys K went, at any time
\* after; a report never disables a key.
HandleMessage(was, K) ==
  LET rows == Saved(was, K, "active")
  IN K # {} /\ K \subseteq StoredIn(was) /\ Write(was, rows, {}, Mixed(was, rows))

-----------------------------------------------------------------------------
(* Sorting: SortBefore and SortAfter of the service.                       *)

\* The keys between the numbers a of the key that is moved and b of its target, which
\* make room for it.
Between(rows, a, b, before) ==
  {k \in StoredIn(rows) :
     LET n == rows[k].number
     IN IF a < b THEN a < n /\ (n < b \/ (~ before /\ n = b))
                 ELSE n < a /\ (n > b \/ (before /\ n = b))}

Place(a, b, before) ==
  IF a < b THEN IF before THEN b - 1 ELSE b
           ELSE IF before THEN b ELSE b + 1

\* The rows with the key o moved, which need not be one of the provider's.
Moved(rows, o, a, b, before) ==
  LET room == Between(rows, a, b, before)
  IN [k \in Keys |->
        IF k = o THEN [rows[k] EXCEPT !.number = Place(a, b, before)]
        ELSE IF k \in room THEN [rows[k] EXCEPT !.number = IF a < b THEN @ - 1 ELSE @ + 1]
        ELSE rows[k]]

Sorted(rows, o, t, before) == Moved(rows, o, rows[o].number, rows[t].number, before)

\* Only the rows that are in the way, and o's, are updated, if they are still there.
Updated(view, written) ==
  [k \in Keys |-> IF k \in written \cap Stored THEN view[k] ELSE key[k]]

\* Mutant: only the moved key is pushed.
Sort_PushesOrigin(was, o, t, before) ==
  LET view == Sorted(was, o, t, before)
      rows == Updated(view, Between(was, was[o].number, was[t].number, before) \cup {o})
  IN /\ {o, t} \subseteq StoredIn(was)
     /\ view[o].number <= MaxNumber
     /\ Push(was, rows, {o}, view, (o = t /\ ~ before) \/ Mixed(was, rows))

\* Mutant: the two keys change places.
Sort_Swaps(was, o, t, before) ==
  LET view == [was EXCEPT ![o].number = was[t].number, ![t].number = was[o].number]
      rows == Updated(view, {o, t})
  IN /\ {o, t} \subseteq StoredIn(was)
     /\ Push(was, rows, StoredIn(was), view, Mixed(was, rows))

\* Every key of the provider is pushed, disabled ones as disabled.
Sort(was, o, t, before) ==
  LET view == Sorted(was, o, t, before)
      rows == Updated(view, Between(was, was[o].number, was[t].number, before) \cup {o})
  IN /\ {o, t} \subseteq StoredIn(was)
     /\ view[o].number <= MaxNumber
     /\ Push(was, rows, StoredIn(was), view, (o = t /\ ~ before) \/ Mixed(was, rows))

-----------------------------------------------------------------------------
(* Keys of other providers, whose numbers mean nothing here.               *)

\* Delete of one as if it were a key of this provider moves keys of this one.
DeleteForeign(was, n) ==
  LET rows == MovedUp(was, n)
  IN Write(was, rows, {}, Numbers(rows) # Numbers(key))

\* Sort moves a key of another provider, None, among those of this one, from number a
\* to b, or a key of this one to where a key of another is.
SortForeign(was, o, a, b, before) ==
  LET view == Moved(was, o, a, b, before)
      rows == Updated(view, Between(was, a, b, before) \cup {o})
  IN /\ Place(a, b, before) <= MaxNumber
     /\ Push(was, rows, StoredIn(was), view, Numbers(rows) # Numbers(key))

\* A request that names another provider deletes, disables or moves a key of this one:
\* the gateway is told of a key that it does not have, or not of this one.
Elsewhere(was, k) ==
  /\ k \in StoredIn(was)
  /\ \/ Write(was, Saved(was, {k}, "disabled"), {k}, Mixed(was, Saved(was, {k}, "disabled")))
     \/ k # Default /\ Write(was, [key EXCEPT ![k] = NoKey], {k}, k \in Stored)
     \/ \E n \in Foreign :
          LET rows == Updated([was EXCEPT ![k].number = n], {k})
          IN Write(was, rows, {k}, Numbers(rows) # Numbers(key))

-----------------------------------------------------------------------------
\* What a request does to keys, once it has found the provider.
Request(was) ==
  /\ \/ \E k \in Keys : \/ Create(was, k) \/ Edit(was, k) \/ DeleteKey(was, k)
                        \/ Disable(was, k) \/ Enable(was, k)
     \/ \E o, t \in Keys, before \in BOOLEAN : Sort(was, o, t, before)
  /\ UNCHANGED provider

\* A request whose key is not of the provider it names.
Misdirected(was) ==
  /\ \/ \E k \in Keys : Elsewhere(was, k)
     \/ \E n \in Foreign : DeleteForeign(was, n)
     \/ \E n \in Foreign, before \in BOOLEAN :
          \/ \E k \in StoredIn(was) : \/ SortForeign(was, None, n, was[k].number, before)
                                      \/ SortForeign(was, k, was[k].number, n, before)
          \/ \E m \in Foreign : SortForeign(was, None, m, n, before)
  /\ UNCHANGED provider

Configured(was) == \E enable \in BOOLEAN : Configure(was, enable)

Reported(was) == UNCHANGED provider /\ \E K \in SUBSET Keys : HandleMessage(was, K)

Read(r) ==
  /\ seen[r] = None
  /\ provider
  /\ seen' = [seen EXCEPT ![r] = key]
  /\ UNCHANGED <<provider, key, gateway, missed, skewed>>

Done(r) == seen' = [seen EXCEPT ![r] = None]

\* A handler is stopped, or its transaction fails before it tells the gateway.
Fail(r) ==
  /\ seen[r] # None
  /\ Done(r)
  /\ UNCHANGED <<provider, key, gateway, missed, skewed>>

Init ==
  /\ provider = FALSE
  /\ key = [k \in Keys |-> NoKey]
  /\ gateway = [k \in Keys |-> Offline]
  /\ seen = [r \in Requests |-> None]
  /\ missed = {}
  /\ skewed = FALSE

Next ==
  \/ /\ \/ AddProvider
        \/ provider /\ (Request(key) \/ EnsureDefault(key) \/ DeleteProvider(key))
        \/ Misdirected(key) \/ Configured(key) \/ Reported(key)
     /\ UNCHANGED seen
  \/ \E r \in Requests :
       \/ Read(r) \/ Fail(r)
       \/ /\ seen[r] # None
          /\ \/ Request(seen[r]) \/ EnsureDefault(seen[r]) \/ DeleteProvider(seen[r])
             \/ Configured(seen[r]) \/ Reported(seen[r])
          /\ Done(r)

Spec == Init /\ [][Next]_vars

-----------------------------------------------------------------------------
\* The rows, the gateway's copies and what requests have read are of their kinds.
TypeOK ==
  /\ provider \in BOOLEAN
  /\ key \in [Keys -> [status : Status, number : 0 .. MaxNumber]]
  /\ gateway \in [Keys -> [number : 0 .. MaxNumber, disabled : BOOLEAN]]
  /\ seen \in [Requests -> [Keys -> [status : Status, number : 0 .. MaxNumber]] \cup {None}]
  /\ missed \in SUBSET Keys
  /\ skewed \in BOOLEAN

\* After any creations, deletions and sorts, with edits and reports that save whole
\* rows in between, the keys of the provider are numbered from 1 without gaps or
\* ties; the only ways out are those of skewed.
Dense == ~ skewed => {key[k].number : k \in Stored} = 1 .. Cardinality(Stored)

\* A key never has a better place in the gateway than in the database, wherever
\* its last change arrived: what Delete does not push only ever moves keys up.
NeverAhead ==
  \A k \in (Stored \cap Online) \ missed : gateway[k].number >= key[k].number

\* A deleted key is not used: Edit, Create and the enabling of a key it overlaps
\* with never bring it online again.
GoneIsOffline == Online \subseteq Stored \cup missed

\* A disabled key is not used, whatever was read before it was disabled.
DisabledIsUnused ==
  \A k \in Online \ missed : key[k].status = "disabled" => gateway[k].disabled

\* Only keys that exist and are not disabled are used, wherever their last change
\* arrived.
OnlyUsableKeys == GoneIsOffline /\ DisabledIsUnused

\* The keys in the order of their numbers, while no two requests have mixed them up.
Order ==
  IF skewed THEN <<>>
  ELSE [n \in 1 .. Cardinality(Stored) |-> CHOOSE k \in Stored : key[k].number = n]

Console == INSTANCE KeyList WITH list <- Order

\* The numbers implement the list of the console: each operation does to the
\* order of the keys what KeyList says, or leaves the rows.
ImplementsList ==
  Console!ListInit /\ [][skewed \/ skewed' \/ UNCHANGED key \/ Console!ListNext]_Order

=============================================================================
