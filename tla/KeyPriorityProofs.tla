-------------------------- MODULE KeyPriorityProofs --------------------------
(* Proofs about KeyPriority and KeyPage, for any keys and requests.         *)
EXTENDS KeyPage, FiniteSetTheorems, SequenceTheorems, WellFoundedInduction, TLAPS

-----------------------------------------------------------------------------
(* Lemmas.                                                                 *)

\* A set of numbers that has a bound has a largest one.
LEMMA MaxIsIn ==
  ASSUME NEW n \in Nat, NEW S \in SUBSET (0 .. n), S # {}
  PROVE  Max(S) \in S
<1> DEFINE T == {n - x : x \in S}
           R == {p \in Nat \X Nat : p[1] < p[2]}
<1>1. T \subseteq Nat /\ T # {}
  <2>1. \A x \in S : x \in Nat /\ n - x \in Nat OBVIOUS
  <2>2. T \subseteq Nat BY <2>1
  <2>3. PICK x \in S : TRUE OBVIOUS
  <2>4. n - x \in T OBVIOUS
  <2> QED BY <2>2, <2>4
<1>2. IsWellFoundedOn(R, Nat) BY NatLessThanWellFounded, Zenon DEF OpToRel
<1> HIDE DEF R, T
<1>3. PICK x \in T : \A y \in T : ~ (<<y, x>> \in R) BY <1>1, <1>2, WFMin
<1>4. \A y \in T : ~ (y < x) BY <1>1, <1>3 DEF R
<1>5. PICK m \in S : x = n - m BY <1>3 DEF T
<1>6. \A y \in S : m >= y
  <2> TAKE y \in S
  <2>1. n - y \in T BY DEF T
  <2>2. ~ (n - y < n - m) BY <1>4, <1>5, <2>1
  <2>3. m \in 0 .. n /\ y \in 0 .. n OBVIOUS
  <2> QED BY <2>2, <2>3
<1> QED BY <1>6 DEF Max

Row == [status : Status, number : 0 .. MaxNumber]
Copy == [number : 0 .. MaxNumber, disabled : BOOLEAN]

\* Only what is not a row has no status.
Table == {t \in [Keys -> Row] : \A k \in Keys : t[k].status = "none" => t[k] = NoKey}

\* What the invariant says of one key, its row and the gateway's copy.
Right(row, copy) ==
  copy # Offline =>
    /\ row # NoKey
    /\ copy.number >= row.number
    /\ row.status = "disabled" => copy.disabled

Core ==
  /\ provider \in BOOLEAN /\ skewed \in BOOLEAN /\ missed \in SUBSET Keys
  /\ key \in Table /\ gateway \in [Keys -> Copy]
  /\ \A k \in Keys \ missed : Right(key[k], gateway[k])

IInv == Core /\ seen \in [Requests -> Table \cup {None}]

\* A row that is as it was, new, or moved up and no more disabled than it was.
Raised(row, up) ==
  \/ up = row \/ row = NoKey
  \/ /\ up # NoKey
     /\ up.number <= row.number
     /\ up.status = "disabled" => row.status = "disabled"

\* What the invariant says about.
LEMMA InvType == IInv => TypeOK
BY DEF IInv, Core, Table, TypeOK, Row, Copy

LEMMA InvSafe == IInv => NeverAhead /\ OnlyUsableKeys
BY DEF IInv, Core, Table, Right, Row, Copy, NeverAhead, OnlyUsableKeys, GoneIsOffline,
       DisabledIsUnused, Stored, StoredIn, Online

LEMMA TableForm ==
  ASSUME NEW t \in Table, NEW k \in Keys
  PROVE  /\ t[k] \in Row /\ t[k].number \in 0 .. MaxNumber /\ t[k].number \in Nat
         /\ k \in StoredIn(t) <=> t[k].status # "none"
         /\ k \in StoredIn(t) <=> t[k] # NoKey
<1>1. t[k] \in Row /\ (t[k].status = "none" => t[k] = NoKey) BY DEF Table
<1>2. t[k].number \in 0 .. MaxNumber BY <1>1 DEF Row
<1> QED BY <1>1, <1>2, BoundAssumption DEF StoredIn, NoKey

\* A table with other rows for some of the keys.
LEMMA TableOf ==
  ASSUME NEW t, t = [k \in Keys |-> t[k]],
         \A k \in Keys : t[k] \in Row /\ (t[k].status = "none" => t[k] = NoKey)
  PROVE  t \in Table
BY DEF Table

LEMMA NoKeyOK == NoKey \in Row
BY BoundAssumption DEF NoKey, Row, Status

\* A key is right when it is brought online as its row says, taken offline, or moved
\* up or enabled in the database only.
LEMMA CopyForm ==
  ASSUME NEW row \in Row
  PROVE  NewKey(row) \in Copy /\ Right(row, NewKey(row))
<1>1. row.number \in 0 .. MaxNumber /\ row.number >= row.number
  BY BoundAssumption DEF Row
<1>2. (row.status = "disabled") \in BOOLEAN OBVIOUS
<1>3. NewKey(row) \in Copy BY <1>1, <1>2, Zenon DEF NewKey, Copy
<1>4. NewKey(row).number = row.number /\ (NewKey(row).disabled <=> row.status = "disabled")
  BY Zenon DEF NewKey
<1>5. row = NoKey => NewKey(row) = Offline
  <2>1. SUFFICES ASSUME row = NoKey PROVE NewKey(row) = Offline OBVIOUS
  <2>2. row.number = 0 /\ (row.status = "disabled") = FALSE BY <2>1 DEF NoKey
  <2> QED BY <2>2 DEF NewKey, Offline
<1> HIDE DEF NewKey
<1> QED BY <1>1, <1>3, <1>4, <1>5 DEF Right

LEMMA OfflineForm ==
  ASSUME NEW row
  PROVE  Offline \in Copy /\ Right(row, Offline)
BY BoundAssumption DEF Copy, Offline, Right

LEMMA RaisedForm ==
  ASSUME NEW row \in Row, NEW up \in Row, NEW copy \in Copy, Right(row, copy), Raised(row, up)
  PROVE  Right(up, copy)
<1>1. row.number \in Nat /\ up.number \in Nat /\ copy.number \in Nat
  BY BoundAssumption DEF Row, Copy
<1>2. CASE row = NoKey BY <1>2 DEF Right
<1> QED BY <1>1, <1>2 DEF Right, Raised

-----------------------------------------------------------------------------
(* Transactions.                                                           *)

LEMMA TellStep ==
  ASSUME Core, NEW K \in SUBSET Keys, NEW copies \in [K -> Copy], NEW lost \in SUBSET K,
         NEW wrong \in SUBSET Keys, Tell(K, copies, lost, wrong)
  PROVE  /\ gateway' \in [Keys -> Copy]
         /\ missed' \in SUBSET Keys /\ wrong \subseteq missed'
         /\ \A k \in K : k \notin missed' => gateway'[k] = copies[k]
         /\ \A k \in Keys \ K : gateway'[k] = gateway[k] /\ (k \in missed => k \in missed')
<1>1. /\ gateway' = [k \in Keys |-> IF k \in K \ lost THEN copies[k] ELSE gateway[k]]
      /\ missed' = (missed \ K) \cup lost \cup wrong
  BY DEF Tell
<1>2. gateway \in [Keys -> Copy] /\ missed \in SUBSET Keys BY DEF Core
<1> QED BY <1>1, <1>2

\* What the rows and the copies of a commit must be for the keys to be right after it.
Fits(was, rows, K, copies, untold) ==
  /\ \A k \in K : copies[k] \in {Offline, NewKey(rows[k])} \/ was[k] # key[k]
  /\ \A k \in Keys \ K : was[k] # key[k] \/ k \in untold \/ Raised(key[k], rows[k])

LEMMA WriteStep ==
  ASSUME Core, provider' \in BOOLEAN, NEW was \in Table, NEW rows \in Table,
         NEW untold \in SUBSET Keys, NEW mixed \in BOOLEAN,
         Fits(was, rows, {}, <<>>, untold), Write(was, rows, untold, mixed)
  PROVE  Core'
<1> DEFINE wrong == untold \cup Overwritten(was, rows, {}, <<>>)
<1>1. /\ key' = rows /\ skewed' = (skewed \/ mixed)
      /\ gateway' = [k \in Keys |-> gateway[k]]
      /\ missed' = missed \cup wrong
  BY DEF Write, Tell
<1>2. wrong \subseteq Keys
      /\ \A k \in Keys : was[k] # key[k] /\ rows[k] # key[k] => k \in wrong
  BY DEF Overwritten
<1>3. untold \subseteq wrong OBVIOUS
<1> HIDE DEF wrong
<1>4. gateway' = gateway /\ gateway \in [Keys -> Copy] BY <1>1 DEF Core
<1>5. ASSUME NEW k \in Keys \ missed' PROVE Right(rows[k], gateway[k])
  <2>1. Right(key[k], gateway[k]) BY <1>1 DEF Core
  <2>2. rows[k] = key[k] \/ Raised(key[k], rows[k]) BY <1>1, <1>2, <1>3 DEF Fits
  <2>3. key[k] \in Row /\ rows[k] \in Row /\ gateway[k] \in Copy BY TableForm DEF Core
  <2> QED BY <2>1, <2>2, <2>3, RaisedForm
<1> QED BY <1>1, <1>2, <1>4, <1>5 DEF Core

LEMMA CommitStep ==
  ASSUME Core, provider' \in BOOLEAN, skewed' \in BOOLEAN, NEW was \in Table, NEW rows \in Table,
         NEW K \in SUBSET Keys, NEW copies \in [K -> Copy], NEW lost \in SUBSET K,
         Fits(was, rows, K, copies, {}), key' = rows,
         Tell(K, copies, lost, Overwritten(was, rows, K, copies))
  PROVE  Core'
<1> DEFINE wrong == Overwritten(was, rows, K, copies)
<1>1. /\ wrong \in SUBSET Keys
      /\ \A k \in K : was[k] # key[k] /\ copies[k] \notin {Offline, NewKey(rows[k])} => k \in wrong
      /\ \A k \in Keys \ K : was[k] # key[k] /\ rows[k] # key[k] => k \in wrong
  BY DEF Overwritten
<1>2. Tell(K, copies, lost, wrong) OBVIOUS
<1> HIDE DEF wrong
<1>3. /\ gateway' \in [Keys -> Copy]
      /\ missed' \in SUBSET Keys /\ wrong \subseteq missed'
      /\ \A k \in K : k \notin missed' => gateway'[k] = copies[k]
      /\ \A k \in Keys \ K : gateway'[k] = gateway[k] /\ (k \in missed => k \in missed')
  BY <1>1, <1>2, TellStep
<1>4. ASSUME NEW k \in Keys \ missed' PROVE Right(rows[k], gateway'[k])
  <2>0. rows[k] \in Row BY TableForm
  <2>1. CASE k \in K
    <3>1. gateway'[k] = copies[k] /\ copies[k] \in {Offline, NewKey(rows[k])}
      BY <1>1, <1>3, <2>1 DEF Fits
    <3> QED BY <3>1, <2>0, CopyForm, OfflineForm
  <2>2. CASE k \notin K
    <3>1. gateway'[k] = gateway[k] /\ Right(key[k], gateway[k]) BY <1>3, <2>2 DEF Core
    <3>2. rows[k] = key[k] \/ Raised(key[k], rows[k]) BY <1>1, <1>3, <2>2 DEF Fits
    <3>3. key[k] \in Row /\ gateway[k] \in Copy BY TableForm DEF Core
    <3> QED BY <2>0, <3>1, <3>2, <3>3, RaisedForm
  <2> QED BY <2>1, <2>2
<1> QED BY <1>3, <1>4 DEF Core

LEMMA RollBackStep ==
  ASSUME Core, provider' \in BOOLEAN, NEW K \in SUBSET Keys, NEW copies \in [K -> Copy],
         RollBack(K, copies)
  PROVE  Core'
<1>1. PICK told \in SUBSET K \ {{}} :
        Tell(told, copies, {}, {k \in told : copies[k] \notin {Offline, NewKey(key[k])}})
  BY DEF RollBack
<1>2. key' = key /\ skewed' = skewed BY DEF RollBack
<1> DEFINE wrong == {k \in told : copies[k] \notin {Offline, NewKey(key[k])}}
           some  == [k \in told |-> copies[k]]
<1>3. some \in [told -> Copy] /\ \A k \in told : some[k] = copies[k] OBVIOUS
<1>4. wrong \in SUBSET Keys /\ \A k \in told : copies[k] \in {Offline, NewKey(key[k])} \/ k \in wrong
  OBVIOUS
<1>5. Tell(told, some, {}, wrong)
  <2>1. /\ gateway' = [k \in Keys |-> IF k \in told \ {} THEN copies[k] ELSE gateway[k]]
        /\ missed' = (missed \ told) \cup {} \cup wrong
        /\ Cardinality(missed') <= MaxMissed
    BY <1>1 DEF Tell
  <2>2. gateway' = [k \in Keys |-> IF k \in told \ {} THEN some[k] ELSE gateway[k]]
    BY <1>3, <2>1
  <2> HIDE DEF wrong, some
  <2> QED BY <2>1, <2>2 DEF Tell
<1>6. told \in SUBSET Keys /\ {} \in SUBSET told OBVIOUS
<1> HIDE DEF wrong, some
<1>7. /\ gateway' \in [Keys -> Copy]
      /\ missed' \in SUBSET Keys /\ wrong \subseteq missed'
      /\ \A k \in told : k \notin missed' => gateway'[k] = some[k]
      /\ \A k \in Keys \ told : gateway'[k] = gateway[k] /\ (k \in missed => k \in missed')
  BY <1>3, <1>4, <1>5, <1>6, TellStep
<1>8. ASSUME NEW k \in Keys \ missed' PROVE Right(key[k], gateway'[k])
  <2>1. CASE k \in told
    <3>1. gateway'[k] \in {Offline, NewKey(key[k])} BY <1>3, <1>4, <1>7, <2>1
    <3>2. key[k] \in Row BY TableForm DEF Core
    <3> QED BY <3>1, <3>2, CopyForm, OfflineForm
  <2>2. CASE k \notin told BY <1>7, <2>2 DEF Core
  <2> QED BY <2>1, <2>2
<1> QED BY <1>2, <1>7, <1>8 DEF Core

LEMMA PushStep ==
  ASSUME Core, provider' \in BOOLEAN, NEW was \in Table, NEW rows \in Table, NEW view \in Table,
         NEW K \in SUBSET Keys, NEW mixed \in BOOLEAN,
         \A k \in K : was[k] # key[k] \/ view[k] = rows[k],
         \A k \in Keys \ K : was[k] # key[k] \/ Raised(key[k], rows[k]),
         Push(was, rows, K, view, mixed)
  PROVE  Core'
<1> DEFINE copies == [k \in K |-> NewKey(view[k])]
<1>1. copies \in [K -> Copy]
  <2>1. \A k \in K : NewKey(view[k]) \in Copy BY TableForm, CopyForm
  <2> QED BY <2>1
<1>2. Commit(was, rows, K, copies, mixed) \/ RollBack(K, copies) BY DEF Push
<1>3. Fits(was, rows, K, copies, {}) BY DEF Fits
<1> HIDE DEF copies
<1>4. CASE Commit(was, rows, K, copies, mixed)
  <2>1. key' = rows /\ skewed' = (skewed \/ mixed) BY <1>4 DEF Commit
  <2>2. PICK lost \in {{}, K} : Tell(K, copies, lost, Overwritten(was, rows, K, copies))
    BY <1>4 DEF Commit
  <2>3. lost \in SUBSET K /\ skewed' \in BOOLEAN BY <2>1 DEF Core
  <2> QED BY <1>1, <1>3, <2>1, <2>2, <2>3, CommitStep
<1>5. CASE RollBack(K, copies) BY <1>1, <1>5, RollBackStep
<1> QED BY <1>2, <1>4, <1>5

LEMMA DropStep ==
  ASSUME Core, provider' \in BOOLEAN, NEW was \in Table, NEW rows \in Table,
         NEW k \in Keys, NEW mixed \in BOOLEAN,
         \A j \in Keys \ {k} : was[j] # key[j] \/ Raised(key[j], rows[j]),
         Drop(was, rows, k, mixed)
  PROVE  Core'
<1> DEFINE copies == [j \in {k} |-> Offline]
<1>1. copies \in [{k} -> Copy] /\ {k} \in SUBSET Keys BY OfflineForm
<1>2. Commit(was, rows, {k}, copies, mixed) \/ RollBack({k}, copies) BY DEF Drop
<1>3. Fits(was, rows, {k}, copies, {}) BY DEF Fits
<1> HIDE DEF copies
<1>4. CASE Commit(was, rows, {k}, copies, mixed)
  <2>1. key' = rows /\ skewed' = (skewed \/ mixed) BY <1>4 DEF Commit
  <2>2. PICK lost \in {{}, {k}} : Tell({k}, copies, lost, Overwritten(was, rows, {k}, copies))
    BY <1>4 DEF Commit
  <2>3. lost \in SUBSET {k} /\ skewed' \in BOOLEAN BY <2>1 DEF Core
  <2> QED BY <1>1, <1>3, <2>1, <2>2, <2>3, CommitStep
<1>5. CASE RollBack({k}, copies) BY <1>1, <1>5, RollBackStep
<1> QED BY <1>2, <1>4, <1>5

-----------------------------------------------------------------------------
(* Rows.                                                                   *)

LEMMA SavedForm ==
  ASSUME Core, NEW was \in Table, NEW K \in SUBSET StoredIn(was), NEW s \in Status \ {"none"}
  PROVE  LET rows == Saved(was, K, s)
         IN /\ rows \in Table
            /\ \A k \in K : /\ rows[k] # NoKey /\ rows[k].number = was[k].number
                            /\ rows[k].status = s
            /\ \A k \in Keys \ K : rows[k] = key[k]
<1> DEFINE rows == Saved(was, K, s)
           new(k) == [was[k] EXCEPT !.status = s]
<1>1. rows = [k \in Keys |-> IF k \in K THEN new(k) ELSE key[k]] BY DEF Saved
<1>2. K \subseteq Keys BY DEF StoredIn
<1>3. ASSUME NEW k \in Keys
      PROVE  /\ new(k) \in Row /\ new(k).number = was[k].number /\ new(k).status = s /\ new(k) # NoKey
  <2>1. was[k] \in Row BY TableForm
  <2> QED BY <2>1 DEF Row, NoKey
<1> HIDE DEF new
<1>4. \A k \in Keys : key[k] \in Row /\ (key[k].status = "none" => key[k] = NoKey) BY DEF Core, Table
<1>5. rows = [k \in Keys |-> rows[k]] BY <1>1
<1>6. \A k \in Keys : rows[k] = IF k \in K THEN new(k) ELSE key[k] BY <1>1
<1> HIDE DEF rows
<1>7. \A k \in Keys : rows[k] \in Row /\ (rows[k].status = "none" => rows[k] = NoKey)
  BY <1>3, <1>4, <1>6
<1>8. rows \in Table BY <1>5, <1>7, TableOf
<1>9. \A k \in K : rows[k] # NoKey /\ rows[k].number = was[k].number /\ rows[k].status = s
  BY <1>2, <1>3, <1>6
<1> QED BY <1>6, <1>8, <1>9 DEF rows

\* A row that is saved as it was read is raised, unless it is disabled by that.
LEMMA SavedRaised ==
  ASSUME Core, NEW was \in Table, NEW K \in SUBSET StoredIn(was), NEW s \in Status \ {"none"},
         s = "disabled" => \A k \in K : was[k].status = "disabled"
  PROVE  \A k \in Keys : was[k] # key[k] \/ Raised(key[k], Saved(was, K, s)[k])
<1> DEFINE rows == Saved(was, K, s)
<1>1. /\ \A k \in K : rows[k] # NoKey /\ rows[k].number = was[k].number /\ rows[k].status = s
      /\ \A k \in Keys \ K : rows[k] = key[k]
  BY SavedForm
<1> HIDE DEF rows
<1> SUFFICES ASSUME NEW k \in Keys, was[k] = key[k] PROVE Raised(key[k], rows[k]) BY DEF rows
<1>2. CASE k \in K
  <2>1. key[k].number \in Nat BY TableForm DEF Core
  <2>2. rows[k].number <= key[k].number BY <1>1, <1>2, <2>1
  <2> QED BY <1>1, <1>2, <2>2 DEF Raised
<1>3. CASE k \notin K BY <1>1, <1>3 DEF Raised
<1> QED BY <1>2, <1>3

\* The table t with another row for the key k.
Put(t, k, row, rows) == rows = [t EXCEPT ![k] = row]

LEMMA OneForm ==
  ASSUME NEW t \in Table, NEW k \in Keys, NEW row \in Row, row.status = "none" => row = NoKey,
         NEW rows, Put(t, k, row, rows)
  PROVE  rows \in Table /\ rows[k] = row /\ \A j \in Keys \ {k} : rows[j] = t[j]
<1>1. t \in [Keys -> Row] /\ \A j \in Keys : t[j].status = "none" => t[j] = NoKey
  BY DEF Table
<1>2. rows \in [Keys -> Row] /\ rows[k] = row /\ \A j \in Keys \ {k} : rows[j] = t[j]
  BY <1>1 DEF Put
<1> QED BY <1>1, <1>2 DEF Table

LEMMA NewRow ==
  ASSUME NEW n \in 0 .. MaxNumber, NEW row, row = [status |-> "active", number |-> n]
  PROVE  row \in Row /\ row # NoKey /\ row.status # "none" /\ row.number = n
BY DEF Row, NoKey, Status

LEMMA DefaultForm ==
  ASSUME Core
  PROVE  /\ WithDefault \in Table /\ WithDefault[Default] = [status |-> "active", number |-> 1]
         /\ \A k \in Keys \ {Default} : WithDefault[k] = key[k]
<1> DEFINE row == [status |-> "active", number |-> 1]
<1>1. row \in Row /\ (row.status = "none" => row = NoKey)
  BY BoundAssumption DEF Row, Status
<1>2. WithDefault = [key EXCEPT ![Default] = row] BY DEF WithDefault
<1> HIDE DEF row
<1>3. Default \in Keys BY DefaultAssumption
<1>4. PICK r \in Row : r = row /\ (r.status = "none" => r = NoKey) BY <1>1
<1>5. PICK t \in Table : t = key BY DEF Core
<1>6. PICK rows : Put(t, Default, r, rows) BY DEF Put
<1>7. rows \in Table /\ rows[Default] = r /\ \A j \in Keys \ {Default} : rows[j] = t[j]
  BY <1>3, <1>4, <1>6, OneForm
<1>8. rows = WithDefault BY <1>2, <1>4, <1>5, <1>6 DEF Put
<1> QED BY <1>4, <1>5, <1>7, <1>8 DEF row

\* The keys behind a number moved up.
LEMMA MovedUpForm ==
  ASSUME Core, NEW was \in Table, NEW n \in Nat
  PROVE  LET rows == MovedUp(was, n)
         IN /\ rows \in Table
            /\ \A j \in Keys :
                 IF was[j].number > n
                   THEN rows[j] # NoKey /\ was[j] # NoKey /\ rows[j].number = was[j].number - 1
                   ELSE rows[j] = key[j]
            /\ \A j \in Keys : was[j] # key[j] \/ Raised(key[j], rows[j])
<1> DEFINE rows == MovedUp(was, n)
           up(j) == [was[j] EXCEPT !.number = was[j].number - 1]
<1>1. rows = [j \in Keys |-> IF was[j].number > n THEN up(j) ELSE key[j]] BY DEF MovedUp
<1>2. ASSUME NEW j \in Keys, was[j].number > n
      PROVE  /\ up(j) \in Row /\ up(j).number = was[j].number - 1 /\ up(j).status = was[j].status
             /\ was[j].status # "none" /\ up(j) # NoKey /\ was[j] # NoKey
  <2>1. was[j] \in Row /\ was[j].number \in 1 .. MaxNumber
    BY <1>2, TableForm, BoundAssumption
  <2>2. was[j].status # "none" BY <2>1 DEF Table, NoKey
  <2>3. was[j].number - 1 \in 0 .. MaxNumber BY <2>1, BoundAssumption
  <2> QED BY <2>1, <2>2, <2>3 DEF Row, NoKey
<1> HIDE DEF up
<1>3. \A k \in Keys : key[k] \in Row /\ (key[k].status = "none" => key[k] = NoKey) BY DEF Core, Table
<1>4. rows = [k \in Keys |-> rows[k]] BY <1>1
<1>5. \A j \in Keys : rows[j] = IF was[j].number > n THEN up(j) ELSE key[j] BY <1>1
<1> HIDE DEF rows
<1>6. \A k \in Keys : rows[k] \in Row /\ (rows[k].status = "none" => rows[k] = NoKey)
  BY <1>2, <1>3, <1>5
<1>7. rows \in Table BY <1>4, <1>6, TableOf
<1>8. ASSUME NEW j \in Keys, was[j] = key[j] PROVE Raised(key[j], rows[j])
  <2>1. CASE was[j].number > n
    <3>1. rows[j] # NoKey /\ rows[j].number = key[j].number - 1 /\ rows[j].status = key[j].status
      BY <1>2, <1>5, <1>8, <2>1
    <3>2. key[j].number \in Nat BY TableForm DEF Core
    <3> QED BY <3>1, <3>2 DEF Raised
  <2>2. CASE ~ (was[j].number > n) BY <1>5, <2>2 DEF Raised
  <2> QED BY <2>1, <2>2
<1> QED BY <1>2, <1>5, <1>7, <1>8 DEF rows

\* A sort gives every key a number that a row can have, and leaves the others' rows.
LEMMA ViewForm ==
  ASSUME NEW was \in Table, NEW o \in StoredIn(was) \cup {None}, NEW a \in 0 .. MaxNumber,
         NEW b \in 0 .. MaxNumber, NEW before \in BOOLEAN, Place(a, b, before) <= MaxNumber
  PROVE  LET view == Moved(was, o, a, b, before)
             written == Between(was, a, b, before) \cup {o}
         IN /\ view \in Table
            /\ \A k \in Keys : k \in StoredIn(was) <=> view[k] # NoKey
            /\ \A k \in Keys : k \notin written => view[k] = was[k]
            /\ \A k \in written : k \in Keys => k \in StoredIn(was)
<1> DEFINE room  == Between(was, a, b, before)
           place == Place(a, b, before)
           n(k)  == IF k = o THEN place ELSE IF a < b THEN was[k].number - 1 ELSE was[k].number + 1
           new(k) == [was[k] EXCEPT !.number = n(k)]
           view  == Moved(was, o, a, b, before)
<1>1. place \in 0 .. MaxNumber BY BoundAssumption DEF Place
<1>2. room \subseteq StoredIn(was)
      /\ \A k \in room : IF a < b THEN a < was[k].number ELSE was[k].number < a
  <2>1. room \subseteq StoredIn(was) /\ StoredIn(was) \subseteq Keys BY DEF Between, StoredIn
  <2>2. ASSUME NEW k \in room PROVE IF a < b THEN a < was[k].number ELSE was[k].number < a
    <3>1. was[k].number \in Nat BY <2>1, TableForm
    <3> QED BY <3>1 DEF Between
  <2> QED BY <2>1, <2>2
<1>3. \A k \in Keys : k = o => k \in StoredIn(was) BY NoneAssumption
<1>4. view = [k \in Keys |-> IF k = o \/ k \in room THEN new(k) ELSE was[k]]
  <2> DEFINE f == [k \in Keys |-> IF k = o \/ k \in room THEN new(k) ELSE was[k]]
  <2>1. view = [k \in Keys |->
          IF k = o THEN [was[k] EXCEPT !.number = place]
          ELSE IF k \in room THEN [was[k] EXCEPT !.number = IF a < b THEN was[k].number - 1
                                                                     ELSE was[k].number + 1]
          ELSE was[k]]
    BY DEF Moved
  <2> HIDE DEF view, room, place
  <2> QED BY <2>1
<1> HIDE DEF room, place, view
<1>5. ASSUME NEW k \in Keys, k = o \/ k \in room
      PROVE  new(k) \in Row /\ new(k).status # "none" /\ new(k) # NoKey /\ k \in StoredIn(was)
  <2>1. k \in StoredIn(was) BY <1>2, <1>3, <1>5
  <2>2. was[k] \in Row /\ was[k].status # "none" /\ was[k].number \in 0 .. MaxNumber
    BY <2>1, TableForm
  <2>3. n(k) \in 0 .. MaxNumber BY <1>1, <1>2, <1>5, <2>2, BoundAssumption
  <2> HIDE DEF n
  <2> QED BY <2>1, <2>2, <2>3 DEF Row, NoKey
<1> HIDE DEF new
<1>6. view = [k \in Keys |-> view[k]] BY <1>4
<1>7. \A k \in Keys : view[k] = IF k = o \/ k \in room THEN new(k) ELSE was[k] BY <1>4
<1>8. \A k \in Keys : was[k] \in Row /\ (was[k].status = "none" => was[k] = NoKey) BY DEF Table
<1>9. \A k \in Keys : view[k] \in Row /\ (view[k].status = "none" => view[k] = NoKey)
  BY <1>5, <1>7, <1>8
<1>10. view \in Table BY <1>6, <1>9, TableOf
<1>11. \A k \in Keys : k \in StoredIn(was) <=> view[k] # NoKey BY <1>5, <1>7, TableForm
<1>12. \A k \in room \cup {o} : k \in Keys => k \in StoredIn(was) BY <1>2, <1>3
<1>13. \A k \in Keys : k \notin room \cup {o} => view[k] = was[k] BY <1>7
<1> QED BY <1>10, <1>11, <1>12, <1>13 DEF view, room

LEMMA UpdatedForm ==
  ASSUME Core, NEW view \in Table, NEW written
  PROVE  LET rows == Updated(view, written)
         IN /\ rows \in Table
            /\ \A k \in Keys : rows[k] = IF k \in written /\ k \in Stored THEN view[k] ELSE key[k]
<1> DEFINE rows == Updated(view, written)
<1>1. rows = [k \in Keys |-> IF k \in written \cap Stored THEN view[k] ELSE key[k]] BY DEF Updated
<1>2. \A k \in Keys : /\ key[k] \in Row /\ (key[k].status = "none" => key[k] = NoKey)
                      /\ view[k] \in Row /\ (view[k].status = "none" => view[k] = NoKey)
  BY DEF Core, Table
<1>3. rows = [k \in Keys |-> rows[k]] BY <1>1
<1>4. \A k \in Keys : rows[k] = IF k \in written /\ k \in Stored THEN view[k] ELSE key[k] BY <1>1
<1> HIDE DEF rows
<1>5. \A k \in Keys : rows[k] \in Row /\ (rows[k].status = "none" => rows[k] = NoKey) BY <1>2, <1>4
<1>6. rows \in Table BY <1>3, <1>5, TableOf
<1> QED BY <1>4, <1>6 DEF rows

-----------------------------------------------------------------------------
(* The actions.                                                            *)

LEMMA InitStep == Init => IInv
<1> SUFFICES ASSUME Init PROVE IInv OBVIOUS
<1>1. key = [k \in Keys |-> NoKey] /\ gateway = [k \in Keys |-> Offline] BY DEF Init
<1>2. key \in Table BY <1>1, NoKeyOK DEF Table
<1>3. gateway \in [Keys -> Copy] BY <1>1, OfflineForm
<1>4. \A k \in Keys : Right(key[k], gateway[k]) BY <1>1, OfflineForm
<1>5. seen \in [Requests -> Table \cup {None}] BY DEF Init
<1> QED BY <1>2, <1>3, <1>4, <1>5 DEF Init, IInv, Core

LEMMA BoolForm ==
  \A was, rows : Mixed(was, rows) \in BOOLEAN
BY DEF Mixed

LEMMA ConfigureStep ==
  ASSUME Core, NEW was \in Table, NEW enable \in BOOLEAN, Configure(was, enable)
  PROVE  Core'
<1> DEFINE s     == IF enable THEN "active" ELSE "disabled"
           rows  == IF Default \in StoredIn(was) THEN Saved(was, {Default}, s) ELSE WithDefault
           copies == [k \in {Default} |-> NewKey(rows[k])]
           mixed == Mixed(was, rows)
<1>1. \/ /\ provider' = TRUE
         /\ IF enable THEN Commit(was, rows, {Default}, copies, mixed)
                      ELSE Write(was, rows, {Default}, mixed)
      \/ UNCHANGED provider /\ enable /\ RollBack({Default}, copies)
  BY DEF Configure
<1>2. rows \in Table /\ \A k \in Keys \ {Default} : rows[k] = key[k]
  <2>1. CASE Default \in StoredIn(was)
    <3>1. s \in Status \ {"none"} /\ {Default} \in SUBSET StoredIn(was) BY <2>1 DEF Status
    <3> HIDE DEF s
    <3> QED BY <2>1, <3>1, SavedForm
  <2>2. CASE Default \notin StoredIn(was)
    <3>1. rows = WithDefault BY <2>2
    <3> HIDE DEF rows
    <3> QED BY <3>1, DefaultForm
  <2> QED BY <2>1, <2>2
<1>3. mixed \in BOOLEAN BY BoolForm
<1>4. provider' \in BOOLEAN BY <1>1 DEF Core
<1>5. rows[Default] \in Row BY <1>2, TableForm, DefaultAssumption
<1> HIDE DEF s, rows, mixed
<1>6. copies \in [{Default} -> Copy] /\ {Default} \in SUBSET Keys BY <1>5, CopyForm, DefaultAssumption
<1>7. copies[Default] = NewKey(rows[Default]) OBVIOUS
<1> HIDE DEF copies
<1>8. CASE Commit(was, rows, {Default}, copies, mixed)
  <2>1. Fits(was, rows, {Default}, copies, {}) BY <1>2, <1>7 DEF Fits, Raised
  <2>2. key' = rows /\ skewed' = (skewed \/ mixed) BY <1>8 DEF Commit
  <2>3. PICK lost \in {{}, {Default}} : Tell({Default}, copies, lost, Overwritten(was, rows, {Default}, copies))
    BY <1>8 DEF Commit
  <2>4. lost \in SUBSET {Default} /\ skewed' \in BOOLEAN BY <1>3, <2>2 DEF Core
  <2> QED BY <1>2, <1>4, <1>6, <2>1, <2>2, <2>3, <2>4, CommitStep
<1>9. CASE Write(was, rows, {Default}, mixed)
  <2>1. Fits(was, rows, {}, <<>>, {Default}) BY <1>2 DEF Fits, Raised
  <2> QED BY <1>2, <1>3, <1>4, <1>6, <1>9, <2>1, WriteStep
<1>10. CASE RollBack({Default}, copies) BY <1>4, <1>6, <1>10, RollBackStep
<1> QED BY <1>1, <1>8, <1>9, <1>10

LEMMA EnsureDefaultStep ==
  ASSUME Core, NEW was \in Table, EnsureDefault(was)
  PROVE  Core'
<1>3. WithDefault \in Table /\ \A k \in Keys \ {Default} : WithDefault[k] = key[k]
  BY DefaultForm
<1>4. PICK rows \in Table : rows = WithDefault BY <1>3
<1>5. PICK mixed \in BOOLEAN : mixed = Mixed(was, rows) BY BoolForm
<1>6. Write(was, rows, {}, mixed) /\ provider' = provider BY <1>4, <1>5 DEF EnsureDefault
<1>7. key[Default] = NoKey BY DefaultAssumption DEF EnsureDefault, Stored, StoredIn
<1>8. Fits(was, rows, {}, <<>>, {}) BY <1>3, <1>4, <1>7 DEF Fits, Raised
<1>9. provider' \in BOOLEAN BY <1>6 DEF Core
<1> QED BY <1>6, <1>8, <1>9, WriteStep

LEMMA DeleteProviderStep ==
  ASSUME Core, NEW was \in Table, DeleteProvider(was)
  PROVE  Core'
<1> DEFINE K      == StoredIn(was)
           rows   == [k \in Keys |-> NoKey]
           copies == [k \in K |-> Offline]
<1>1. \/ /\ provider' = FALSE /\ key' = rows /\ skewed' = FALSE
         /\ \E lost \in SUBSET K : Tell(K, copies, lost, Overwritten(was, rows, K, copies))
      \/ UNCHANGED provider /\ RollBack(K, copies)
  BY DEF DeleteProvider
<1>2. rows \in Table BY NoKeyOK DEF Table
<1>3. copies \in [K -> Copy] /\ K \in SUBSET Keys BY OfflineForm DEF StoredIn
<1>4. Fits(was, rows, K, copies, {})
  <2>1. ASSUME NEW k \in Keys \ K, was[k] = key[k] PROVE Raised(key[k], rows[k])
    BY <2>1 DEF StoredIn, Raised
  <2> QED BY <2>1 DEF Fits
<1>5. provider' \in BOOLEAN BY <1>1 DEF Core
<1> HIDE DEF rows, copies, K
<1>6. CASE RollBack(K, copies) BY <1>3, <1>5, <1>6, RollBackStep
<1>7. CASE ~ RollBack(K, copies)
  <2>1. key' = rows /\ skewed' = FALSE BY <1>1, <1>7
  <2>2. PICK lost \in SUBSET K : Tell(K, copies, lost, Overwritten(was, rows, K, copies))
    BY <1>1, <1>7
  <2> QED BY <1>2, <1>3, <1>4, <1>5, <2>1, <2>2, CommitStep
<1> QED BY <1>6, <1>7

LEMMA MaxForm ==
  ASSUME NEW t \in Table, StoredIn(t) # {}
  PROVE  MaxPriority(t) \in 0 .. MaxNumber
<1> DEFINE S == {t[k].number : k \in StoredIn(t)}
<1>1. S \in SUBSET (0 .. MaxNumber) /\ S # {}
  <2>1. \A k \in StoredIn(t) : t[k].number \in 0 .. MaxNumber BY TableForm DEF StoredIn
  <2> QED BY <2>1
<1>2. MaxNumber \in Nat BY BoundAssumption
<1> HIDE DEF S
<1>3. Max(S) \in S BY <1>1, <1>2, MaxIsIn
<1>4. MaxPriority(t) = Max(S) BY DEF MaxPriority, S
<1> QED BY <1>1, <1>3, <1>4

LEMMA CreateStep ==
  ASSUME Core, provider' \in BOOLEAN, NEW was \in Table, NEW k \in Keys, Create(was, k)
  PROVE  Core'
<1>1. StoredIn(was) # {} BY DEF Create
<1>2. \/ /\ k \notin Stored \cup {Default} /\ MaxPriority(was) < MaxNumber
         /\ Push(was, [key EXCEPT ![k] = [status |-> "active", number |-> MaxPriority(was) + 1]],
                 {k}, [key EXCEPT ![k] = [status |-> "active", number |-> MaxPriority(was) + 1]],
                 Stored = {} \/ MaxPriority(was) # MaxPriority(key))
      \/ \E found \in {was, key} : k \in StoredIn(found) /\ Push(was, key, {k}, found, FALSE)
  BY DEF Create
<1>3. CASE \E found \in {was, key} : k \in StoredIn(found) /\ Push(was, key, {k}, found, FALSE)
  <2>1. PICK found \in {was, key} : Push(was, key, {k}, found, FALSE) BY <1>3
  <2>2. key \in Table /\ found \in Table BY <2>1 DEF Core
  <2>3. PICK rows \in Table : rows = key BY <2>2
  <2>4. PICK mixed \in BOOLEAN : mixed = FALSE OBVIOUS
  <2>7. Push(was, rows, {k}, found, mixed) /\ {k} \in SUBSET Keys BY <2>1, <2>3, <2>4
  <2>5. \A j \in {k} : was[j] # key[j] \/ found[j] = rows[j] BY <2>3
  <2>6. \A j \in Keys \ {k} : was[j] # key[j] \/ Raised(key[j], rows[j]) BY <2>3 DEF Raised
  <2> QED BY <2>2, <2>5, <2>6, <2>7, PushStep
<1>4. CASE /\ MaxPriority(was) < MaxNumber
           /\ Push(was, [key EXCEPT ![k] = [status |-> "active", number |-> MaxPriority(was) + 1]],
                   {k}, [key EXCEPT ![k] = [status |-> "active", number |-> MaxPriority(was) + 1]],
                   Stored = {} \/ MaxPriority(was) # MaxPriority(key))
  <2>1. MaxPriority(was) + 1 \in 0 .. MaxNumber BY <1>1, <1>4, MaxForm, BoundAssumption
  <2>2. PICK n \in 0 .. MaxNumber : n = MaxPriority(was) + 1 BY <2>1
  <2>3. PICK row : row = [status |-> "active", number |-> n] OBVIOUS
  <2>4. row \in Row /\ (row.status = "none" => row = NoKey) BY <2>3, NewRow
  <2>0. PICK t \in Table : t = key BY DEF Core
  <2>5. PICK rows : Put(t, k, row, rows) BY DEF Put
  <2>6. rows \in Table /\ rows[k] = row /\ \A j \in Keys \ {k} : rows[j] = t[j]
    BY <2>4, <2>5, OneForm
  <2>7. PICK mixed \in BOOLEAN : mixed = (Stored = {} \/ MaxPriority(was) # MaxPriority(key))
    OBVIOUS
  <2>8. Push(was, rows, {k}, rows, mixed) /\ {k} \in SUBSET Keys
    BY <1>4, <2>0, <2>2, <2>3, <2>5, <2>7 DEF Put
  <2>9. \A j \in Keys \ {k} : was[j] # key[j] \/ Raised(key[j], rows[j])
    BY <2>0, <2>6 DEF Raised
  <2> QED BY <2>6, <2>8, <2>9, PushStep
<1> QED BY <1>2, <1>3, <1>4

\* Edit, Enable and HandleMessage: rows are saved that no one is told of.
LEMMA SavedStep ==
  ASSUME Core, provider' \in BOOLEAN, NEW was \in Table, NEW K \in SUBSET StoredIn(was),
         NEW s \in Status \ {"none"}, s = "disabled" => \A k \in K : was[k].status = "disabled",
         Write(was, Saved(was, K, s), {}, Mixed(was, Saved(was, K, s)))
  PROVE  Core'
<1>1. Saved(was, K, s) \in Table BY SavedForm
<1>2. PICK rows \in Table : rows = Saved(was, K, s) BY <1>1
<1>3. PICK mixed \in BOOLEAN : mixed = Mixed(was, rows) BY BoolForm
<1>4. Write(was, rows, {}, mixed) BY <1>2, <1>3
<1>5. \A k \in Keys : was[k] # key[k] \/ Raised(key[k], rows[k]) BY <1>2, SavedRaised
<1>6. Fits(was, rows, {}, <<>>, {}) BY <1>5 DEF Fits
<1> QED BY <1>4, <1>6, WriteStep

LEMMA SavedPushStep ==
  ASSUME Core, provider' \in BOOLEAN, NEW was \in Table, NEW k \in StoredIn(was),
         NEW s \in Status \ {"none"},
         Push(was, Saved(was, {k}, s), {k}, Saved(was, {k}, s), Mixed(was, Saved(was, {k}, s)))
  PROVE  Core'
<1>1. {k} \in SUBSET StoredIn(was) /\ k \in Keys BY DEF StoredIn
<1>2. Saved(was, {k}, s) \in Table /\ \A j \in Keys \ {k} : Saved(was, {k}, s)[j] = key[j]
  BY <1>1, SavedForm
<1>3. PICK rows \in Table : rows = Saved(was, {k}, s) BY <1>2
<1>4. PICK mixed \in BOOLEAN : mixed = Mixed(was, rows) BY BoolForm
<1>5. Push(was, rows, {k}, rows, mixed) BY <1>3, <1>4
<1>6. \A j \in Keys \ {k} : was[j] # key[j] \/ Raised(key[j], rows[j])
  BY <1>2, <1>3 DEF Raised
<1>7. {k} \in SUBSET Keys BY <1>1
<1> QED BY <1>5, <1>6, <1>7, PushStep

LEMMA EditStep ==
  ASSUME Core, provider' \in BOOLEAN, NEW was \in Table, NEW k \in Keys, Edit(was, k)
  PROVE  Core'
<1>1. k \in StoredIn(was) BY DEF Edit
<1>2. was[k].status \in Status \ {"none"} BY <1>1, TableForm DEF Row
<1>3. PICK s \in Status \ {"none"} : s = was[k].status BY <1>2
<1>4. \/ Write(was, Saved(was, {k}, s), {}, Mixed(was, Saved(was, {k}, s)))
      \/ Push(was, Saved(was, {k}, s), {k}, Saved(was, {k}, s), Mixed(was, Saved(was, {k}, s)))
  BY <1>3 DEF Edit
<1>5. {k} \in SUBSET StoredIn(was) BY <1>1
<1>6. s = "disabled" => \A j \in {k} : was[j].status = "disabled" BY <1>3
<1> QED BY <1>1, <1>4, <1>5, <1>6, SavedStep, SavedPushStep

LEMMA EnableStep ==
  ASSUME Core, provider' \in BOOLEAN, NEW was \in Table, NEW k \in Keys, Enable(was, k)
  PROVE  Core'
<1>1. k \in StoredIn(was) /\ {k} \in SUBSET StoredIn(was) BY DEF Enable
<1>2. PICK s \in Status \ {"none"} : s = "active" BY DEF Status
<1>3. \/ Write(was, Saved(was, {k}, s), {}, Mixed(was, Saved(was, {k}, s)))
      \/ Push(was, Saved(was, {k}, s), {k}, Saved(was, {k}, s), Mixed(was, Saved(was, {k}, s)))
  BY <1>2 DEF Enable
<1>4. s # "disabled" BY <1>2
<1> QED BY <1>1, <1>3, <1>4, SavedStep, SavedPushStep

LEMMA HandleMessageStep ==
  ASSUME Core, provider' \in BOOLEAN, NEW was \in Table, NEW K \in SUBSET Keys,
         HandleMessage(was, K)
  PROVE  Core'
<1>1. PICK s \in Status \ {"none"} : s = "active" BY DEF Status
<1>2. K \in SUBSET StoredIn(was) /\ Write(was, Saved(was, K, s), {}, Mixed(was, Saved(was, K, s)))
  BY <1>1 DEF HandleMessage
<1>3. s # "disabled" BY <1>1
<1> QED BY <1>2, <1>3, SavedStep

LEMMA DisableStep ==
  ASSUME Core, provider' \in BOOLEAN, NEW was \in Table, NEW k \in Keys, Disable(was, k)
  PROVE  Core'
<1>1. PICK s \in Status \ {"none"} : s = "disabled" BY DEF Status
<1>2. k \in StoredIn(was) /\ Drop(was, Saved(was, {k}, s), k, Mixed(was, Saved(was, {k}, s)))
  BY <1>1 DEF Disable
<1>3. Saved(was, {k}, s) \in Table /\ \A j \in Keys \ {k} : Saved(was, {k}, s)[j] = key[j]
  <2>1. {k} \in SUBSET StoredIn(was) BY <1>2
  <2> QED BY <2>1, SavedForm
<1>4. PICK rows \in Table : rows = Saved(was, {k}, s) BY <1>3
<1>5. PICK mixed \in BOOLEAN : mixed = Mixed(was, rows) BY BoolForm
<1>6. Drop(was, rows, k, mixed) BY <1>2, <1>4, <1>5
<1>7. \A j \in Keys \ {k} : was[j] # key[j] \/ Raised(key[j], rows[j])
  BY <1>3, <1>4 DEF Raised
<1> QED BY <1>6, <1>7, DropStep

\* The rows after a deletion.
LEMMA WithoutForm ==
  ASSUME NEW t \in Table, NEW k \in Keys, NEW rows, Put(t, k, NoKey, rows)
  PROVE  rows \in Table /\ rows[k] = NoKey /\ \A j \in Keys \ {k} : rows[j] = t[j]
BY NoKeyOK, OneForm

LEMMA DeleteKeyStep ==
  ASSUME Core, provider' \in BOOLEAN, NEW was \in Table, NEW k \in Keys, DeleteKey(was, k)
  PROVE  Core'
<1>1. PICK n \in Nat : n = was[k].number BY TableForm
<1>2. MovedUp(was, n) \in Table
      /\ \A j \in Keys : was[j] # key[j] \/ Raised(key[j], MovedUp(was, n)[j])
  BY MovedUpForm
<1>3. PICK up \in Table : up = MovedUp(was, n) BY <1>2
<1>4. PICK rows : Put(up, k, NoKey, rows) BY DEF Put
<1>5. rows \in Table /\ rows[k] = NoKey /\ \A j \in Keys \ {k} : rows[j] = up[j]
  BY <1>4, WithoutForm
<1>6. PICK mixed \in BOOLEAN : mixed = Mixed(was, rows) BY BoolForm
<1>7. Drop(was, rows, k, mixed) BY <1>1, <1>3, <1>4, <1>6 DEF DeleteKey, Put
<1>8. \A j \in Keys \ {k} : was[j] # key[j] \/ Raised(key[j], rows[j]) BY <1>2, <1>3, <1>5
<1> QED BY <1>5, <1>7, <1>8, DropStep

LEMMA DeleteForeignStep ==
  ASSUME Core, provider' \in BOOLEAN, NEW was \in Table, NEW n \in Foreign, DeleteForeign(was, n)
  PROVE  Core'
<1>1. n \in Nat BY ForeignAssumption, BoundAssumption
<1>2. MovedUp(was, n) \in Table
      /\ \A j \in Keys : was[j] # key[j] \/ Raised(key[j], MovedUp(was, n)[j])
  BY <1>1, MovedUpForm
<1>3. PICK rows \in Table : rows = MovedUp(was, n) BY <1>2
<1>4. PICK mixed \in BOOLEAN : mixed = (Numbers(rows) # Numbers(key)) OBVIOUS
<1>5. Write(was, rows, {}, mixed) BY <1>3, <1>4 DEF DeleteForeign
<1>6. Fits(was, rows, {}, <<>>, {}) BY <1>2, <1>3 DEF Fits
<1> QED BY <1>5, <1>6, WriteStep

\* Sort and SortForeign.
LEMMA MovedStep ==
  ASSUME Core, provider' \in BOOLEAN, NEW was \in Table, NEW o \in StoredIn(was) \cup {None},
         NEW a \in 0 .. MaxNumber, NEW b \in 0 .. MaxNumber, NEW before \in BOOLEAN,
         Place(a, b, before) <= MaxNumber, NEW mixed \in BOOLEAN,
         Push(was, Updated(Moved(was, o, a, b, before), Between(was, a, b, before) \cup {o}),
              StoredIn(was), Moved(was, o, a, b, before), mixed)
  PROVE  Core'
<1>1. PICK view : view = Moved(was, o, a, b, before) OBVIOUS
<1>2. PICK written : written = Between(was, a, b, before) \cup {o} OBVIOUS
<1>3. /\ view \in Table
      /\ \A k \in Keys : k \in StoredIn(was) <=> view[k] # NoKey
      /\ \A k \in Keys : k \notin written => view[k] = was[k]
      /\ \A k \in written : k \in Keys => k \in StoredIn(was)
  BY <1>1, <1>2, ViewForm
<1>4. PICK rows : rows = Updated(view, written) OBVIOUS
<1>5. /\ rows \in Table
      /\ \A k \in Keys : rows[k] = IF k \in written /\ k \in Stored THEN view[k] ELSE key[k]
  BY <1>3, <1>4, UpdatedForm
<1>6. StoredIn(was) \in SUBSET Keys BY DEF StoredIn
<1>7. \A k \in StoredIn(was) : was[k] # key[k] \/ view[k] = rows[k]
  BY <1>3, <1>5, <1>6 DEF Stored, StoredIn
<1>8. \A k \in Keys \ StoredIn(was) : was[k] # key[k] \/ Raised(key[k], rows[k])
  BY <1>3, <1>5 DEF Raised
<1>9. Push(was, rows, StoredIn(was), view, mixed) BY <1>1, <1>2, <1>4
<1> QED BY <1>3, <1>5, <1>6, <1>7, <1>8, <1>9, PushStep

\* The number of the key that is moved.
LEMMA MovedPlace ==
  ASSUME NEW was, NEW o \in Keys, NEW a, NEW b, NEW before
  PROVE  was[o] \in Row => Moved(was, o, a, b, before)[o].number = Place(a, b, before)
<1>1. Moved(was, o, a, b, before)[o] = [was[o] EXCEPT !.number = Place(a, b, before)] BY DEF Moved
<1> QED BY <1>1 DEF Row

LEMMA SortStep ==
  ASSUME Core, provider' \in BOOLEAN, NEW was \in Table, NEW o \in Keys, NEW t \in Keys,
         NEW before \in BOOLEAN, Sort(was, o, t, before)
  PROVE  Core'
<1>1. o \in StoredIn(was) \cup {None} /\ o \in Keys /\ t \in Keys BY DEF Sort
<1>2. PICK a \in 0 .. MaxNumber, b \in 0 .. MaxNumber : a = was[o].number /\ b = was[t].number
  BY <1>1, TableForm
<1>3. Place(a, b, before) <= MaxNumber
  <2>1. was[o] \in Row BY TableForm
  <2>2. Sorted(was, o, t, before)[o].number <= MaxNumber BY DEF Sort
  <2>3. Moved(was, o, a, b, before)[o].number <= MaxNumber BY <1>2, <2>2 DEF Sorted
  <2> QED BY <2>1, <2>3, MovedPlace
<1> DEFINE rows == Updated(Moved(was, o, a, b, before), Between(was, a, b, before) \cup {o})
<1>4. PICK mixed \in BOOLEAN : mixed = ((o = t /\ ~ before) \/ Mixed(was, rows))
  BY BoolForm
<1>5. Push(was, rows, StoredIn(was), Moved(was, o, a, b, before), mixed)
  BY <1>2, <1>4 DEF Sort, Sorted
<1> QED BY <1>1, <1>3, <1>5, MovedStep

LEMMA SortForeignStep ==
  ASSUME Core, provider' \in BOOLEAN, NEW was \in Table, NEW o \in StoredIn(was) \cup {None},
         NEW a \in 0 .. MaxNumber, NEW b \in 0 .. MaxNumber, NEW before \in BOOLEAN,
         SortForeign(was, o, a, b, before)
  PROVE  Core'
<1> DEFINE rows == Updated(Moved(was, o, a, b, before), Between(was, a, b, before) \cup {o})
<1>1. PICK mixed \in BOOLEAN : mixed = (Numbers(rows) # Numbers(key)) OBVIOUS
<1>2. Push(was, rows, StoredIn(was), Moved(was, o, a, b, before), mixed)
      /\ Place(a, b, before) <= MaxNumber
  BY <1>1 DEF SortForeign
<1> QED BY <1>2, MovedStep

\* A key whose change the gateway is not told of.
LEMMA UntoldStep ==
  ASSUME Core, provider' \in BOOLEAN, NEW was \in Table, NEW rows \in Table, NEW k \in Keys,
         NEW mixed \in BOOLEAN, \A j \in Keys \ {k} : rows[j] = key[j],
         Write(was, rows, {k}, mixed)
  PROVE  Core'
<1>1. Fits(was, rows, {}, <<>>, {k}) BY DEF Fits, Raised
<1>2. {k} \in SUBSET Keys OBVIOUS
<1> QED BY <1>1, <1>2, WriteStep

LEMMA StoredTest ==
  ASSUME NEW k PROVE (k \in Stored) \in BOOLEAN
<1>1. CASE k \in Stored BY <1>1
<1>2. CASE k \notin Stored BY <1>2
<1> QED BY <1>1, <1>2

LEMMA RenumberedRow ==
  ASSUME NEW was \in Table, NEW k \in StoredIn(was), NEW n \in Foreign
  PROVE  [was EXCEPT ![k].number = n] \in Table
<1>1. PICK view : view = [was EXCEPT ![k].number = n] OBVIOUS
<1>2. was \in [Keys -> Row] /\ was[k].status # "none" /\ k \in Keys
      /\ \A j \in Keys : was[j].status = "none" => was[j] = NoKey
  BY TableForm DEF Table, StoredIn
<1>3. n \in 0 .. MaxNumber BY ForeignAssumption, BoundAssumption
<1>4. view \in [Keys -> Row] BY <1>1, <1>2, <1>3 DEF Row
<1>5. view[k].status = was[k].status /\ \A j \in Keys \ {k} : view[j] = was[j]
  BY <1>1, <1>2 DEF Row
<1>6. view \in Table BY <1>2, <1>4, <1>5 DEF Table
<1> QED BY <1>1, <1>6

LEMMA ElsewhereStep ==
  ASSUME Core, provider' \in BOOLEAN, NEW was \in Table, NEW k \in Keys, Elsewhere(was, k)
  PROVE  Core'
<1>1. k \in StoredIn(was) /\ {k} \in SUBSET StoredIn(was) BY DEF Elsewhere
<1>2. CASE Write(was, Saved(was, {k}, "disabled"), {k}, Mixed(was, Saved(was, {k}, "disabled")))
  <2>1. PICK s \in Status \ {"none"} : s = "disabled" BY DEF Status
  <2>2. Saved(was, {k}, s) \in Table /\ \A j \in Keys \ {k} : Saved(was, {k}, s)[j] = key[j]
    BY <1>1, SavedForm
  <2>3. PICK rows \in Table : rows = Saved(was, {k}, s) BY <2>2
  <2>4. PICK mixed \in BOOLEAN : mixed = Mixed(was, rows) BY BoolForm
  <2>5. Write(was, rows, {k}, mixed) BY <1>2, <2>1, <2>3, <2>4
  <2> QED BY <2>2, <2>3, <2>5, UntoldStep
<1>3. CASE Write(was, [key EXCEPT ![k] = NoKey], {k}, k \in Stored)
  <2>1. PICK t \in Table : t = key BY DEF Core
  <2>2. PICK rows : Put(t, k, NoKey, rows) BY DEF Put
  <2>3. rows \in Table /\ \A j \in Keys \ {k} : rows[j] = t[j] BY <2>2, WithoutForm
  <2>4. PICK mixed \in BOOLEAN : mixed = (k \in Stored) BY StoredTest
  <2>5. Write(was, rows, {k}, mixed) BY <1>3, <2>1, <2>2, <2>4 DEF Put
  <2> QED BY <2>1, <2>3, <2>5, UntoldStep
<1>4. ASSUME NEW n \in Foreign,
             Write(was, Updated([was EXCEPT ![k].number = n], {k}), {k},
                   Numbers(Updated([was EXCEPT ![k].number = n], {k})) # Numbers(key))
      PROVE  Core'
  <2>1. PICK view \in Table : view = [was EXCEPT ![k].number = n] BY <1>1, RenumberedRow
  <2>3. PICK rows : rows = Updated(view, {k}) OBVIOUS
  <2>4. /\ rows \in Table
        /\ \A j \in Keys : rows[j] = IF j \in {k} /\ j \in Stored THEN view[j] ELSE key[j]
    BY <2>1, <2>3, UpdatedForm
  <2>5. PICK mixed \in BOOLEAN : mixed = (Numbers(rows) # Numbers(key)) OBVIOUS
  <2>6. Write(was, rows, {k}, mixed) BY <1>4, <2>1, <2>3, <2>5
  <2> QED BY <2>4, <2>6, UntoldStep
<1> QED BY <1>2, <1>3, <1>4 DEF Elsewhere

LEMMA RequestStep ==
  ASSUME Core, NEW was \in Table, Request(was)
  PROVE  Core'
<1>1. provider' \in BOOLEAN BY DEF Request, Core
<1>2. ASSUME NEW k \in Keys, \/ Create(was, k) \/ Edit(was, k) \/ DeleteKey(was, k)
                             \/ Disable(was, k) \/ Enable(was, k)
      PROVE  Core'
  BY <1>1, <1>2, CreateStep, EditStep, DeleteKeyStep, DisableStep, EnableStep
<1>3. ASSUME NEW o \in Keys, NEW t \in Keys, NEW before \in BOOLEAN, Sort(was, o, t, before)
      PROVE  Core'
  BY <1>1, <1>3, SortStep
<1> QED BY <1>2, <1>3 DEF Request

LEMMA ForeignNumber == \A n \in Foreign : n \in 0 .. MaxNumber
BY ForeignAssumption, BoundAssumption

LEMMA MisdirectedStep ==
  ASSUME Core, NEW was \in Table, Misdirected(was)
  PROVE  Core'
<1>1. provider' \in BOOLEAN BY DEF Misdirected, Core
<1>2. ASSUME NEW k \in Keys, Elsewhere(was, k) PROVE Core' BY <1>1, <1>2, ElsewhereStep
<1>3. ASSUME NEW n \in Foreign, DeleteForeign(was, n) PROVE Core' BY <1>1, <1>3, DeleteForeignStep
<1>4. ASSUME NEW n \in Foreign, NEW before \in BOOLEAN, NEW k \in StoredIn(was),
             \/ SortForeign(was, None, n, was[k].number, before)
             \/ SortForeign(was, k, was[k].number, n, before)
      PROVE  Core'
  <2>1. n \in 0 .. MaxNumber /\ was[k].number \in 0 .. MaxNumber
    BY ForeignNumber, TableForm DEF StoredIn
  <2>2. None \in StoredIn(was) \cup {None} /\ k \in StoredIn(was) \cup {None} OBVIOUS
  <2> QED BY <1>1, <1>4, <2>1, <2>2, SortForeignStep
<1>5. ASSUME NEW n \in Foreign, NEW before \in BOOLEAN, NEW m \in Foreign,
             SortForeign(was, None, m, n, before)
      PROVE  Core'
  <2>1. n \in 0 .. MaxNumber /\ m \in 0 .. MaxNumber BY ForeignNumber
  <2>2. None \in StoredIn(was) \cup {None} OBVIOUS
  <2> QED BY <1>1, <1>5, <2>1, <2>2, SortForeignStep
<1> QED BY <1>2, <1>3, <1>4, <1>5 DEF Misdirected

\* What any request, message or reader of the rows does with the rows was.
Work(was) ==
  \/ Request(was) \/ EnsureDefault(was) \/ DeleteProvider(was) \/ Misdirected(was)
  \/ Configured(was) \/ Reported(was)

LEMMA WorkStep ==
  ASSUME Core, NEW was \in Table, Work(was)
  PROVE  Core'
<1>1. ASSUME Configured(was) PROVE Core' BY <1>1, ConfigureStep DEF Configured
<1>2. ASSUME Reported(was) PROVE Core'
  <2>1. provider' \in BOOLEAN BY <1>2 DEF Reported, Core
  <2> QED BY <1>2, <2>1, HandleMessageStep DEF Reported
<1> QED BY <1>1, <1>2, RequestStep, EnsureDefaultStep, DeleteProviderStep, MisdirectedStep DEF Work

\* A step leaves what the requests have read as it is, but for one that reads, or is done.
LEMMA NextForm ==
  ASSUME Next
  PROVE  \/ AddProvider /\ seen' = seen
         \/ Work(key) /\ seen' = seen
         \/ \E r \in Requests :
              \/ Read(r) \/ Fail(r)
              \/ seen[r] # None /\ Work(seen[r]) /\ Done(r)
BY DEF Next, Work

LEMMA NextStep == IInv /\ [Next]_vars => IInv'
<1> SUFFICES ASSUME IInv, [Next]_vars PROVE IInv' OBVIOUS
<1>1. Core /\ key \in Table /\ seen \in [Requests -> Table \cup {None}] BY DEF IInv, Core
<1>2. CASE UNCHANGED vars BY <1>1, <1>2 DEF vars, IInv, Core
<1>3. CASE Next
  <2>1. CASE AddProvider /\ seen' = seen
    <3>1. Core' BY <1>1, <2>1 DEF AddProvider, Core
    <3> QED BY <1>1, <2>1, <3>1 DEF IInv
  <2>2. CASE Work(key) /\ seen' = seen
    <3>1. PICK was \in Table : was = key BY <1>1
    <3>2. Work(was) BY <2>2, <3>1
    <3>3. Core' BY <1>1, <3>2, WorkStep
    <3> QED BY <1>1, <2>2, <3>3 DEF IInv
  <2>3. ASSUME NEW r \in Requests, Read(r) PROVE IInv'
    <3>1. Core' BY <1>1, <2>3 DEF Read, Core
    <3>2. seen' \in [Requests -> Table \cup {None}] BY <1>1, <2>3 DEF Read
    <3> QED BY <3>1, <3>2 DEF IInv
  <2>4. ASSUME NEW r \in Requests, Fail(r) PROVE IInv'
    <3>1. Core' BY <1>1, <2>4 DEF Fail, Core
    <3>2. seen' \in [Requests -> Table \cup {None}] BY <1>1, <2>4 DEF Fail, Done
    <3> QED BY <3>1, <3>2 DEF IInv
  <2>5. ASSUME NEW r \in Requests, seen[r] # None, Work(seen[r]), Done(r) PROVE IInv'
    <3>1. PICK was \in Table : was = seen[r] BY <1>1, <2>5
    <3>2. Work(was) BY <2>5, <3>1
    <3>3. Core' BY <1>1, <3>2, WorkStep
    <3>4. seen' \in [Requests -> Table \cup {None}] BY <1>1, <2>5 DEF Done
    <3> QED BY <3>3, <3>4 DEF IInv
  <2> QED BY <1>3, <2>1, <2>2, <2>3, <2>4, <2>5, NextForm
<1> QED BY <1>2, <1>3

-----------------------------------------------------------------------------
\* The rows, the copies and what the gateway has missed go together in every state.
THEOREM Kept == Spec => []IInv
<1>1. Init => IInv BY InitStep
<1>2. IInv /\ [Next]_vars => IInv' BY NextStep
<1> QED BY <1>1, <1>2, PTL DEF Spec

THEOREM TypeCorrect == Spec => []TypeOK
<1>1. IInv => TypeOK BY InvType
<1> QED BY <1>1, Kept, PTL

THEOREM NeverBetter == Spec => []NeverAhead
<1>1. IInv => NeverAhead BY InvSafe
<1> QED BY <1>1, Kept, PTL

THEOREM NotUsed == Spec => []OnlyUsableKeys
<1>1. IInv => OnlyUsableKeys BY InvSafe
<1> QED BY <1>1, Kept, PTL

-----------------------------------------------------------------------------
(* The numbering.                                                          *)

\* The keys of the provider have the numbers 1 .. n, one each.
Numbered(n) ==
  /\ \A k \in Stored : key[k].number \in 1 .. n
  /\ \A i \in 1 .. n : \E k \in Stored : key[k].number = i
  /\ \A j, k \in Stored : key[j].number = key[k].number => j = k

\* While the provider has keys its own is one of them.
DenseInv ==
  ~ skewed => /\ Stored = {} \/ Default \in Stored
              /\ \E n \in Nat : Numbered(n)

\* The same keys with the same numbers.
Same(t, u) == StoredIn(u) = StoredIn(t) /\ \A k \in StoredIn(t) : u[k].number = t[k].number

LEMMA NumbersForm ==
  ASSUME NEW t \in Table, NEW u \in Table, Numbers(u) = Numbers(t)
  PROVE  Same(t, u)
<1>1. DOMAIN Numbers(t) = StoredIn(t) /\ DOMAIN Numbers(u) = StoredIn(u) BY DEF Numbers
<1>2. StoredIn(u) = StoredIn(t) BY <1>1
<1>3. \A k \in StoredIn(t) : Numbers(t)[k] = t[k].number /\ Numbers(u)[k] = u[k].number
  BY <1>2 DEF Numbers
<1> QED BY <1>2, <1>3 DEF Same

\* Numbers that are not mixed are as they were, or rest on those of the table.
LEMMA MixedForm ==
  ASSUME Core, NEW was \in Table, NEW rows \in Table, ~ Mixed(was, rows)
  PROVE  Same(key, rows) \/ Same(key, was)
<1>1. PICK t \in Table : t = key BY DEF Core
<1>2. Numbers(rows) = Numbers(t) \/ Numbers(was) = Numbers(t) BY <1>1 DEF Mixed
<1>3. Same(t, rows) \/ Same(t, was) BY <1>2, NumbersForm
<1> QED BY <1>1, <1>3

\* What a step does to the numbers while it does not mix them up.
FirstNum == Stored = {} /\ Stored' = {Default} /\ key'[Default].number = 1

LastNum(k) ==
  /\ k \in Keys \ Stored /\ Stored # {} /\ Stored' = Stored \cup {k}
  /\ key'[k].number = MaxPriority(key) + 1
  /\ \A j \in Stored : key'[j].number = key[j].number

LessNum(k) ==
  /\ k \in Stored \ {Default} /\ Stored' = Stored \ {k}
  /\ \A j \in Stored \ {k} : key'[j].number =
       IF key[j].number > key[k].number THEN key[j].number - 1 ELSE key[j].number

SortNum(o, t, before) ==
  /\ o \in Stored /\ t \in Stored /\ (o # t \/ before) /\ Stored' = Stored
  /\ \A k \in Stored : key'[k].number = Sorted(key, o, t, before)[k].number

Renumbered ==
  \/ Stored' = {}
  \/ /\ ~ skewed
     /\ \/ Same(key, key') \/ FirstNum
        \/ \E k \in Keys : LastNum(k) \/ LessNum(k)
        \/ \E o, t \in Keys, before \in BOOLEAN : SortNum(o, t, before)

-----------------------------------------------------------------------------
(* What the operations do to the numbers.                                  *)

\* The rows that a step writes, and how numbers get mixed up; or nothing is written.
Took(rows, mixed) == key' = rows /\ skewed' = (skewed \/ mixed)
Left == key' = key /\ skewed' = skewed

LEMMA LeftNum == Left /\ ~ skewed' => Renumbered
BY DEF Left, Renumbered, Same

LEMMA SavedNum ==
  ASSUME Core, ~ skewed', NEW was \in Table, NEW K \in SUBSET StoredIn(was),
         NEW s \in Status \ {"none"},
         Left \/ Took(Saved(was, K, s), Mixed(was, Saved(was, K, s)))
  PROVE  Renumbered
<1>1. CASE Left BY <1>1, LeftNum
<1>2. CASE Took(Saved(was, K, s), Mixed(was, Saved(was, K, s)))
  <2>1. /\ Saved(was, K, s) \in Table
        /\ \A k \in K : Saved(was, K, s)[k] # NoKey /\ Saved(was, K, s)[k].number = was[k].number
        /\ \A k \in Keys \ K : Saved(was, K, s)[k] = key[k]
    BY SavedForm
  <2>2. PICK rows \in Table : rows = Saved(was, K, s) BY <2>1
  <2>3. /\ \A k \in K : rows[k] # NoKey /\ rows[k].number = was[k].number
        /\ \A k \in Keys \ K : rows[k] = key[k]
    BY <2>1, <2>2
  <2>4. key' = rows /\ ~ skewed /\ ~ Mixed(was, rows) BY <1>2, <2>2 DEF Took
  <2>5. Same(key, rows) \/ Same(key, was) BY <2>4, MixedForm
  <2>6. Same(key, rows)
    <3>1. CASE Same(key, was)
      <4>1. K \subseteq Stored /\ \A k \in K : rows[k].number = key[k].number
        BY <2>3, <3>1 DEF Same, Stored
      <4>2. StoredIn(rows) = StoredIn(key) BY <2>3, <4>1 DEF Stored, StoredIn
      <4>3. \A k \in StoredIn(key) : rows[k].number = key[k].number
        BY <2>3, <4>1 DEF StoredIn
      <4> QED BY <4>2, <4>3 DEF Same
    <3> QED BY <2>5, <3>1
  <2> QED BY <2>4, <2>6 DEF Renumbered
<1> QED BY <1>1, <1>2

LEMMA DefaultNum ==
  ASSUME Core, DenseInv, ~ skewed, Default \notin Stored, key' = WithDefault
  PROVE  Renumbered
<1>1. Stored = {} BY DEF DenseInv
<1>2. /\ key'[Default] = [status |-> "active", number |-> 1]
      /\ \A k \in Keys \ {Default} : key'[k] = key[k]
  BY DefaultForm
<1>3. key'[Default].number = 1 /\ key'[Default] # NoKey BY <1>2 DEF NoKey
<1>4. Stored' = {Default} BY <1>1, <1>2, <1>3, DefaultAssumption DEF Stored, StoredIn
<1> QED BY <1>1, <1>3, <1>4 DEF FirstNum, Renumbered

LEMMA ConfigureNum ==
  ASSUME Core, DenseInv, ~ skewed', NEW was \in Table, NEW enable \in BOOLEAN, Configure(was, enable)
  PROVE  Renumbered
<1>1. PICK s \in Status \ {"none"} : s = IF enable THEN "active" ELSE "disabled" BY DEF Status
<1>2. Default \in Stored => Default \in StoredIn(was) BY DEF Configure
<1>3. CASE Default \in StoredIn(was)
  <2>1. Left \/ Took(Saved(was, {Default}, s), Mixed(was, Saved(was, {Default}, s)))
    BY <1>1, <1>3 DEF Configure, Commit, Write, RollBack, Left, Took
  <2>2. {Default} \in SUBSET StoredIn(was) BY <1>3
  <2> QED BY <2>1, <2>2, SavedNum
<1>4. CASE Default \notin StoredIn(was)
  <2>1. Left \/ Took(WithDefault, Mixed(was, WithDefault))
    BY <1>4 DEF Configure, Commit, Write, RollBack, Left, Took
  <2>2. CASE Took(WithDefault, Mixed(was, WithDefault))
    <3>1. ~ skewed /\ key' = WithDefault BY <2>2 DEF Took
    <3> QED BY <1>2, <1>4, <3>1, DefaultNum
  <2> QED BY <2>1, <2>2, LeftNum
<1> QED BY <1>3, <1>4

LEMMA EnsureDefaultNum ==
  ASSUME Core, DenseInv, ~ skewed', NEW was \in Table, EnsureDefault(was)
  PROVE  Renumbered
<1>1. ~ skewed /\ key' = WithDefault /\ Default \notin Stored BY DEF EnsureDefault, Write
<1> QED BY <1>1, DefaultNum

LEMMA DeleteProviderNum ==
  ASSUME ~ skewed', NEW was, DeleteProvider(was)
  PROVE  Renumbered
<1>1. key' = [k \in Keys |-> NoKey] \/ Left BY DEF DeleteProvider, RollBack, Left
<1>2. CASE key' = [k \in Keys |-> NoKey]
  <2>1. Stored' = {} BY <1>2 DEF Stored, StoredIn
  <2> QED BY <2>1 DEF Renumbered
<1> QED BY <1>1, <1>2, LeftNum

LEMMA CreateNum ==
  ASSUME Core, ~ skewed', NEW was \in Table, NEW k \in Keys, Create(was, k)
  PROVE  Renumbered
<1>1. \/ Left
      \/ Took(key, FALSE)
      \/ /\ k \notin Stored
         /\ Took([key EXCEPT ![k] = [status |-> "active", number |-> MaxPriority(was) + 1]],
                 Stored = {} \/ MaxPriority(was) # MaxPriority(key))
  BY DEF Create, Push, Commit, RollBack, Left, Took
<1>2. CASE Took(key, FALSE)
  <2>1. key' = key /\ ~ skewed BY <1>2 DEF Took
  <2> QED BY <2>1 DEF Renumbered, Same
<1>3. CASE /\ k \notin Stored
           /\ Took([key EXCEPT ![k] = [status |-> "active", number |-> MaxPriority(was) + 1]],
                   Stored = {} \/ MaxPriority(was) # MaxPriority(key))
  <2>1. ~ skewed /\ Stored # {} /\ MaxPriority(was) = MaxPriority(key) BY <1>3 DEF Took
  <2>2. key' = [key EXCEPT ![k] = [status |-> "active", number |-> MaxPriority(key) + 1]]
    BY <1>3, <2>1 DEF Took
  <2>3. key \in [Keys -> Row] BY DEF Core, Table
  <2>4. /\ key'[k] = [status |-> "active", number |-> MaxPriority(key) + 1]
        /\ \A j \in Keys \ {k} : key'[j] = key[j]
    BY <2>2, <2>3
  <2>5. key'[k].number = MaxPriority(key) + 1 /\ key'[k] # NoKey BY <2>4 DEF NoKey
  <2>6. Stored' = Stored \cup {k} BY <2>4, <2>5 DEF Stored, StoredIn
  <2>7. \A j \in Stored : key'[j].number = key[j].number BY <1>3, <2>4 DEF Stored, StoredIn
  <2>8. LastNum(k) BY <1>3, <2>1, <2>5, <2>6, <2>7 DEF LastNum
  <2> QED BY <2>1, <2>8 DEF Renumbered
<1> QED BY <1>1, <1>2, <1>3, LeftNum

LEMMA EditNum ==
  ASSUME Core, ~ skewed', NEW was \in Table, NEW k \in Keys, Edit(was, k) \/ Enable(was, k) \/ Disable(was, k)
  PROVE  Renumbered
<1>1. {k} \in SUBSET StoredIn(was) /\ was[k].status \in Status \ {"none"}
  <2>1. k \in StoredIn(was) BY DEF Edit, Enable, Disable
  <2> QED BY <2>1, TableForm DEF Row
<1>2. PICK s \in Status \ {"none"} :
        Left \/ Took(Saved(was, {k}, s), Mixed(was, Saved(was, {k}, s)))
  <2>1. CASE Edit(was, k)
    BY <1>1, <2>1 DEF Edit, Push, Commit, RollBack, Write, Left, Took
  <2>2. CASE Enable(was, k)
    <3>1. "active" \in Status \ {"none"} BY DEF Status
    <3> QED BY <2>2, <3>1 DEF Enable, Push, Commit, RollBack, Write, Left, Took
  <2>3. CASE Disable(was, k)
    <3>1. "disabled" \in Status \ {"none"} BY DEF Status
    <3> QED BY <2>3, <3>1 DEF Disable, Drop, Commit, RollBack, Left, Took
  <2> QED BY <2>1, <2>2, <2>3
<1> QED BY <1>1, <1>2, SavedNum

LEMMA HandleMessageNum ==
  ASSUME Core, ~ skewed', NEW was \in Table, NEW K \in SUBSET Keys, HandleMessage(was, K)
  PROVE  Renumbered
<1>1. PICK s \in Status \ {"none"} : s = "active" BY DEF Status
<1>2. K \in SUBSET StoredIn(was) /\ Took(Saved(was, K, s), Mixed(was, Saved(was, K, s)))
  BY <1>1 DEF HandleMessage, Write, Took
<1> QED BY <1>2, SavedNum

\* The keys behind the one that is deleted have moved up.
LEMMA DeleteKeyNum ==
  ASSUME Core, ~ skewed', NEW was \in Table, NEW k \in Keys, DeleteKey(was, k)
  PROVE  Renumbered
<1>1. PICK n \in Nat : n = was[k].number BY TableForm
<1>2. /\ MovedUp(was, n) \in Table
      /\ \A j \in Keys :
           IF was[j].number > n
             THEN /\ MovedUp(was, n)[j] # NoKey /\ was[j] # NoKey
                  /\ MovedUp(was, n)[j].number = was[j].number - 1
             ELSE MovedUp(was, n)[j] = key[j]
  BY MovedUpForm
<1>3. PICK up \in Table : up = MovedUp(was, n) BY <1>2
<1>4. PICK rows : Put(up, k, NoKey, rows) BY DEF Put
<1>5. rows \in Table /\ rows[k] = NoKey /\ \A j \in Keys \ {k} : rows[j] = up[j]
  BY <1>4, WithoutForm
<1>6. k \in StoredIn(was) \ {Default} /\ (Left \/ Took(rows, Mixed(was, rows)))
  BY <1>1, <1>3, <1>4 DEF DeleteKey, Drop, Commit, RollBack, Left, Took, Put
<1>7. CASE Took(rows, Mixed(was, rows))
  <2>1. key' = rows /\ ~ skewed /\ ~ Mixed(was, rows) BY <1>7 DEF Took
  <2>2. Same(key, rows) \/ Same(key, was) BY <1>5, <2>1, MixedForm
  <2>3. CASE Same(key, was)
    <3>1. k \in Stored \ {Default} /\ n = key[k].number BY <1>1, <1>6, <2>3 DEF Same, Stored
    <3>2. \A j \in Keys \ {k} :
            IF was[j].number > n THEN rows[j] # NoKey /\ was[j] # NoKey /\ rows[j].number = was[j].number - 1
                                 ELSE rows[j] = key[j]
      BY <1>2, <1>3, <1>5
    <3>3. StoredIn(was) = Stored /\ \A j \in Stored : was[j].number = key[j].number
      BY <2>3 DEF Same, Stored
    <3>4. StoredIn(rows) = Stored \ {k}
      <4>1. \A j \in Keys \ {k} : rows[j] # NoKey <=> key[j] # NoKey
        BY <3>2, <3>3 DEF Stored, StoredIn
      <4> QED BY <1>5, <4>1 DEF Stored, StoredIn
    <3>5. \A j \in Stored \ {k} : rows[j].number =
            IF key[j].number > key[k].number THEN key[j].number - 1 ELSE key[j].number
      BY <3>1, <3>2, <3>3 DEF Stored, StoredIn
    <3>6. Stored' = StoredIn(rows) BY <2>1 DEF Stored, StoredIn
    <3>7. LessNum(k) BY <2>1, <3>1, <3>4, <3>5, <3>6 DEF LessNum
    <3> QED BY <2>1, <3>7 DEF Renumbered
  <2> QED BY <2>1, <2>2, <2>3 DEF Renumbered
<1> QED BY <1>6, <1>7, LeftNum

\* The numbers that a sort gives.
LEMMA MovedNumber ==
  ASSUME NEW t \in Table, NEW o, NEW a, NEW b, NEW before, NEW k \in Keys
  PROVE  Moved(t, o, a, b, before)[k].number =
           IF k = o THEN Place(a, b, before)
           ELSE IF k \in Between(t, a, b, before)
             THEN IF a < b THEN t[k].number - 1 ELSE t[k].number + 1
           ELSE t[k].number
<1>1. Moved(t, o, a, b, before)[k] =
        IF k = o THEN [t[k] EXCEPT !.number = Place(a, b, before)]
        ELSE IF k \in Between(t, a, b, before)
          THEN [t[k] EXCEPT !.number = IF a < b THEN t[k].number - 1 ELSE t[k].number + 1]
        ELSE t[k]
  BY DEF Moved
<1>2. t[k] \in Row BY TableForm
<1> QED BY <1>1, <1>2 DEF Row

LEMMA SortNumStep ==
  ASSUME Core, ~ skewed', NEW was \in Table, NEW o \in Keys, NEW t \in Keys, NEW before \in BOOLEAN,
         Sort(was, o, t, before)
  PROVE  Renumbered
<1>1. o \in StoredIn(was) /\ t \in StoredIn(was) BY DEF Sort
<1>2. PICK a \in 0 .. MaxNumber, b \in 0 .. MaxNumber : a = was[o].number /\ b = was[t].number
  BY <1>1, TableForm
<1>3. Place(a, b, before) <= MaxNumber
  <2>1. was[o] \in Row BY TableForm
  <2>2. Sorted(was, o, t, before)[o].number <= MaxNumber BY DEF Sort
  <2>3. Moved(was, o, a, b, before)[o].number <= MaxNumber BY <1>2, <2>2 DEF Sorted
  <2> QED BY <2>1, <2>3, MovedPlace
<1>4. PICK view : view = Moved(was, o, a, b, before) OBVIOUS
<1>5. PICK room : room = Between(was, a, b, before) OBVIOUS
<1>6. o \in StoredIn(was) \cup {None} BY <1>1
<1>7. /\ view \in Table
      /\ \A k \in Keys : k \in StoredIn(was) <=> view[k] # NoKey
      /\ \A k \in Keys : k \notin room \cup {o} => view[k] = was[k]
  BY <1>3, <1>4, <1>5, <1>6, ViewForm
<1>8. PICK rows : rows = Updated(view, room \cup {o}) OBVIOUS
<1>9. /\ rows \in Table
      /\ \A k \in Keys : rows[k] = IF k \in room \cup {o} /\ k \in Stored THEN view[k] ELSE key[k]
  BY <1>7, <1>8, UpdatedForm
<1>10. Left \/ Took(rows, (o = t /\ ~ before) \/ Mixed(was, rows))
  BY <1>2, <1>4, <1>5, <1>8 DEF Sort, Sorted, Push, Commit, RollBack, Left, Took
<1>11. CASE Took(rows, (o = t /\ ~ before) \/ Mixed(was, rows))
  <2>1. key' = rows /\ ~ skewed /\ (o # t \/ before) /\ ~ Mixed(was, rows) BY <1>11 DEF Took
  <2>2. Same(key, rows) \/ Same(key, was) BY <1>9, <2>1, MixedForm
  <2>3. CASE Same(key, was)
    <3>1. StoredIn(was) = Stored /\ \A k \in Stored : was[k].number = key[k].number
      BY <2>3 DEF Same, Stored
    <3>2. o \in Stored /\ t \in Stored /\ a = key[o].number /\ b = key[t].number
      BY <1>1, <1>2, <3>1
    <3>3. PICK u \in Table : u = key BY DEF Core
    <3>4. room = Between(u, a, b, before)
      BY <1>5, <3>1, <3>3 DEF Between, Stored
    <3>5. StoredIn(rows) = Stored BY <1>7, <1>9, <3>1 DEF Stored, StoredIn
    <3>6. ASSUME NEW k \in Stored PROVE rows[k].number = Sorted(key, o, t, before)[k].number
      <4>1. k \in Keys BY DEF Stored, StoredIn
      <4>2. Sorted(key, o, t, before)[k].number = Moved(u, o, a, b, before)[k].number
        BY <3>2, <3>3 DEF Sorted
      <4>3. Moved(u, o, a, b, before)[k].number =
              IF k = o THEN Place(a, b, before)
              ELSE IF k \in room THEN IF a < b THEN u[k].number - 1 ELSE u[k].number + 1
              ELSE u[k].number
        BY <3>4, <4>1, MovedNumber
      <4>4. view[k].number =
              IF k = o THEN Place(a, b, before)
              ELSE IF k \in room THEN IF a < b THEN was[k].number - 1 ELSE was[k].number + 1
              ELSE was[k].number
        BY <1>4, <1>5, <4>1, MovedNumber
      <4>5. rows[k].number = view[k].number
        <5>1. CASE k \in room \cup {o} BY <1>9, <4>1, <5>1
        <5>2. CASE k \notin room \cup {o} BY <1>7, <1>9, <3>1, <4>1, <5>2
        <5> QED BY <5>1, <5>2
      <4>6. was[k].number = u[k].number BY <3>1, <3>3
      <4> QED BY <4>2, <4>3, <4>4, <4>5, <4>6
    <3>7. Stored' = StoredIn(rows) BY <2>1 DEF Stored, StoredIn
    <3>8. SortNum(o, t, before) BY <2>1, <3>2, <3>5, <3>6, <3>7 DEF SortNum
    <3> QED BY <2>1, <3>8 DEF Renumbered
  <2> QED BY <2>1, <2>2, <2>3 DEF Renumbered
<1> QED BY <1>10, <1>11, LeftNum

\* Numbers that are other than they were are taken as mixed up.
LEMMA OtherNum ==
  ASSUME Core, ~ skewed', NEW rows \in Table, Left \/ Took(rows, Numbers(rows) # Numbers(key))
  PROVE  Renumbered
<1>1. CASE Took(rows, Numbers(rows) # Numbers(key))
  <2>1. PICK t \in Table : t = key BY DEF Core
  <2>2. key' = rows /\ ~ skewed /\ Numbers(rows) = Numbers(t) BY <1>1, <2>1 DEF Took
  <2>3. Same(t, rows) BY <2>2, NumbersForm
  <2> QED BY <2>1, <2>2, <2>3 DEF Renumbered
<1> QED BY <1>1, LeftNum

LEMMA MisdirectedNum ==
  ASSUME Core, ~ skewed', NEW was \in Table, Misdirected(was)
  PROVE  Renumbered
<1>1. ASSUME NEW n \in Foreign, DeleteForeign(was, n) PROVE Renumbered
  <2>1. n \in Nat BY ForeignAssumption, BoundAssumption
  <2>2. MovedUp(was, n) \in Table BY <2>1, MovedUpForm
  <2>3. PICK rows \in Table : rows = MovedUp(was, n) BY <2>2
  <2>4. Took(rows, Numbers(rows) # Numbers(key)) BY <1>1, <2>3 DEF DeleteForeign, Write, Took
  <2> QED BY <2>4, OtherNum
<1>2. ASSUME NEW o \in StoredIn(was) \cup {None}, NEW a \in 0 .. MaxNumber, NEW b \in 0 .. MaxNumber,
             NEW before \in BOOLEAN, SortForeign(was, o, a, b, before)
      PROVE  Renumbered
  <2>1. Place(a, b, before) <= MaxNumber BY <1>2 DEF SortForeign
  <2>2. Moved(was, o, a, b, before) \in Table BY <2>1, ViewForm
  <2>3. PICK view \in Table : view = Moved(was, o, a, b, before) BY <2>2
  <2>4. PICK written : written = Between(was, a, b, before) \cup {o} OBVIOUS
  <2>5. Updated(view, written) \in Table BY UpdatedForm
  <2>6. PICK rows \in Table : rows = Updated(view, written) BY <2>5
  <2>7. Left \/ Took(rows, Numbers(rows) # Numbers(key))
    BY <1>2, <2>3, <2>4, <2>6 DEF SortForeign, Push, Commit, RollBack, Left, Took
  <2> QED BY <2>7, OtherNum
<1>3. ASSUME NEW k \in Keys, Elsewhere(was, k) PROVE Renumbered
  <2>1. {k} \in SUBSET StoredIn(was) /\ k \in StoredIn(was) BY <1>3 DEF Elsewhere
  <2>2. CASE Write(was, Saved(was, {k}, "disabled"), {k}, Mixed(was, Saved(was, {k}, "disabled")))
    <3>1. PICK s \in Status \ {"none"} : s = "disabled" BY DEF Status
    <3>2. Took(Saved(was, {k}, s), Mixed(was, Saved(was, {k}, s))) BY <2>2, <3>1 DEF Write, Took
    <3> QED BY <2>1, <3>2, SavedNum
  <2>3. CASE Write(was, [key EXCEPT ![k] = NoKey], {k}, k \in Stored)
    <3>1. ~ skewed /\ k \notin Stored /\ key' = [key EXCEPT ![k] = NoKey] BY <2>3 DEF Write
    <3>2. key[k] = NoKey /\ key \in [Keys -> Row] BY <3>1 DEF Stored, StoredIn, Core, Table
    <3>3. key' = key BY <3>1, <3>2
    <3> QED BY <3>1, <3>3 DEF Renumbered, Same
  <2>4. ASSUME NEW n \in Foreign,
               Write(was, Updated([was EXCEPT ![k].number = n], {k}), {k},
                     Numbers(Updated([was EXCEPT ![k].number = n], {k})) # Numbers(key))
        PROVE  Renumbered
    <3>1. PICK view \in Table : view = [was EXCEPT ![k].number = n] BY <2>1, RenumberedRow
    <3>2. Updated(view, {k}) \in Table BY UpdatedForm
    <3>3. PICK rows \in Table : rows = Updated(view, {k}) BY <3>2
    <3>4. Took(rows, Numbers(rows) # Numbers(key)) BY <2>4, <3>1, <3>3 DEF Write, Took
    <3> QED BY <3>4, OtherNum
  <2> QED BY <1>3, <2>2, <2>3, <2>4 DEF Elsewhere
<1>4. ASSUME NEW n \in Foreign, NEW before \in BOOLEAN, NEW k \in StoredIn(was),
             \/ SortForeign(was, None, n, was[k].number, before)
             \/ SortForeign(was, k, was[k].number, n, before)
      PROVE  Renumbered
  <2>1. n \in 0 .. MaxNumber /\ was[k].number \in 0 .. MaxNumber
    BY ForeignNumber, TableForm DEF StoredIn
  <2>2. None \in StoredIn(was) \cup {None} /\ k \in StoredIn(was) \cup {None} OBVIOUS
  <2> QED BY <1>2, <1>4, <2>1, <2>2
<1>5. ASSUME NEW n \in Foreign, NEW before \in BOOLEAN, NEW m \in Foreign,
             SortForeign(was, None, m, n, before)
      PROVE  Renumbered
  <2>1. n \in 0 .. MaxNumber /\ m \in 0 .. MaxNumber BY ForeignNumber
  <2>2. None \in StoredIn(was) \cup {None} OBVIOUS
  <2> QED BY <1>2, <1>5, <2>1, <2>2
<1> QED BY <1>1, <1>3, <1>4, <1>5 DEF Misdirected

LEMMA WorkNum ==
  ASSUME Core, DenseInv, ~ skewed', NEW was \in Table, Work(was)
  PROVE  Renumbered
<1>1. ASSUME Request(was) PROVE Renumbered
  <2>1. ASSUME NEW k \in Keys, \/ Create(was, k) \/ Edit(was, k) \/ DeleteKey(was, k)
                               \/ Disable(was, k) \/ Enable(was, k)
        PROVE  Renumbered
    BY <2>1, CreateNum, EditNum, DeleteKeyNum
  <2>2. ASSUME NEW o \in Keys, NEW t \in Keys, NEW before \in BOOLEAN, Sort(was, o, t, before)
        PROVE  Renumbered
    BY <2>2, SortNumStep
  <2> QED BY <1>1, <2>1, <2>2 DEF Request
<1>2. ASSUME Configured(was) PROVE Renumbered BY <1>2, ConfigureNum DEF Configured
<1>3. ASSUME Reported(was) PROVE Renumbered BY <1>3, HandleMessageNum DEF Reported
<1>4. ASSUME DeleteProvider(was) PROVE Renumbered BY <1>4, DeleteProviderNum
<1> QED BY <1>1, <1>2, <1>3, <1>4, EnsureDefaultNum, MisdirectedNum DEF Work

LEMMA NumStep ==
  ASSUME IInv, DenseInv, [Next]_vars, ~ skewed'
  PROVE  Renumbered
<1>1. Core /\ key \in Table /\ seen \in [Requests -> Table \cup {None}] BY DEF IInv, Core
<1>2. ASSUME Left PROVE Renumbered BY <1>2, LeftNum
<1>3. CASE UNCHANGED vars BY <1>2, <1>3 DEF vars, Left
<1>4. CASE AddProvider BY <1>2, <1>4 DEF AddProvider, Left
<1>5. CASE Work(key)
  <2>1. PICK was \in Table : was = key BY <1>1
  <2>2. Work(was) BY <1>5, <2>1
  <2> QED BY <1>1, <2>2, WorkNum
<1>6. ASSUME NEW r \in Requests, Read(r) \/ Fail(r) PROVE Renumbered
  BY <1>2, <1>6 DEF Read, Fail, Left
<1>7. ASSUME NEW r \in Requests, seen[r] # None, Work(seen[r]) PROVE Renumbered
  <2>1. PICK was \in Table : was = seen[r] BY <1>1, <1>7
  <2>2. Work(was) BY <1>7, <2>1
  <2> QED BY <1>1, <2>2, WorkNum
<1> QED BY <1>3, <1>4, <1>5, <1>6, <1>7, NextForm

-----------------------------------------------------------------------------
(* Numbers without gaps or ties.                                           *)

\* The keys of S in the order of their numbers in row.
Listed(row, S) == [n \in 1 .. Cardinality(S) |-> CHOOSE k \in S : row[k].number = n]

\* Numbers without gaps or ties are as many as there are keys, and list them.
LEMMA ListedForm ==
  ASSUME NEW row, NEW S, NEW n \in Nat,
         \A k \in S : row[k].number \in 1 .. n,
         \A i \in 1 .. n : \E k \in S : row[k].number = i,
         \A j, k \in S : row[j].number = row[k].number => j = k
  PROVE  /\ Cardinality(S) = n
         /\ Listed(row, S) \in Seq(S) /\ Len(Listed(row, S)) = n
         /\ \A i \in 1 .. n : Listed(row, S)[i] \in S /\ row[Listed(row, S)[i]].number = i
         /\ \A k \in S : Listed(row, S)[row[k].number] = k
<1> DEFINE f == [i \in 1 .. n |-> CHOOSE k \in S : row[k].number = i]
<1>1. \A i \in 1 .. n : f[i] \in S /\ row[f[i]].number = i OBVIOUS
<1>2. f \in [1 .. n -> S] BY <1>1
<1>3. \A i, j \in 1 .. n : f[i] = f[j] => i = j BY <1>1
<1>4. \A k \in S : f[row[k].number] = k BY <1>1
<1>5. Listed(row, S) = f <=> Listed(row, S) = [i \in 1 .. n |-> CHOOSE k \in S : row[k].number = i]
  OBVIOUS
<1> HIDE DEF f
<1>6. \A k \in S : \E i \in 1 .. n : f[i] = k BY <1>4
<1>7. f \in Bijection(1 .. n, S)
  BY <1>2, <1>3, <1>6 DEF Bijection, Injection, Surjection, IsInjective
<1>8. Cardinality(S) = n BY <1>7, FS_CountingElements DEF ExistsBijection
<1>9. Listed(row, S) = f BY <1>5, <1>8 DEF Listed
<1>10. f \in Seq(S) /\ Len(f) = n BY <1>2
<1> QED BY <1>1, <1>4, <1>8, <1>9, <1>10

LEMMA NumberedCount ==
  ASSUME NEW n \in Nat, Numbered(n)
  PROVE  {key[k].number : k \in Stored} = 1 .. Cardinality(Stored)
<1>0. /\ \A k \in Stored : key[k].number \in 1 .. n
      /\ \A i \in 1 .. n : \E k \in Stored : key[k].number = i
      /\ \A j, k \in Stored : key[j].number = key[k].number => j = k
  BY DEF Numbered
<1>1. /\ Cardinality(Stored) = n
      /\ Listed(key, Stored) \in Seq(Stored) /\ Len(Listed(key, Stored)) = n
      /\ \A i \in 1 .. n : Listed(key, Stored)[i] \in Stored /\ key[Listed(key, Stored)[i]].number = i
      /\ \A k \in Stored : Listed(key, Stored)[key[k].number] = k
  BY ONLY <1>0, n \in Nat, ListedForm
<1>2. {key[k].number : k \in Stored} = 1 .. n BY DEF Numbered
<1> QED BY <1>1, <1>2

LEMMA LargestNumber ==
  ASSUME NEW n \in Nat, n > 0, Numbered(n)
  PROVE  MaxPriority(key) = n
<1>1. {key[k].number : k \in Stored} = 1 .. n BY DEF Numbered
<1>2. MaxPriority(key) = Max(1 .. n) BY <1>1 DEF MaxPriority, Stored
<1>3. n \in 1 .. n /\ \A y \in 1 .. n : n >= y OBVIOUS
<1>4. \A x \in 1 .. n : (\A y \in 1 .. n : x >= y) => x = n OBVIOUS
<1> QED BY <1>2, <1>3, <1>4 DEF Max

LEMMA SameForm ==
  ASSUME Same(key, key'), NEW n \in Nat, Numbered(n)
  PROVE  Stored' = Stored /\ Numbered(n)'
<1>1. Stored' = Stored /\ \A k \in Stored : key'[k].number = key[k].number BY DEF Same, Stored
<1> QED BY <1>1 DEF Numbered

LEMMA FirstForm ==
  ASSUME FirstNum
  PROVE  Numbered(0) /\ Numbered(1)'
<1>1. Stored = {} /\ Stored' = {Default} /\ key'[Default].number = 1 BY DEF FirstNum
<1> HIDE DEF Stored
<1> QED BY <1>1 DEF Numbered

LEMMA LastForm ==
  ASSUME NEW n \in Nat, Numbered(n), NEW k, LastNum(k)
  PROVE  key'[k].number = n + 1 /\ Numbered(n + 1)'
<1>1. /\ k \in Keys \ Stored /\ Stored # {} /\ Stored' = Stored \cup {k}
      /\ key'[k].number = MaxPriority(key) + 1
      /\ \A j \in Stored : key'[j].number = key[j].number
  BY DEF LastNum
<1>2. n > 0 BY <1>1 DEF Numbered
<1>3. key'[k].number = n + 1 BY <1>1, <1>2, LargestNumber
<1>4. \A j \in Stored' : key'[j].number \in 1 .. n + 1 BY <1>1, <1>3 DEF Numbered
<1>5. \A i \in 1 .. n + 1 : \E j \in Stored' : key'[j].number = i
  <2> SUFFICES ASSUME NEW i \in 1 .. n + 1 PROVE \E j \in Stored' : key'[j].number = i OBVIOUS
  <2>1. CASE i = n + 1 BY <1>1, <1>3, <2>1
  <2>2. CASE i \in 1 .. n BY <1>1, <2>2 DEF Numbered
  <2> QED BY <2>1, <2>2
<1>6. \A i, j \in Stored' : key'[i].number = key'[j].number => i = j
  BY <1>1, <1>3 DEF Numbered
<1> QED BY <1>3, <1>4, <1>5, <1>6 DEF Numbered

\* The keys behind one that is deleted move up.
LEMMA LessForm ==
  ASSUME NEW n \in Nat, Numbered(n), NEW k, LessNum(k)
  PROVE  n - 1 \in Nat /\ Numbered(n - 1)'
<1> DEFINE a == key[k].number
<1>1. k \in Stored \ {Default} /\ Stored' = Stored \ {k} BY DEF LessNum
<1>2. \A j \in Stored \ {k} :
        key'[j].number = IF key[j].number > a THEN key[j].number - 1 ELSE key[j].number
  BY DEF LessNum
<1>3. a \in 1 .. n BY <1>1 DEF Numbered
<1> HIDE DEF a
<1>5. Numbered(n - 1)'
  <2>0. a = key[k].number BY DEF a
  <2>1. \A j \in Stored' : key'[j].number \in 1 .. n - 1
    <3> SUFFICES ASSUME NEW j \in Stored \ {k} PROVE key'[j].number \in 1 .. n - 1 BY <1>1
    <3>1. key[j].number \in 1 .. n /\ key[j].number # a BY <1>1, <2>0 DEF Numbered
    <3> QED BY <1>3, <1>2, <3>1
  <2>2. \A i \in 1 .. n - 1 : \E j \in Stored' : key'[j].number = i
    <3> SUFFICES ASSUME NEW i \in 1 .. n - 1 PROVE \E j \in Stored \ {k} : key'[j].number = i BY <1>1
    <3> DEFINE old == IF i < a THEN i ELSE i + 1
    <3>1. old \in 1 .. n /\ old # a /\ (IF old > a THEN old - 1 ELSE old) = i BY <1>3
    <3> HIDE DEF old
    <3>2. PICK j \in Stored : key[j].number = old BY <3>1 DEF Numbered
    <3> QED BY <1>2, <2>0, <3>1, <3>2
  <2>3. \A i, j \in Stored' : key'[i].number = key'[j].number => i = j
    <3> SUFFICES ASSUME NEW i \in Stored \ {k}, NEW j \in Stored \ {k}, key'[i].number = key'[j].number
                 PROVE  i = j
      BY <1>1
    <3>1. /\ key[i].number \in 1 .. n /\ key[i].number # a
          /\ key[j].number \in 1 .. n /\ key[j].number # a
      BY <1>1, <2>0 DEF Numbered
    <3>2. key[i].number = key[j].number BY <1>3, <1>2, <3>1
    <3> QED BY <3>2 DEF Numbered
  <2> QED BY <2>1, <2>2, <2>3 DEF Numbered
<1>6. n - 1 \in Nat BY <1>3
<1> QED BY <1>5, <1>6

\* Where a sort puts the keys when it does not move a key behind itself.
LEMMA SortedNumbers ==
  ASSUME Core, NEW n \in Nat, Numbered(n), NEW o \in Stored, NEW t \in Stored,
         NEW before \in BOOLEAN, o # t \/ before
  PROVE  LET a == key[o].number
             p == Place(key[o].number, key[t].number, before)
         IN /\ p \in 1 .. n
            /\ \A k \in Stored :
                 Sorted(key, o, t, before)[k].number =
                   IF k = o THEN p
                   ELSE IF a < key[k].number /\ key[k].number <= p THEN key[k].number - 1
                   ELSE IF p <= key[k].number /\ key[k].number < a THEN key[k].number + 1
                   ELSE key[k].number
<1>0. /\ key[o].number \in 1 .. n /\ key[t].number \in 1 .. n
      /\ key[o].number = key[t].number => o = t
  BY DEF Numbered
<1>1. PICK a \in 1 .. n, b \in 1 .. n : a = key[o].number /\ b = key[t].number /\ (a = b => o = t)
  BY <1>0
<1>2. PICK u \in Table : u = key BY DEF Core
<1>3. PICK p : p = Place(a, b, before) OBVIOUS
<1>4. p = IF a < b THEN IF before THEN b - 1 ELSE b ELSE IF before THEN b ELSE b + 1
  BY <1>3 DEF Place
<1>5. p \in 1 .. n BY <1>1, <1>4
<1>6. ASSUME NEW k \in Stored
      PROVE  Sorted(key, o, t, before)[k].number =
               IF k = o THEN p
               ELSE IF a < key[k].number /\ key[k].number <= p THEN key[k].number - 1
               ELSE IF p <= key[k].number /\ key[k].number < a THEN key[k].number + 1
               ELSE key[k].number
  <2> DEFINE room == Between(u, a, b, before)
  <2>1. k \in Keys /\ u[k].number \in 1 .. n /\ u[k] = key[k] BY <1>2 DEF Numbered, Stored, StoredIn
  <2>2. k \in room <=>
          IF a < b THEN a < u[k].number /\ (u[k].number < b \/ (~ before /\ u[k].number = b))
                   ELSE u[k].number < a /\ (u[k].number > b \/ (before /\ u[k].number = b))
    BY <1>2 DEF Between, Stored
  <2>3. Moved(u, o, a, b, before)[k].number =
          IF k = o THEN p
          ELSE IF k \in room THEN IF a < b THEN u[k].number - 1 ELSE u[k].number + 1
          ELSE u[k].number
    BY <1>3, <2>1, MovedNumber
  <2>4. Sorted(key, o, t, before)[k].number = Moved(u, o, a, b, before)[k].number
    BY <1>1, <1>2 DEF Sorted
  <2> HIDE DEF room
  <2>5. CASE a < b
    <3>1. k \in room <=> a < u[k].number /\ u[k].number <= p BY <1>1, <1>4, <2>1, <2>2, <2>5
    <3>2. ~ (p <= u[k].number /\ u[k].number < a) BY <1>1, <1>4, <2>1, <2>5
    <3> QED BY <2>1, <2>3, <2>4, <2>5, <3>1, <3>2
  <2>6. CASE ~ (a < b)
    <3>1. k \in room <=> p <= u[k].number /\ u[k].number < a BY <1>1, <1>4, <2>1, <2>2, <2>6
    <3>2. ~ (a < u[k].number /\ u[k].number <= p) BY <1>1, <1>4, <2>1, <2>6
    <3> QED BY <2>1, <2>3, <2>4, <2>6, <3>1, <3>2
  <2> QED BY <2>5, <2>6
<1>7. p = Place(key[o].number, key[t].number, before) BY <1>1, <1>3
<1> QED BY <1>1, <1>5, <1>6, <1>7

LEMMA SortForm ==
  ASSUME Core, NEW n \in Nat, Numbered(n), NEW o, NEW t, NEW before \in BOOLEAN,
         SortNum(o, t, before)
  PROVE  LET a == key[o].number
             p == Place(key[o].number, key[t].number, before)
         IN /\ o \in Stored /\ t \in Stored /\ Stored' = Stored
            /\ p \in 1 .. n
            /\ \A k \in Stored : key'[k].number =
                 IF k = o THEN p
                 ELSE IF a < key[k].number /\ key[k].number <= p THEN key[k].number - 1
                 ELSE IF p <= key[k].number /\ key[k].number < a THEN key[k].number + 1
                 ELSE key[k].number
            /\ Numbered(n)'
<1>2. o \in Stored /\ t \in Stored /\ (o # t \/ before) BY DEF SortNum
<1>4. Stored' = Stored BY DEF SortNum
<1> DEFINE a == key[o].number
           p == Place(key[o].number, key[t].number, before)
<1>3. \A k \in Stored : key'[k].number = Sorted(key, o, t, before)[k].number BY DEF SortNum
<1>5. /\ p \in 1 .. n
      /\ \A k \in Stored : key'[k].number =
           IF k = o THEN p
           ELSE IF a < key[k].number /\ key[k].number <= p THEN key[k].number - 1
           ELSE IF p <= key[k].number /\ key[k].number < a THEN key[k].number + 1
           ELSE key[k].number
  BY <1>2, <1>3, SortedNumbers
<1>6. a \in 1 .. n /\ a = key[o].number BY <1>2 DEF Numbered
<1>7. \A k \in Stored : key[k].number \in 1 .. n /\ (k # o => key[k].number # a)
  BY <1>2 DEF Numbered
<1> HIDE DEF a, p
<1>8. \A k \in Stored : key'[k].number \in 1 .. n BY <1>5, <1>6, <1>7
<1>9. \A i \in 1 .. n : \E k \in Stored : key'[k].number = i
  <2> SUFFICES ASSUME NEW i \in 1 .. n PROVE \E k \in Stored : key'[k].number = i OBVIOUS
  <2> DEFINE old == IF i = p THEN a ELSE IF a <= i /\ i < p THEN i + 1
                    ELSE IF p < i /\ i <= a THEN i - 1 ELSE i
  <2>1. old \in 1 .. n BY <1>5, <1>6
  <2>2. i # p => old # a /\
          (IF a < old /\ old <= p THEN old - 1 ELSE IF p <= old /\ old < a THEN old + 1 ELSE old) = i
    BY <1>5, <1>6
  <2>3. i = p => old = a OBVIOUS
  <2> HIDE DEF old
  <2>4. PICK k \in Stored : key[k].number = old BY <2>1 DEF Numbered
  <2>5. CASE i = p BY <1>2, <1>5, <1>6, <2>3, <2>4, <2>5 DEF Numbered
  <2>6. CASE i # p BY <1>5, <1>6, <2>2, <2>4, <2>6
  <2> QED BY <2>5, <2>6
<1>10. \A j, k \in Stored : key'[j].number = key'[k].number => j = k
  <2> SUFFICES ASSUME NEW j \in Stored, NEW k \in Stored, key'[j].number = key'[k].number PROVE j = k
    OBVIOUS
  <2>1. CASE j = o \/ k = o BY <1>5, <1>6, <1>7, <2>1
  <2>2. CASE j # o /\ k # o
    <3>1. key[j].number = key[k].number BY <1>5, <1>6, <1>7, <2>2
    <3> QED BY <3>1 DEF Numbered
  <2> QED BY <2>1, <2>2
<1>11. Numbered(n)' BY <1>4, <1>8, <1>9, <1>10 DEF Numbered
<1> QED BY <1>2, <1>4, <1>5, <1>11 DEF a, p

LEMMA DenseInit == Init => DenseInv
<1> SUFFICES ASSUME Init PROVE DenseInv OBVIOUS
<1>1. Stored = {} BY DEF Init, Stored, StoredIn
<1>2. Numbered(0) BY <1>1 DEF Numbered
<1> QED BY <1>1, <1>2 DEF DenseInv

LEMMA DenseStep == IInv /\ DenseInv /\ [Next]_vars => DenseInv'
<1> SUFFICES ASSUME IInv, DenseInv, [Next]_vars, ~ skewed'
             PROVE  (Stored = {} \/ Default \in Stored)' /\ (\E n \in Nat : Numbered(n))'
  BY DEF DenseInv
<1>1. Renumbered BY NumStep
<1>2. CASE Stored' = {}
  <2>1. Numbered(0)' BY <1>2 DEF Numbered
  <2> QED BY <1>2, <2>1
<1>3. CASE Stored' # {}
  <2>1. PICK n \in Nat : Numbered(n) BY <1>1, <1>3 DEF Renumbered, DenseInv
  <2>2. Stored = {} \/ Default \in Stored BY <1>1, <1>3 DEF Renumbered, DenseInv
  <2>3. CASE Same(key, key') BY <2>1, <2>2, <2>3, SameForm
  <2>4. CASE FirstNum BY <2>4, FirstForm DEF FirstNum
  <2>5. ASSUME NEW k \in Keys, LastNum(k)
        PROVE  Default \in Stored' /\ (\E m \in Nat : Numbered(m))'
    <3>1. Numbered(n + 1)' BY <2>1, <2>5, LastForm
    <3>2. Default \in Stored' BY <2>2, <2>5 DEF LastNum
    <3> QED BY <3>1, <3>2
  <2>6. ASSUME NEW k \in Keys, LessNum(k)
        PROVE  Default \in Stored' /\ (\E m \in Nat : Numbered(m))'
    <3>1. n - 1 \in Nat /\ Numbered(n - 1)' BY <2>1, <2>6, LessForm
    <3>2. Default \in Stored' BY <2>2, <2>6 DEF LessNum
    <3> QED BY <3>1, <3>2
  <2>7. ASSUME NEW o \in Keys, NEW t \in Keys, NEW before \in BOOLEAN, SortNum(o, t, before)
        PROVE  Stored' = Stored /\ (\E m \in Nat : Numbered(m))'
    BY <2>1, <2>7, SortForm DEF IInv
  <2> QED BY <1>1, <1>3, <2>2, <2>3, <2>4, <2>5, <2>6, <2>7 DEF Renumbered
<1> QED BY <1>2, <1>3

\* After any creations, deletions and sorts, in any order and however requests and
\* reports overlap, the keys of the provider are numbered from 1 without gaps or ties,
\* unless numbers were written that rest on others than the table had, or a key was moved
\* behind itself or with a key of another provider.
THEOREM NumbersDense == Spec => []Dense
<1>1. IInv /\ DenseInv /\ [Next]_vars => DenseInv' BY DenseStep
<1>2. DenseInv => Dense BY NumberedCount DEF DenseInv, Dense
<1> QED BY <1>1, <1>2, DenseInit, Kept, PTL DEF Spec

-----------------------------------------------------------------------------
(* The list.                                                               *)

\* What a sequence is without its i-th element, and with one put in.
LEMMA WithoutOne ==
  ASSUME NEW S, NEW s \in Seq(S), NEW i \in 1 .. Len(s)
  PROVE  /\ Console!RemoveAt(s, i) \in Seq(S) /\ Len(Console!RemoveAt(s, i)) = Len(s) - 1
         /\ \A j \in 1 .. Len(s) - 1 : Console!RemoveAt(s, i)[j] = IF j < i THEN s[j] ELSE s[j + 1]
<1> DEFINE a == SubSeq(s, 1, i - 1)
           b == SubSeq(s, i + 1, Len(s))
           n == Len(s)
<1>1. n \in Nat /\ i \in 1 .. n /\ \A j \in 1 .. n : s[j] \in S BY LenProperties, ElementOfSeq
<1>2. /\ a \in Seq(S) /\ Len(a) = i - 1
      /\ \A j \in 1 .. i - 1 : a[j] = s[j]
  <2>1. \A j \in 1 .. i - 1 : s[j] \in S BY <1>1
  <2>2. i - 1 \in Int /\ i - 1 \in Nat BY <1>1
  <2>3. /\ a \in Seq(S) /\ Len(a) = IF 1 <= i - 1 THEN (i - 1) - 1 + 1 ELSE 0
        /\ \A j \in 1 .. (i - 1) - 1 + 1 : a[j] = s[1 + j - 1]
    BY <2>1, <2>2, SubSeqProperties
  <2> HIDE DEF a
  <2>4. (i - 1) - 1 + 1 = i - 1 /\ (~ (1 <= i - 1) => i - 1 = 0) BY <2>2
  <2>5. \A j \in 1 .. i - 1 : 1 + j - 1 = j OBVIOUS
  <2> QED BY <2>3, <2>4, <2>5
<1>3. /\ b \in Seq(S) /\ Len(b) = n - i
      /\ \A j \in 1 .. n - i : b[j] = s[i + j]
  <2>1. \A j \in i + 1 .. n : s[j] \in S BY <1>1
  <2>2. i + 1 \in Int /\ n \in Int BY <1>1
  <2>3. /\ b \in Seq(S) /\ Len(b) = IF i + 1 <= n THEN n - (i + 1) + 1 ELSE 0
        /\ \A j \in 1 .. n - (i + 1) + 1 : b[j] = s[(i + 1) + j - 1]
    BY <2>1, <2>2, SubSeqProperties
  <2> HIDE DEF b, n
  <2>4. n - (i + 1) + 1 = n - i /\ (~ (i + 1 <= n) => n - i = 0) BY <1>1
  <2>5. \A j \in 1 .. n - i : (i + 1) + j - 1 = i + j BY <1>1
  <2> QED BY <2>3, <2>4, <2>5
<1>4. Console!RemoveAt(s, i) = a \o b BY DEF Console!RemoveAt
<1> HIDE DEF a, b, n
<1>5. /\ a \o b \in Seq(S) /\ Len(a \o b) = Len(a) + Len(b)
      /\ \A j \in 1 .. Len(a) + Len(b) : (a \o b)[j] = IF j <= Len(a) THEN a[j] ELSE b[j - Len(a)]
  BY <1>2, <1>3, ConcatProperties
<1>6. Len(a) + Len(b) = n - 1 BY <1>1, <1>2, <1>3
<1>7. \A j \in 1 .. n - 1 : (a \o b)[j] = IF j < i THEN s[j] ELSE s[j + 1]
  <2> TAKE j \in 1 .. n - 1
  <2>1. (a \o b)[j] = IF j <= i - 1 THEN a[j] ELSE b[j - (i - 1)] BY <1>2, <1>5, <1>6
  <2>2. CASE j < i
    <3>1. j <= i - 1 /\ j \in 1 .. i - 1 BY <1>1, <2>2
    <3> QED BY <1>2, <2>1, <2>2, <3>1
  <2>3. CASE ~ (j < i)
    <3>1. ~ (j <= i - 1) /\ j - (i - 1) \in 1 .. n - i /\ i + (j - (i - 1)) = j + 1 BY <1>1, <2>3
    <3> QED BY <1>3, <2>1, <2>3, <3>1
  <2> QED BY <2>2, <2>3
<1> QED BY <1>4, <1>5, <1>6, <1>7 DEF n

LEMMA WithOneMore ==
  ASSUME NEW S, NEW s \in Seq(S), NEW i \in 1 .. Len(s) + 1, NEW e \in S
  PROVE  /\ Console!InsertAt(s, i, e) \in Seq(S) /\ Len(Console!InsertAt(s, i, e)) = Len(s) + 1
         /\ \A j \in 1 .. Len(s) + 1 :
              Console!InsertAt(s, i, e)[j] = IF j < i THEN s[j] ELSE IF j = i THEN e ELSE s[j - 1]
<1> DEFINE a == SubSeq(s, 1, i - 1)
           b == SubSeq(s, i, Len(s))
           c == a \o <<e>>
           n == Len(s)
<1>1. n \in Nat /\ i \in 1 .. n + 1 /\ \A j \in 1 .. n : s[j] \in S BY LenProperties, ElementOfSeq
<1>2. /\ a \in Seq(S) /\ Len(a) = i - 1
      /\ \A j \in 1 .. i - 1 : a[j] = s[j]
  <2>1. \A j \in 1 .. i - 1 : s[j] \in S BY <1>1
  <2>2. i - 1 \in Int /\ i - 1 \in Nat BY <1>1
  <2>3. /\ a \in Seq(S) /\ Len(a) = IF 1 <= i - 1 THEN (i - 1) - 1 + 1 ELSE 0
        /\ \A j \in 1 .. (i - 1) - 1 + 1 : a[j] = s[1 + j - 1]
    BY <2>1, <2>2, SubSeqProperties
  <2> HIDE DEF a
  <2>4. (i - 1) - 1 + 1 = i - 1 /\ (~ (1 <= i - 1) => i - 1 = 0) BY <2>2
  <2>5. \A j \in 1 .. i - 1 : 1 + j - 1 = j OBVIOUS
  <2> QED BY <2>3, <2>4, <2>5
<1>3. /\ b \in Seq(S) /\ Len(b) = n - i + 1
      /\ \A j \in 1 .. n - i + 1 : b[j] = s[i + j - 1]
  <2>1. \A j \in i .. n : s[j] \in S BY <1>1
  <2>2. i \in Int /\ n \in Int BY <1>1
  <2>3. /\ b \in Seq(S) /\ Len(b) = IF i <= n THEN n - i + 1 ELSE 0
        /\ \A j \in 1 .. n - i + 1 : b[j] = s[i + j - 1]
    BY <2>1, <2>2, SubSeqProperties
  <2> HIDE DEF b, n
  <2>4. ~ (i <= n) => n - i + 1 = 0 BY <1>1
  <2> QED BY <2>3, <2>4
<1>4. Console!InsertAt(s, i, e) = c \o b BY DEF Console!InsertAt
<1>5. /\ c \in Seq(S) /\ Len(c) = i
      /\ \A j \in 1 .. i : c[j] = IF j < i THEN s[j] ELSE e
  <2> HIDE DEF a
  <2>0. <<e>> \in Seq(S) /\ Len(<<e>>) = 1 /\ <<e>>[1] = e OBVIOUS
  <2>1. /\ c \in Seq(S) /\ Len(c) = (i - 1) + 1
        /\ \A j \in 1 .. (i - 1) + 1 : c[j] = IF j <= i - 1 THEN a[j] ELSE <<e>>[j - (i - 1)]
    BY <1>2, <2>0, ConcatProperties
  <2> HIDE DEF c
  <2>2. (i - 1) + 1 = i BY <1>1
  <2>3. \A j \in 1 .. i : c[j] = IF j < i THEN s[j] ELSE e
    <3> TAKE j \in 1 .. i
    <3>1. CASE j < i
      <4>1. j <= i - 1 /\ j \in 1 .. i - 1 BY <1>1, <3>1
      <4> QED BY <1>2, <2>1, <2>2, <3>1, <4>1
    <3>2. CASE ~ (j < i)
      <4>1. ~ (j <= i - 1) /\ j - (i - 1) = 1 BY <1>1, <3>2
      <4> QED BY <2>0, <2>1, <2>2, <3>2, <4>1
    <3> QED BY <3>1, <3>2
  <2> QED BY <2>1, <2>2, <2>3
<1> HIDE DEF a, b, c, n
<1>6. /\ c \o b \in Seq(S) /\ Len(c \o b) = Len(c) + Len(b)
      /\ \A j \in 1 .. Len(c) + Len(b) : (c \o b)[j] = IF j <= Len(c) THEN c[j] ELSE b[j - Len(c)]
  BY <1>3, <1>5, ConcatProperties
<1>7. Len(c) + Len(b) = n + 1 BY <1>1, <1>3, <1>5
<1>8. \A j \in 1 .. n + 1 : (c \o b)[j] = IF j < i THEN s[j] ELSE IF j = i THEN e ELSE s[j - 1]
  <2> TAKE j \in 1 .. n + 1
  <2>1. (c \o b)[j] = IF j <= i THEN c[j] ELSE b[j - i] BY <1>5, <1>6, <1>7
  <2>2. CASE j <= i
    <3>1. j \in 1 .. i /\ (~ (j < i) => j = i) BY <1>1, <2>2
    <3> QED BY <1>5, <2>1, <2>2, <3>1
  <2>3. CASE ~ (j <= i)
    <3>1. ~ (j < i) /\ j # i /\ j - i \in 1 .. n - i + 1 /\ i + (j - i) - 1 = j - 1 BY <1>1, <2>3
    <3> QED BY <1>3, <2>1, <2>3, <3>1
  <2> QED BY <2>2, <2>3
<1> QED BY <1>4, <1>6, <1>7, <1>8 DEF n

\* Where an element of a list without ties is.
LEMMA Found ==
  ASSUME NEW S, NEW s \in Seq(S), NEW i \in 1 .. Len(s),
         \A j \in 1 .. Len(s) : s[j] = s[i] => j = i
  PROVE  Console!At(s, s[i]) = i
<1>1. DOMAIN s = 1 .. Len(s) BY LenProperties
<1> QED BY <1>1 DEF Console!At

\* What moving an element next to another one does to a list without ties.
LEMMA MovedForm ==
  ASSUME NEW S, NEW s \in Seq(S), NEW a \in 1 .. Len(s), NEW b \in 1 .. Len(s), a # b,
         NEW before \in BOOLEAN, \A i, j \in 1 .. Len(s) : s[i] = s[j] => i = j
  PROVE  LET p   == IF a < b THEN IF before THEN b - 1 ELSE b ELSE IF before THEN b ELSE b + 1
             new == Console!Moved(s, s[a], s[b], before)
         IN /\ new \in Seq(S) /\ Len(new) = Len(s)
            /\ \A j \in 1 .. Len(s) :
                 new[j] = s[IF j = p THEN a ELSE IF a <= j /\ j < p THEN j + 1
                            ELSE IF p < j /\ j <= a THEN j - 1 ELSE j]
<1> DEFINE n == Len(s)
           p == IF a < b THEN IF before THEN b - 1 ELSE b ELSE IF before THEN b ELSE b + 1
           rest == Console!RemoveAt(s, a)
           c == IF b < a THEN b ELSE b - 1
           new == Console!InsertAt(rest, p, s[a])
<1>1. n \in Nat /\ a \in 1 .. n /\ b \in 1 .. n /\ s[a] \in S BY LenProperties, ElementOfSeq
<1>2. /\ rest \in Seq(S) /\ Len(rest) = n - 1
      /\ \A j \in 1 .. n - 1 : rest[j] = IF j < a THEN s[j] ELSE s[j + 1]
  BY WithoutOne
<1>3. Console!At(s, s[a]) = a BY Found
<1> HIDE DEF n, rest, p
<1>4. c \in 1 .. n - 1 /\ rest[c] = s[b]
  <2>1. CASE b < a BY <1>1, <1>2, <2>1
  <2>2. CASE ~ (b < a)
    <3>1. c = b - 1 /\ c \in 1 .. n - 1 /\ ~ (c < a) /\ c + 1 = b BY <1>1, <2>2
    <3> HIDE DEF c
    <3> QED BY <1>2, <3>1
  <2> QED BY <2>1, <2>2
<1>5. \A i, j \in 1 .. n - 1 : rest[i] = rest[j] => i = j
  <2> SUFFICES ASSUME NEW i \in 1 .. n - 1, NEW j \in 1 .. n - 1, rest[i] = rest[j] PROVE i = j OBVIOUS
  <2> DEFINE x == IF i < a THEN i ELSE i + 1
             y == IF j < a THEN j ELSE j + 1
  <2>1. x \in 1 .. n /\ y \in 1 .. n BY <1>1
  <2>2. s[x] = s[y] BY <1>2
  <2>3. x = y
    <3> HIDE DEF x, y
    <3> QED BY <2>1, <2>2 DEF n
  <2> QED BY <1>1, <2>3
<1>6. Console!At(rest, s[b]) = c
  <2>1. \A j \in 1 .. Len(rest) : rest[j] = rest[c] => j = c BY <1>2, <1>4, <1>5
  <2> HIDE DEF c
  <2> QED BY <1>2, <1>4, <2>1, Found
<1>7. p = (IF before THEN c ELSE c + 1) BY <1>1 DEF p
<1>8. Console!Moved(s, s[a], s[b], before) = new
  <2> HIDE DEF c
  <2> QED BY <1>3, <1>6, <1>7 DEF Console!Moved, rest
<1>9. p \in 1 .. (n - 1) + 1 BY <1>1, <1>4, <1>7
<1> HIDE DEF c
<1>10. /\ new \in Seq(S) /\ Len(new) = (n - 1) + 1
       /\ \A j \in 1 .. (n - 1) + 1 :
            new[j] = IF j < p THEN rest[j] ELSE IF j = p THEN s[a] ELSE rest[j - 1]
  <2>1. p \in 1 .. Len(rest) + 1 BY <1>2, <1>9
  <2>2. /\ new \in Seq(S) /\ Len(new) = Len(rest) + 1
        /\ \A j \in 1 .. Len(rest) + 1 :
             new[j] = IF j < p THEN rest[j] ELSE IF j = p THEN s[a] ELSE rest[j - 1]
    <3> HIDE DEF new
    <3>1. PICK q \in 1 .. Len(rest) + 1 : q = p BY <2>1
    <3>2. PICK e \in S : e = s[a] BY <1>1
    <3>3. new = Console!InsertAt(rest, q, e) BY <3>1, <3>2 DEF new
    <3>4. rest \in Seq(S) BY <1>2
    <3>5. /\ Console!InsertAt(rest, q, e) \in Seq(S)
          /\ Len(Console!InsertAt(rest, q, e)) = Len(rest) + 1
          /\ \A j \in 1 .. Len(rest) + 1 :
               Console!InsertAt(rest, q, e)[j] = IF j < q THEN rest[j] ELSE IF j = q THEN e ELSE rest[j - 1]
      BY <3>4, WithOneMore
    <3> QED BY <3>1, <3>2, <3>3, <3>5
  <2> HIDE DEF new
  <2> QED BY <1>2, <2>2
<1> HIDE DEF new
<1>11. (n - 1) + 1 = n BY <1>1
<1>12. \A j \in 1 .. n :
         new[j] = s[IF j = p THEN a ELSE IF a <= j /\ j < p THEN j + 1
                    ELSE IF p < j /\ j <= a THEN j - 1 ELSE j]
  <2> TAKE j \in 1 .. n
  <2>1. CASE j = p BY <1>1, <1>9, <1>10, <1>11, <2>1
  <2>2. CASE j < p
    <3>1. j \in 1 .. n - 1 /\ j # p /\ ~ (p < j) BY <1>1, <1>9, <1>11, <2>2
    <3>2. new[j] = rest[j] BY <1>10, <1>11, <2>2
    <3> QED BY <1>1, <1>2, <2>2, <3>1, <3>2
  <2>3. CASE p < j
    <3>1. j - 1 \in 1 .. n - 1 /\ j # p /\ ~ (j < p) /\ (j - 1) + 1 = j BY <1>1, <1>9, <1>11, <2>3
    <3>2. new[j] = rest[j - 1] BY <1>10, <1>11, <3>1
    <3>3. j <= a <=> j - 1 < a BY <1>1
    <3> QED BY <1>1, <1>2, <2>3, <3>1, <3>2, <3>3
  <2> QED BY <1>1, <1>9, <2>1, <2>2, <2>3
<1> QED BY <1>8, <1>10, <1>11, <1>12 DEF n, p

\* The list of the console, when the numbers are those of a list.
LEMMA OrderForm ==
  ASSUME ~ skewed, NEW n \in Nat, Numbered(n)
  PROVE  /\ Order \in Seq(Stored) /\ Len(Order) = n
         /\ \A i \in 1 .. n : Order[i] \in Stored /\ key[Order[i]].number = i
         /\ \A k \in Stored : key[k].number \in 1 .. n /\ Order[key[k].number] = k
<1>1. /\ \A k \in Stored : key[k].number \in 1 .. n
      /\ \A i \in 1 .. n : \E k \in Stored : key[k].number = i
      /\ \A j, k \in Stored : key[j].number = key[k].number => j = k
  BY DEF Numbered
<1>2. /\ Listed(key, Stored) \in Seq(Stored) /\ Len(Listed(key, Stored)) = n
      /\ \A i \in 1 .. n : Listed(key, Stored)[i] \in Stored /\ key[Listed(key, Stored)[i]].number = i
      /\ \A k \in Stored : Listed(key, Stored)[key[k].number] = k
  BY ONLY <1>1, n \in Nat, ListedForm
<1>3. Order = Listed(key, Stored) BY DEF Order, Listed
<1> QED BY <1>1, <1>2, <1>3

LEMMA OrderFormNext ==
  ASSUME ~ skewed', NEW n \in Nat, Numbered(n)'
  PROVE  /\ Order' \in Seq(Stored') /\ Len(Order') = n
         /\ \A i \in 1 .. n : Order'[i] \in Stored' /\ key'[Order'[i]].number = i
         /\ \A k \in Stored' : key'[k].number \in 1 .. n /\ Order'[key'[k].number] = k
<1>1. /\ \A k \in Stored' : key'[k].number \in 1 .. n
      /\ \A i \in 1 .. n : \E k \in Stored' : key'[k].number = i
      /\ \A j, k \in Stored' : key'[j].number = key'[k].number => j = k
  BY DEF Numbered
<1>2. /\ Listed(key', Stored') \in Seq(Stored') /\ Len(Listed(key', Stored')) = n
      /\ \A i \in 1 .. n : Listed(key', Stored')[i] \in Stored' /\ key'[Listed(key', Stored')[i]].number = i
      /\ \A k \in Stored' : Listed(key', Stored')[key'[k].number] = k
  BY ONLY <1>1, n \in Nat, ListedForm
<1>3. Order' = Listed(key', Stored') BY DEF Order, Listed
<1> QED BY <1>1, <1>2, <1>3

\* What the console's list is not told: statuses.
LEMMA SameOrder ==
  ASSUME Same(key, key'), ~ skewed, ~ skewed'
  PROVE  Order' = Order
<1>1. Stored' = Stored /\ \A k \in Stored : key'[k].number = key[k].number BY DEF Same, Stored
<1> HIDE DEF Stored
<1> DEFINE f(n) == CHOOSE k \in Stored : key[k].number = n
           g(n) == CHOOSE k \in Stored : key'[k].number = n
<1>3. \A n : f(n) = g(n) BY <1>1
<1> DEFINE F == [n \in 1 .. Cardinality(Stored) |-> f(n)]
           G == [n \in 1 .. Cardinality(Stored) |-> g(n)]
<1>4. F = G
  <2> HIDE DEF f, g
  <2> QED BY <1>3
<1>5. Order = F BY DEF Order
<1>6. Order' = G BY <1>1 DEF Order
<1> HIDE DEF F, G
<1> QED BY <1>4, <1>5, <1>6

\* The first key is the list's only one.
LEMMA FirstListed ==
  ASSUME FirstNum, ~ skewed, ~ skewed'
  PROVE  Console!Add(Default)
<1>3. Stored = {} /\ Stored' = {Default} /\ key'[Default].number = 1 BY DEF FirstNum
<1>5. Numbered(0) /\ Numbered(1)' BY FirstForm
<1>7. Order \in Seq(Stored) /\ Len(Order) = 0 BY <1>5, OrderForm
<1>8. Order = <<>> BY <1>7, EmptySeq
<1>9. Order' \in Seq({Default}) /\ Len(Order') = 1 /\ Order'[1] = Default BY <1>3, <1>5, OrderFormNext
<1>10. <<>> \in Seq({Default}) BY EmptySeq
<1>11. /\ Append(<<>>, Default) \in Seq({Default}) /\ Len(Append(<<>>, Default)) = 1
       /\ Append(<<>>, Default)[1] = Default
  OBVIOUS
<1>12. Order' = Append(<<>>, Default) BY <1>9, <1>11, SeqEqual
<1>13. Console!Range(<<>>) = {} BY DEF Console!Range
<1> QED BY <1>8, <1>12, <1>13 DEF Console!Add

\* A new key is the last of the list.
LEMMA LastListed ==
  ASSUME NEW n \in Nat, Numbered(n), NEW k, LastNum(k), ~ skewed, ~ skewed'
  PROVE  Console!Add(k)
<1>1. k \notin Stored BY DEF LastNum
<1>2. /\ Stored' = Stored \cup {k} /\ key'[k].number = n + 1
      /\ \A j \in Stored : key'[j].number = key[j].number
      /\ Numbered(n + 1)'
  BY LastForm DEF LastNum
<1>3. /\ Order \in Seq(Stored) /\ Len(Order) = n
      /\ \A i \in 1 .. n : Order[i] \in Stored /\ key[Order[i]].number = i
  BY OrderForm
<1>4. /\ Order' \in Seq(Stored') /\ Len(Order') = n + 1
      /\ \A j \in Stored' : Order'[key'[j].number] = j
  BY <1>2, OrderFormNext
<1>5. Order \in Seq(Stored') /\ k \in Stored' BY <1>2, <1>3, SeqMonotonic
<1>6. /\ Append(Order, k) \in Seq(Stored') /\ Len(Append(Order, k)) = n + 1
      /\ \A i \in 1 .. n : Append(Order, k)[i] = Order[i]
      /\ Append(Order, k)[n + 1] = k
  BY <1>3, <1>5, AppendProperties
<1>7. \A i \in 1 .. n + 1 : Order'[i] = Append(Order, k)[i]
  <2> TAKE i \in 1 .. n + 1
  <2>1. CASE i = n + 1 BY <1>2, <1>4, <1>6, <2>1
  <2>2. CASE i \in 1 .. n BY <1>2, <1>3, <1>4, <1>6, <2>2
  <2>3. i = n + 1 \/ i \in 1 .. n OBVIOUS
  <2> QED BY <2>1, <2>2, <2>3
<1>8. Order' = Append(Order, k) BY <1>4, <1>6, <1>7, SeqEqual
<1>9. k \notin Console!Range(Order)
  <2>1. DOMAIN Order = 1 .. n BY <1>3, LenProperties
  <2> QED BY <1>1, <1>3, <2>1 DEF Console!Range
<1> QED BY <1>8, <1>9 DEF Console!Add

\* A deleted key is taken out of the list.
LEMMA TakenOut ==
  ASSUME NEW n \in Nat, Numbered(n), NEW k, LessNum(k), ~ skewed, ~ skewed'
  PROVE  Console!TakeOut(k)
<1> DEFINE a == key[k].number
           new == Console!RemoveAt(Order, a)
<1>2. /\ k \in Stored /\ Stored' = Stored \ {k}
      /\ \A j \in Stored \ {k} : key'[j].number =
           IF key[j].number > a THEN key[j].number - 1 ELSE key[j].number
      /\ n - 1 \in Nat /\ Numbered(n - 1)'
  BY LessForm DEF LessNum
<1>3. /\ Order \in Seq(Stored) /\ Len(Order) = n
      /\ \A i \in 1 .. n : Order[i] \in Stored /\ key[Order[i]].number = i
      /\ a \in 1 .. n /\ Order[a] = k
  BY <1>2, OrderForm
<1>4. /\ Order' \in Seq(Stored') /\ Len(Order') = n - 1
      /\ \A j \in Stored' : Order'[key'[j].number] = j
  BY <1>2, OrderFormNext
<1> HIDE DEF a
<1>5. /\ new \in Seq(Stored) /\ Len(new) = n - 1
      /\ \A i \in 1 .. n - 1 : new[i] = IF i < a THEN Order[i] ELSE Order[i + 1]
  BY <1>3, WithoutOne
<1> HIDE DEF new
<1>6. \A i \in 1 .. n - 1 : Order'[i] = new[i]
  <2> TAKE i \in 1 .. n - 1
  <2> DEFINE j == IF i < a THEN i ELSE i + 1
  <2>1. j \in 1 .. n /\ j # a /\ (IF j > a THEN j - 1 ELSE j) = i BY <1>3
  <2>2. new[i] = Order[j] BY <1>5
  <2> HIDE DEF j
  <2>3. Order[j] \in Stored \ {k} /\ key[Order[j]].number = j BY <1>3, <2>1 DEF a
  <2>4. key'[Order[j]].number = i BY <1>2, <2>1, <2>3
  <2> QED BY <1>2, <1>4, <2>2, <2>3, <2>4
<1>7. Order' \in Seq(Stored) BY <1>2, <1>4, SeqMonotonic
<1>8. Order' = new BY <1>4, <1>5, <1>6, <1>7, SeqEqual
<1>9. Console!At(Order, k) = a
  <2>1. \A j \in 1 .. Len(Order) : Order[j] = Order[a] => j = a BY <1>3
  <2> QED BY <1>3, <2>1, Found
<1>10. k \in Console!Range(Order)
  <2>1. DOMAIN Order = 1 .. n BY <1>3, LenProperties
  <2> QED BY <1>3, <2>1 DEF Console!Range
<1> QED BY <1>8, <1>9, <1>10 DEF Console!TakeOut, new

\* A sorted key is moved next to the other one.
LEMMA MovedNext ==
  ASSUME Core, NEW n \in Nat, Numbered(n), NEW o, NEW t, o # t, NEW before \in BOOLEAN,
         SortNum(o, t, before), ~ skewed, ~ skewed'
  PROVE  Console!Move(o, t, before)
<1> DEFINE a == key[o].number
           b == key[t].number
           p == Place(key[o].number, key[t].number, before)
           new == Console!Moved(Order, o, t, before)
<1>2. /\ o \in Stored /\ t \in Stored /\ Stored' = Stored /\ p \in 1 .. n
      /\ \A k \in Stored : key'[k].number =
           IF k = o THEN p
           ELSE IF a < key[k].number /\ key[k].number <= p THEN key[k].number - 1
           ELSE IF p <= key[k].number /\ key[k].number < a THEN key[k].number + 1
           ELSE key[k].number
      /\ Numbered(n)'
  BY SortForm
<1>3. /\ Order \in Seq(Stored) /\ Len(Order) = n
      /\ \A i \in 1 .. n : Order[i] \in Stored /\ key[Order[i]].number = i
      /\ a \in 1 .. n /\ Order[a] = o /\ b \in 1 .. n /\ Order[b] = t
  BY <1>2, OrderForm
<1>4. /\ Order' \in Seq(Stored) /\ Len(Order') = n
      /\ \A k \in Stored : Order'[key'[k].number] = k
  BY <1>2, OrderFormNext
<1>5. p = IF a < b THEN IF before THEN b - 1 ELSE b ELSE IF before THEN b ELSE b + 1 BY DEF Place
<1> HIDE DEF a, b, p
<1>6. /\ new \in Seq(Stored) /\ Len(new) = n
      /\ \A j \in 1 .. n :
           new[j] = Order[IF j = p THEN a ELSE IF a <= j /\ j < p THEN j + 1
                          ELSE IF p < j /\ j <= a THEN j - 1 ELSE j]
  <2>1. \A i, j \in 1 .. Len(Order) : Order[i] = Order[j] => i = j BY <1>3
  <2>2. a # b BY <1>3
  <2>3. a \in 1 .. Len(Order) /\ b \in 1 .. Len(Order) BY <1>3
  <2> DEFINE new2 == Console!Moved(Order, Order[a], Order[b], before)
             q    == IF a < b THEN IF before THEN b - 1 ELSE b ELSE IF before THEN b ELSE b + 1
  <2>4. /\ new2 \in Seq(Stored) /\ Len(new2) = Len(Order)
        /\ \A j \in 1 .. Len(Order) :
             new2[j] = Order[IF j = q THEN a ELSE IF a <= j /\ j < q THEN j + 1
                             ELSE IF q < j /\ j <= a THEN j - 1 ELSE j]
    <3>1. PICK x \in 1 .. Len(Order) : x = a BY <2>3
    <3>2. PICK y \in 1 .. Len(Order) : y = b BY <2>3
    <3>3. x # y BY <2>2, <3>1, <3>2
    <3>4. Order \in Seq(Stored) BY <1>3
    <3> DEFINE new3 == Console!Moved(Order, Order[x], Order[y], before)
               r    == IF x < y THEN IF before THEN y - 1 ELSE y ELSE IF before THEN y ELSE y + 1
    <3>5. /\ new3 \in Seq(Stored) /\ Len(new3) = Len(Order)
          /\ \A j \in 1 .. Len(Order) :
               new3[j] = Order[IF j = r THEN x ELSE IF x <= j /\ j < r THEN j + 1
                               ELSE IF r < j /\ j <= x THEN j - 1 ELSE j]
      BY <2>1, <3>3, <3>4, MovedForm
    <3>6. new3 = new2 /\ r = q BY <3>1, <3>2
    <3> HIDE DEF new3, new2, r, q
    <3> QED BY <3>1, <3>5, <3>6
  <2>5. new2 = new BY <1>3
  <2>6. q = p BY <1>5
  <2> HIDE DEF new2, new, q
  <2> QED BY <1>3, <2>4, <2>5, <2>6
<1> HIDE DEF new
<1>7. \A i \in 1 .. n : Order'[i] = new[i]
  <2> TAKE i \in 1 .. n
  <2> DEFINE j == IF i = p THEN a ELSE IF a <= i /\ i < p THEN i + 1
                  ELSE IF p < i /\ i <= a THEN i - 1 ELSE i
  <2>1. j \in 1 .. n BY <1>2, <1>3
  <2>2. new[i] = Order[j] BY <1>6
  <2>3. i # p => j # a /\
          (IF a < j /\ j <= p THEN j - 1 ELSE IF p <= j /\ j < a THEN j + 1 ELSE j) = i
    BY <1>2, <1>3
  <2>4. i = p => j = a OBVIOUS
  <2> HIDE DEF j
  <2>5. Order[j] \in Stored /\ key[Order[j]].number = j BY <1>3, <2>1
  <2>6. key'[Order[j]].number = i
    <3>1. CASE i = p BY <1>2, <1>3, <2>4, <2>5, <3>1
    <3>2. CASE i # p
      <4>1. Order[j] # o BY <2>3, <2>5, <3>2 DEF a
      <4> QED BY <1>2, <2>3, <2>5, <3>2, <4>1
    <3> QED BY <3>1, <3>2
  <2> QED BY <1>4, <2>2, <2>5, <2>6
<1>8. Order' = new BY <1>4, <1>6, <1>7, SeqEqual
<1>9. {o, t} \subseteq Console!Range(Order)
  <2>1. DOMAIN Order = 1 .. n BY <1>3, LenProperties
  <2> QED BY <1>3, <2>1 DEF Console!Range
<1> QED BY <1>8, <1>9 DEF Console!Move, new

Listing == skewed \/ skewed' \/ UNCHANGED key \/ Console!ListNext \/ UNCHANGED Order

LEMMA ListStep == IInv /\ DenseInv /\ [Next]_vars => Listing
<1> SUFFICES ASSUME IInv, DenseInv, [Next]_vars, ~ skewed, ~ skewed'
             PROVE  Console!ListNext \/ Order' = Order
  BY DEF Listing
<1>1. Renumbered BY NumStep
<1>2. PICK n \in Nat : Numbered(n) BY DEF DenseInv
<1>3. CASE Stored' = {}
  <2>1. Numbered(0)' BY <1>3 DEF Numbered
  <2>2. Order' \in Seq(Stored') /\ Len(Order') = 0 BY <2>1, OrderFormNext
  <2>3. Order' = <<>> BY <2>2, EmptySeq
  <2> QED BY <2>3 DEF Console!ListNext, Console!Clear
<1>4. CASE Same(key, key') BY <1>4, SameOrder
<1>5. CASE FirstNum
  <2>1. Console!Add(Default) BY <1>5, FirstListed
  <2> QED BY <2>1, DefaultAssumption DEF Console!ListNext
<1>6. ASSUME NEW k \in Keys, LastNum(k) PROVE Console!ListNext
  <2>1. Console!Add(k) BY <1>2, <1>6, LastListed
  <2> QED BY <2>1 DEF Console!ListNext
<1>7. ASSUME NEW k \in Keys, LessNum(k) PROVE Console!ListNext
  <2>1. Console!TakeOut(k) BY <1>2, <1>7, TakenOut
  <2> QED BY <2>1 DEF Console!ListNext
<1>8. ASSUME NEW o \in Keys, NEW t \in Keys, NEW before \in BOOLEAN, SortNum(o, t, before)
      PROVE  Console!ListNext \/ Order' = Order
  <2>1. CASE o = t
    <3>1. /\ o \in Stored /\ Stored' = Stored
          /\ \A k \in Stored : key'[k].number =
               IF k = o THEN Place(key[o].number, key[t].number, before)
               ELSE IF key[o].number < key[k].number /\ key[k].number <= Place(key[o].number, key[t].number, before)
                 THEN key[k].number - 1
               ELSE IF Place(key[o].number, key[t].number, before) <= key[k].number /\ key[k].number < key[o].number
                 THEN key[k].number + 1
               ELSE key[k].number
      BY <1>2, <1>8, SortForm DEF IInv
    <3>2. before BY <1>8, <2>1 DEF SortNum
    <3>3. key[o].number \in Nat BY <1>2, <3>1 DEF Numbered
    <3>4. Place(key[o].number, key[t].number, before) = key[o].number
      BY <2>1, <3>2, <3>3 DEF Place
    <3>5. \A k \in Stored : key[k].number \in Nat BY <1>2 DEF Numbered
    <3>6. \A k \in Stored : key'[k].number = key[k].number BY <3>1, <3>3, <3>4, <3>5
    <3>7. Same(key, key') BY <3>1, <3>6 DEF Same, Stored
    <3> QED BY <3>7, SameOrder
  <2>2. CASE o # t
    <3>1. Console!Move(o, t, before) BY <1>2, <1>8, <2>2, MovedNext DEF IInv
    <3> QED BY <2>2, <3>1 DEF Console!ListNext
  <2> QED BY <2>1, <2>2
<1> QED BY <1>1, <1>3, <1>4, <1>5, <1>6, <1>7, <1>8 DEF Renumbered

LEMMA ListStart == Init => Console!ListInit
<1> SUFFICES ASSUME Init PROVE Order = <<>> BY DEF Console!ListInit
<1>1. Stored = {} /\ ~ skewed BY DEF Init, Stored, StoredIn
<1>2. Numbered(0) BY <1>1 DEF Numbered
<1>3. Order \in Seq(Stored) /\ Len(Order) = 0 BY <1>1, <1>2, OrderForm
<1> QED BY <1>3, EmptySeq

\* The numbers implement the list of the console: a new key is added at its end, a
\* deleted one taken out, a sorted one moved next to the other, and nothing else moves.
THEOREM ListImplemented == Spec => ImplementsList
<1>1. IInv /\ DenseInv /\ [Next]_vars => [skewed \/ skewed' \/ UNCHANGED key \/ Console!ListNext]_Order
  BY ListStep DEF Listing
<1>2. IInv /\ DenseInv /\ [Next]_vars => DenseInv' BY DenseStep
<1> QED BY <1>1, <1>2, DenseInit, ListStart, Kept, PTL DEF Spec, ImplementsList
-----------------------------------------------------------------------------
(* The page.                                                               *)

\* Where the row now at place x was before the i-th was dropped at place j.
From(i, j, x) == IF x = j THEN i ELSE IF i <= x /\ x < j THEN x + 1
                 ELSE IF j < x /\ x <= i THEN x - 1 ELSE x

\* The number, among numbers, that y becomes when a becomes p and those between make room.
Room(a, p, y) == IF y = a THEN p ELSE IF a < y /\ y <= p THEN y - 1
                 ELSE IF p <= y /\ y < a THEN y + 1 ELSE y

\* Others keep their order when one moves.
LEMMA RoomRises ==
  ASSUME NEW a \in Nat, NEW p \in Nat, NEW y \in Nat, NEW z \in Nat, y # a, z # a, y < z
  PROVE  Room(a, p, y) < Room(a, p, z)
BY DEF Room

LEMMA FromForm ==
  ASSUME NEW m \in Nat, NEW i \in 1 .. m, NEW j \in 1 .. m, i # j, NEW u \in 1 .. m, NEW v \in 1 .. m, u < v
  PROVE  /\ From(i, j, u) \in 1 .. m /\ From(i, j, v) \in 1 .. m
         /\ u # j => From(i, j, u) # i
         /\ v # j => From(i, j, v) # i
         /\ u # j /\ v # j => From(i, j, u) < From(i, j, v)
         /\ v = j => IF i < j THEN From(i, j, u) <= j ELSE From(i, j, u) <= j - 1 /\ j > 1
         /\ u = j => IF i < j THEN From(i, j, v) > j ELSE From(i, j, v) >= j
BY DEF From

\* Numbers that rose rise again once the i-th of them has moved to the place of the j-th.
LEMMA DragRises ==
  ASSUME NEW m \in Nat, NEW at \in [1 .. m -> Nat], NEW i \in 1 .. m, NEW j \in 1 .. m, i # j,
         \A x, y \in 1 .. m : x < y => at[x] < at[y],
         NEW u \in 1 .. m, NEW v \in 1 .. m, u < v
  PROVE  LET p == IF i < j THEN at[j] ELSE IF j = 1 THEN at[1] ELSE at[j - 1] + 1
         IN Room(at[i], p, at[From(i, j, u)]) < Room(at[i], p, at[From(i, j, v)])
<1> DEFINE p == IF i < j THEN at[j] ELSE IF j = 1 THEN at[1] ELSE at[j - 1] + 1
           x == From(i, j, u)
           y == From(i, j, v)
           a == at[i]
<1>1. /\ x \in 1 .. m /\ y \in 1 .. m
      /\ u # j => x # i
      /\ v # j => y # i
      /\ u # j /\ v # j => x < y
      /\ v = j => IF i < j THEN x <= j ELSE x <= j - 1 /\ j > 1
      /\ u = j => IF i < j THEN y > j ELSE y >= j
  BY FromForm
<1>2. (u = j => x = i) /\ (v = j => y = i) BY DEF From
<1>3. at[x] \in Nat /\ at[y] \in Nat /\ a \in Nat /\ at[j] \in Nat BY <1>1
<1>4. j # 1 => j - 1 \in 1 .. m /\ at[j - 1] \in Nat /\ at[j - 1] < at[j] OBVIOUS
<1>5. p \in Nat BY <1>3, <1>4
<1>6. \A z \in 1 .. m : z # i => at[z] # a
  <2> SUFFICES ASSUME NEW z \in 1 .. m, z # i PROVE at[z] # a OBVIOUS
  <2>1. z < i \/ i < z OBVIOUS
  <2> QED BY <2>1
<1>7. \A z \in 1 .. m : z <= j => at[z] <= at[j]
  <2> SUFFICES ASSUME NEW z \in 1 .. m, z <= j PROVE at[z] <= at[j] OBVIOUS
  <2>1. z = j \/ z < j OBVIOUS
  <2>2. at[z] \in Nat OBVIOUS
  <2> QED BY <1>3, <2>1, <2>2
<1>8. \A z \in 1 .. m : z >= j => at[z] >= at[j] BY <1>3
<1>9. IF i < j THEN a < p /\ p = at[j] ELSE p <= at[j] /\ p <= a /\ (j # 1 => p = at[j - 1] + 1)
  <2>1. CASE i < j BY <2>1
  <2>2. CASE ~ (i < j)
    <3>1. j < i /\ at[j] < a BY <2>2
    <3>2. CASE j = 1 BY <2>2, <3>1, <3>2, <1>3
    <3>3. CASE j # 1 BY <2>2, <3>1, <3>3, <1>3, <1>4
    <3> QED BY <3>2, <3>3
  <2> QED BY <2>1, <2>2
<1> HIDE DEF p, x, y, a
<1>10. CASE u # j /\ v # j
  <2>1. at[x] # a /\ at[y] # a /\ at[x] < at[y] BY <1>1, <1>6, <1>10
  <2>2. Room(a, p, at[x]) < Room(a, p, at[y]) BY <1>3, <1>5, <2>1, RoomRises
  <2> QED BY <2>2 DEF p, x, y, a
<1>11. CASE v = j
  <2>1. at[x] # a /\ at[y] = a BY <1>1, <1>2, <1>6, <1>11 DEF a
  <2>2. IF i < j THEN at[x] <= at[j] ELSE j # 1 /\ at[x] <= at[j - 1]
    <3>1. CASE i < j BY <1>1, <1>7, <1>11, <3>1
    <3>2. CASE ~ (i < j)
      <4>1. x <= j - 1 /\ j > 1 /\ j - 1 \in 1 .. m BY <1>1, <1>11, <3>2
      <4>2. x = j - 1 \/ x < j - 1 BY <1>1, <4>1
      <4> QED BY <1>1, <1>3, <1>4, <3>2, <4>1, <4>2
    <3> QED BY <3>1, <3>2
  <2>3. Room(a, p, at[x]) < p
    <3>1. CASE i < j BY <1>3, <1>5, <1>9, <2>1, <2>2, <3>1 DEF Room
    <3>2. CASE ~ (i < j)
      <4>1. at[x] < p /\ p <= a BY <1>3, <1>4, <1>5, <1>9, <2>2, <3>2
      <4> QED BY <1>3, <1>5, <2>1, <4>1 DEF Room
    <3> QED BY <3>1, <3>2
  <2>4. Room(a, p, at[y]) = p BY <2>1 DEF Room
  <2> QED BY <2>3, <2>4 DEF p, x, y, a
<1>12. CASE u = j
  <2>1. at[y] # a /\ at[x] = a BY <1>1, <1>2, <1>6, <1>12 DEF a
  <2>2. IF i < j THEN at[y] > at[j] ELSE at[y] >= at[j]
    BY <1>1, <1>8, <1>12
  <2>3. Room(a, p, at[y]) > p
    <3>1. CASE i < j BY <1>3, <1>5, <1>9, <2>1, <2>2, <3>1 DEF Room
    <3>2. CASE ~ (i < j)
      <4>1. p <= at[y] /\ p <= a BY <1>3, <1>4, <1>5, <1>9, <2>2, <3>2
      <4> QED BY <1>3, <1>5, <2>1, <4>1 DEF Room
    <3> QED BY <3>1, <3>2
  <2>4. Room(a, p, at[x]) = p BY <2>1 DEF Room
  <2> QED BY <2>3, <2>4, <1>3, <1>5 DEF p, x, y, a, Room
<1> QED BY <1>10, <1>11, <1>12

\* What the rows are after the drag.
LEMMA DraggedForm ==
  ASSUME NEW S, NEW rows \in Seq(S), NEW i \in 1 .. Len(rows), NEW j \in 1 .. Len(rows), i # j
  PROVE  /\ DOMAIN Dragged(rows, i, j) = 1 .. Len(rows)
         /\ \A x \in 1 .. Len(rows) : Dragged(rows, i, j)[x] = rows[From(i, j, x)]
<1> DEFINE m    == Len(rows)
           rest == Console!RemoveAt(rows, i)
           new  == Console!InsertAt(rest, j, rows[i])
<1>1. m \in Nat /\ i \in 1 .. m /\ j \in 1 .. m /\ rows[i] \in S BY LenProperties, ElementOfSeq
<1>2. /\ rest \in Seq(S) /\ Len(rest) = m - 1
      /\ \A x \in 1 .. m - 1 : rest[x] = IF x < i THEN rows[x] ELSE rows[x + 1]
  BY WithoutOne
<1>3. Dragged(rows, i, j) = new
  BY DEF Dragged, RemoveAt, InsertAt, Console!RemoveAt, Console!InsertAt
<1> HIDE DEF m, rest, new
<1>4. /\ new \in Seq(S) /\ Len(new) = Len(rest) + 1
      /\ \A x \in 1 .. Len(rest) + 1 :
           new[x] = IF x < j THEN rest[x] ELSE IF x = j THEN rows[i] ELSE rest[x - 1]
  <2>1. PICK q \in 1 .. Len(rest) + 1 : q = j BY <1>1, <1>2
  <2>2. PICK e \in S : e = rows[i] BY <1>1
  <2>3. new = Console!InsertAt(rest, q, e) BY <2>1, <2>2 DEF new
  <2>4. rest \in Seq(S) BY <1>2
  <2>5. /\ Console!InsertAt(rest, q, e) \in Seq(S)
        /\ Len(Console!InsertAt(rest, q, e)) = Len(rest) + 1
        /\ \A x \in 1 .. Len(rest) + 1 :
             Console!InsertAt(rest, q, e)[x] = IF x < q THEN rest[x] ELSE IF x = q THEN e ELSE rest[x - 1]
    BY <2>4, WithOneMore
  <2> QED BY <2>1, <2>2, <2>3, <2>5
<1>5. Len(rest) + 1 = m BY <1>1, <1>2
<1>6. DOMAIN new = 1 .. m BY <1>4, <1>5, LenProperties
<1>7. \A x \in 1 .. m : new[x] = rows[From(i, j, x)]
  <2> TAKE x \in 1 .. m
  <2>1. CASE x = j BY <1>4, <1>5, <2>1 DEF From
  <2>2. CASE x < j
    <3>1. x \in 1 .. m - 1 BY <1>1, <2>2
    <3>2. new[x] = rest[x] BY <1>4, <1>5, <2>2
    <3>3. From(i, j, x) = IF x < i THEN x ELSE x + 1 BY <1>1, <2>2 DEF From
    <3> QED BY <1>2, <3>1, <3>2, <3>3
  <2>3. CASE j < x
    <3>1. x - 1 \in 1 .. m - 1 /\ ~ (x < j) /\ x # j BY <1>1, <2>3
    <3>2. new[x] = rest[x - 1] BY <1>4, <1>5, <3>1
    <3>3. From(i, j, x) = IF x - 1 < i THEN x - 1 ELSE (x - 1) + 1 BY <1>1, <2>3 DEF From
    <3> QED BY <1>2, <3>1, <3>2, <3>3
  <2> QED BY <1>1, <2>1, <2>2, <2>3
<1> QED BY <1>3, <1>6, <1>7 DEF m

\* The key next to which the page says a row was dropped.
LEMMA SentForm ==
  ASSUME NEW S, NEW rows \in Seq(S), NEW i \in 1 .. Len(rows), NEW j \in 1 .. Len(rows), i # j
  PROVE  SortRequest(rows, i, j) =
           [origin |-> rows[i],
            target |-> rows[IF i < j THEN j ELSE IF j = 1 THEN 1 ELSE j - 1],
            before |-> j = 1]
<1> DEFINE new == Dragged(rows, i, j)
<1>1. Len(rows) \in Nat BY LenProperties
<1>2. \A x \in 1 .. Len(rows) : new[x] = rows[From(i, j, x)] BY DraggedForm
<1>3. SortRequest(rows, i, j) = IF j > 1 THEN [origin |-> rows[i], target |-> new[j - 1], before |-> FALSE]
                                ELSE [origin |-> rows[i], target |-> new[j + 1], before |-> TRUE]
  BY DEF SortRequest
<1> HIDE DEF new
<1>4. CASE j > 1
  <2>1. j - 1 \in 1 .. Len(rows) BY <1>1, <1>4
  <2>2. From(i, j, j - 1) = IF i < j THEN j ELSE j - 1 BY <1>1, <1>4 DEF From
  <2>3. j # 1 BY <1>4
  <2> QED BY <1>2, <1>3, <1>4, <2>1, <2>2, <2>3
<1>5. CASE ~ (j > 1)
  <2>1. j = 1 /\ j + 1 \in 1 .. Len(rows) /\ ~ (i < j) BY <1>1, <1>5
  <2>2. From(i, j, j + 1) = 1 BY <1>1, <2>1 DEF From
  <2> QED BY <1>2, <1>3, <1>5, <2>1, <2>2
<1> QED BY <1>4, <1>5

\* Rows of the page are keys, and their numbers rise.
LEMMA ShownForm ==
  ASSUME NEW n \in Nat, Numbered(n), ~ skewed, NEW rows \in Shown
  PROVE  /\ rows \in Seq(Stored)
         /\ \A x \in 1 .. Len(rows) : key[rows[x]].number \in 1 .. n
         /\ \A x, y \in 1 .. Len(rows) : x < y => key[rows[x]].number < key[rows[y]].number
<1>1. /\ Order \in Seq(Stored) /\ Len(Order) = n
      /\ \A i \in 1 .. n : Order[i] \in Stored /\ key[Order[i]].number = i
  BY OrderForm
<1>2. DOMAIN Order = 1 .. n BY <1>1, LenProperties
<1>3. PICK m \in 1 .. n : \E at \in Rising(m) : rows = [x \in 1 .. m |-> Order[at[x]]]
  BY <1>2 DEF Shown
<1>4. PICK at \in Rising(m) : rows = [x \in 1 .. m |-> Order[at[x]]] BY <1>3
<1>5. at \in [1 .. m -> 1 .. n] /\ \A x, y \in 1 .. m : x < y => at[x] < at[y]
  BY <1>2 DEF Rising
<1>6. \A x \in 1 .. m : rows[x] = Order[at[x]] /\ at[x] \in 1 .. n BY <1>4, <1>5
<1>7. \A x \in 1 .. m : rows[x] \in Stored /\ key[rows[x]].number = at[x] BY <1>1, <1>6
<1>8. rows \in [1 .. m -> Stored] BY <1>4, <1>7
<1>9. rows \in Seq(Stored) /\ Len(rows) = m BY <1>8
<1> QED BY <1>5, <1>6, <1>7, <1>9

\* The numbers of the rows rise in the order in which the drag put them.
LEMMA DragKept ==
  ASSUME IInv, DenseInv
  PROVE  DragArrives
<1> SUFFICES ASSUME ~ skewed, NEW rows \in Shown, NEW i \in DOMAIN rows, NEW j \in DOMAIN rows, i # j,
                    NEW u \in DOMAIN Dragged(rows, i, j), NEW v \in DOMAIN Dragged(rows, i, j), u < v
             PROVE  LET sent == SortRequest(rows, i, j)
                        new  == Dragged(rows, i, j)
                        key2 == Sorted(key, sent.origin, sent.target, sent.before)
                    IN key2[new[u]].number < key2[new[v]].number
  BY DEF DragArrives
<1>1. PICK n \in Nat : Numbered(n) BY DEF DenseInv
<1> DEFINE m  == Len(rows)
           at == [x \in 1 .. m |-> key[rows[x]].number]
           t  == IF i < j THEN j ELSE IF j = 1 THEN 1 ELSE j - 1
           p  == IF i < j THEN at[j] ELSE IF j = 1 THEN at[1] ELSE at[j - 1] + 1
           new  == Dragged(rows, i, j)
           sent == SortRequest(rows, i, j)
           key2 == Sorted(key, sent.origin, sent.target, sent.before)
<1>2. /\ rows \in Seq(Stored)
      /\ \A x \in 1 .. m : key[rows[x]].number \in 1 .. n
      /\ \A x, y \in 1 .. m : x < y => key[rows[x]].number < key[rows[y]].number
  BY <1>1, ShownForm
<1>3. m \in Nat /\ DOMAIN rows = 1 .. m /\ \A x \in 1 .. m : rows[x] \in Stored
  BY <1>2, LenProperties, ElementOfSeq
<1>4. i \in 1 .. m /\ j \in 1 .. m BY <1>3
<1>5. DOMAIN new = 1 .. m /\ \A x \in 1 .. m : new[x] = rows[From(i, j, x)]
  BY <1>2, <1>4, DraggedForm
<1>6. sent = [origin |-> rows[i], target |-> rows[t], before |-> j = 1]
  BY <1>2, <1>4, SentForm
<1>7. \A x \in 1 .. m : at[x] = key[rows[x]].number OBVIOUS
<1>8. at \in [1 .. m -> Nat] BY <1>2
<1>9. \A x, y \in 1 .. m : x < y => at[x] < at[y] BY <1>2, <1>7
<1>10. t \in 1 .. m /\ t # i BY <1>3, <1>4
<1>11. p = IF at[i] < at[t] THEN IF j = 1 THEN at[t] - 1 ELSE at[t]
           ELSE IF j = 1 THEN at[t] ELSE at[t] + 1
  <2>1. CASE i < j
    <3>1. t = j /\ at[i] < at[t] /\ j # 1 BY <1>3, <1>4, <1>9, <2>1
    <3> QED BY <2>1, <3>1
  <2>2. CASE ~ (i < j)
    <3>1. t < i BY <1>3, <1>4, <2>2
    <3>2. at[t] < at[i] /\ at[t] \in Nat /\ at[i] \in Nat BY <1>4, <1>8, <1>9, <1>10, <3>1
    <3>3. ~ (at[i] < at[t]) BY <3>2
    <3> QED BY <2>2, <3>3
  <2> QED BY <2>1, <2>2
<1> HIDE DEF m, at, t, p, new, sent
<1>12. rows[i] \in Stored /\ rows[t] \in Stored /\ rows[i] # rows[t]
  <2>1. i < t \/ t < i BY <1>3, <1>4, <1>10
  <2>2. at[i] # at[t] BY <1>4, <1>8, <1>9, <1>10, <2>1
  <2> QED BY <1>3, <1>4, <1>7, <1>10, <2>2
<1>13. Place(key[rows[i]].number, key[rows[t]].number, j = 1) = p BY <1>4, <1>7, <1>10, <1>11 DEF Place
<1>14. \A x \in 1 .. m : key2[rows[x]].number = Room(at[i], p, at[x])
  <2>1. PICK o \in Stored : o = rows[i] BY <1>12
  <2>2. PICK k \in Stored : k = rows[t] BY <1>12
  <2>3. PICK before \in BOOLEAN : before = (j = 1) OBVIOUS
  <2>4. o # k BY <1>12, <2>1, <2>2
  <2>5. \A l \in Stored : Sorted(key, o, k, before)[l].number =
          IF l = o THEN Place(key[o].number, key[k].number, before)
          ELSE IF key[o].number < key[l].number /\ key[l].number <= Place(key[o].number, key[k].number, before)
            THEN key[l].number - 1
          ELSE IF Place(key[o].number, key[k].number, before) <= key[l].number /\ key[l].number < key[o].number
            THEN key[l].number + 1
          ELSE key[l].number
    BY <1>1, <2>4, SortedNumbers DEF IInv
  <2>6. Place(key[o].number, key[k].number, before) = p BY <1>13, <2>1, <2>2, <2>3
  <2>7. key[o].number = at[i] BY <1>4, <1>7, <2>1
  <2>8. key2 = Sorted(key, o, k, before) BY <1>6, <2>1, <2>2, <2>3
  <2> HIDE DEF key2
  <2> SUFFICES ASSUME NEW x \in 1 .. m PROVE key2[rows[x]].number = Room(at[i], p, at[x]) OBVIOUS
  <2>9. rows[x] \in Stored /\ key[rows[x]].number = at[x] BY <1>3, <1>7
  <2>10. rows[x] = o <=> at[x] = at[i]
    <3>1. rows[x] = o => at[x] = at[i] BY <2>7, <2>9
    <3>2. at[x] = at[i] => x = i
      <4>1. x < i \/ i < x \/ x = i BY <1>3, <1>4
      <4> QED BY <1>4, <1>8, <1>9, <4>1
    <3> QED BY <2>1, <3>1, <3>2
  <2> QED BY <2>5, <2>6, <2>7, <2>8, <2>9, <2>10 DEF Room
<1> HIDE DEF key2
<1>15. u \in 1 .. m /\ v \in 1 .. m BY <1>5 DEF new
<1>16. Room(at[i], p, at[From(i, j, u)]) < Room(at[i], p, at[From(i, j, v)])
  BY <1>3, <1>4, <1>8, <1>9, <1>15, DragRises DEF p
<1>17. From(i, j, u) \in 1 .. m /\ From(i, j, v) \in 1 .. m BY <1>3, <1>4, <1>15, FromForm
<1> QED BY <1>5, <1>14, <1>15, <1>16, <1>17 DEF new, sent, key2

\* A row stays where it was dropped, for any number of keys, any page and any drag.
THEOREM RowsArrive == Spec => []DragArrives
<1>1. IInv /\ DenseInv /\ [Next]_vars => DenseInv' BY DenseStep
<1>2. IInv /\ DenseInv => DragArrives BY DragKept
<1> QED BY <1>1, <1>2, DenseInit, Kept, PTL DEF Spec
=============================================================================
