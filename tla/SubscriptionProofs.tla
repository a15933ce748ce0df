------------------------- MODULE SubscriptionProofs -------------------------
(* Proofs about Subscription and the pages on top of it, for every number  *)
(* of applications, clusters, requests and open pages.                     *)
EXTENDS SubscriptionPages, TLAPS

-----------------------------------------------------------------------------
(* The inductive invariant.                                                *)

\* What a request has read: rows with a uuid exist.  A request that no other one
\* disturbed still sees the row it has read, and an application it brought online
\* on every cluster is still online.
Reading(r) ==
  /\ rq[r].row.id = 0 <=> rq[r].row.status = "none"
  /\ rq[r].at = "revokeApply" => rq[r].row.status = "review"
  /\ rq[r].at = "revoke" => rq[r].row.status = "subscribe"
  /\ rq[r].at \in {"subscribe", "revokeApply"} /\ ~ rq[r].raced => sub[rq[r].app] = rq[r].row
  /\ rq[r].at = "subscribe" /\ rq[r].auto /\ rq[r].lost = {} /\ ~ rq[r].raced =>
       \A c \in Clusters : rq[r].app \in gateway[c]

IInv == TypeOK /\ (\A r \in Requests : Reading(r)) /\ GatewayAgrees

-----------------------------------------------------------------------------
(* Lemmas.                                                                 *)

\* The inductive invariant holds of the tables before anyone has called.
LEMMA InitInv == Init => IInv
BY NoneAssumption DEF Init, IInv, TypeOK, Reading, GatewayAgrees, NoRow, NoApply, NoRq, Rq, Status,
                      Subscribed, Pending

\* The type of the requests, and that those in progress are about an application.
Typed(f) ==
  /\ f \in [Requests -> Rq]
  /\ \A r \in Requests : f[r].at \in {"subscribe", "revokeApply", "revoke"} <=> f[r].app # None

\* A request that answers is about no application any more; the others are as they
\* were, but those about the same application are disturbed.
LEMMA Answering ==
  ASSUME Typed(rq), NEW r \in Requests, NEW a \in Apps, NEW at \in {"ok", "error"},
         Answer(r, a, at)
  PROVE  /\ Typed(rq')
         /\ rq'[r] = [NoRq EXCEPT !.at = at]
         /\ \A q \in Requests \ {r} : rq[q].app # a => rq'[q] = rq[q]
         /\ \A q \in Requests \ {r} : rq[q].app = a => rq'[q] = [rq[q] EXCEPT !.raced = TRUE]
<1>1. /\ rq' = [q \in Requests |-> IF q = r THEN [NoRq EXCEPT !.at = at]
                                   ELSE IF rq[q].app = a THEN [rq[q] EXCEPT !.raced = TRUE]
                                   ELSE rq[q]]
      BY DEF Answer
<1>2. [NoRq EXCEPT !.at = at] \in Rq BY DEF NoRq, NoRow, Rq, Status
<1>3. \A q \in Requests : rq[q] \in Rq /\ [rq[q] EXCEPT !.raced = TRUE] \in Rq BY DEF Typed, Rq
<1>4. rq' \in [Requests -> Rq] BY <1>1, <1>2, <1>3
<1>5. \A q \in Requests : [rq[q] EXCEPT !.raced = TRUE].at = rq[q].at
                          /\ [rq[q] EXCEPT !.raced = TRUE].app = rq[q].app
      BY <1>3 DEF Rq
<1> QED BY <1>1, <1>4, <1>5, NoneAssumption DEF Typed, NoRq

\* What a request that answers leaves undone: what the others have read they still
\* see, unless they are disturbed.
LEMMA AnsweringReads ==
  ASSUME Typed(rq), NEW r \in Requests, NEW a \in Apps, NEW at \in {"ok", "error"},
         Answer(r, a, at), \A q \in Requests : Reading(q),
         \A b \in Apps \ {a} : sub'[b] = sub[b],
         \A b \in Apps \ {a}, c \in Clusters : b \in gateway[c] => b \in gateway'[c]
  PROVE  \A q \in Requests : Reading(q)'
<1> TAKE q \in Requests
<1>1. /\ rq'[r] = [NoRq EXCEPT !.at = at]
      /\ q # r /\ rq[q].app # a => rq'[q] = rq[q]
      /\ q # r /\ rq[q].app = a => rq'[q] = [rq[q] EXCEPT !.raced = TRUE]
      BY Answering
<1>2. CASE q = r BY <1>1, <1>2 DEF Reading, NoRq, NoRow
<1>3. CASE q # r /\ rq[q].app = a
  <2>1. rq[q] \in Rq BY DEF Typed
  <2>2. /\ rq'[q].row = rq[q].row /\ rq'[q].at = rq[q].at /\ rq'[q].raced
        BY <1>1, <1>3, <2>1 DEF Rq
  <2> QED BY <2>2 DEF Reading
<1>4. CASE q # r /\ rq[q].app # a
  <2>1. rq'[q] = rq[q] BY <1>1, <1>4
  <2>2. rq[q].at \in {"subscribe", "revokeApply"} => rq[q].app \in Apps \ {a}
        BY <1>4 DEF Typed, Rq
  <2> QED BY <2>1, <2>2 DEF Reading
<1> QED BY <1>2, <1>3, <1>4

\* Nor does it change which other applications are being subscribed.
LEMMA AnsweringPends ==
  ASSUME Typed(rq), NEW r \in Requests, NEW a \in Apps, NEW at \in {"ok", "error"},
         Answer(r, a, at), rq[r].app \in {a, None}
  PROVE  /\ Pending \ {a} \subseteq Pending'
         /\ ~ (rq[r].at = "subscribe" /\ rq[r].auto) => Pending \subseteq Pending'
<1>1. /\ \A q \in Requests \ {r} : rq[q].app # a => rq'[q] = rq[q]
      /\ \A q \in Requests \ {r} : rq[q].app = a => rq'[q] = [rq[q] EXCEPT !.raced = TRUE]
      BY Answering
<1>2. \A q \in Requests \ {r} : rq'[q].at = rq[q].at /\ rq'[q].app = rq[q].app
                                /\ rq'[q].auto = rq[q].auto
      BY <1>1 DEF Typed, Rq
<1>3. ASSUME NEW b \in Pending, b # a \/ ~ (rq[r].at = "subscribe" /\ rq[r].auto)
      PROVE  b \in Pending'
  <2>1. PICK q \in Requests : rq[q].at = "subscribe" /\ rq[q].auto /\ rq[q].app = b
        BY DEF Pending
  <2>2. b # None BY <2>1 DEF Typed
  <2>3. q # r BY <1>3, <2>1, <2>2
  <2> QED BY <1>2, <2>1, <2>3 DEF Pending
<1> QED BY <1>3

\* The type of everything else.
Tables ==
  /\ sub \in [Apps -> [id : Nat, status : Status]]
  /\ rows \in Nat
  /\ apply \in [Applies -> [app : Apps \cup {None}, status : {"none", "review", "subscribe", "refuse"}]]
  /\ auto \in BOOLEAN
  /\ gateway \in [Clusters -> SUBSET Apps]
  /\ telling \in [Clusters -> SUBSET Apps]
  /\ unsure \in SUBSET Apps
  /\ \A a \in Apps : sub[a].id <= rows /\ (sub[a].id = 0 <=> sub[a].status = "none")
  /\ \A x \in Applies : apply[x].app = None <=> apply[x].status = "none"

LEMMA TypeParts == (TypeOK <=> Tables /\ Typed(rq)) /\ (TypeOK' <=> Tables' /\ Typed(rq'))
BY DEF TypeOK, Tables, Typed

\* After a step the gateway agrees with the row of an application.
Agreed(a) ==
  \A c \in Clusters :
    /\ a \in gateway'[c] => sub'[a].status = "subscribe"
    /\ sub'[a].status = "subscribe" => a \in gateway'[c] \cup telling'[c]

\* A step about one application leaves the agreement about the others as it is.
LEMMA AgreesBut ==
  ASSUME GatewayAgrees, NEW a \in Apps, UNCHANGED telling,
         \A b \in Apps \ {a} : sub'[b] = sub[b],
         \A b \in Apps \ {a}, c \in Clusters : b \in gateway'[c] <=> b \in gateway[c],
         unsure \ {a} \subseteq unsure', Pending \ {a} \subseteq Pending',
         a \notin unsure' \cup Pending' => Agreed(a)
  PROVE  GatewayAgrees'
<1> SUFFICES ASSUME NEW b \in Apps, b \notin unsure' \cup Pending', NEW c \in Clusters
             PROVE  /\ b \in gateway'[c] => sub'[b].status = "subscribe"
                    /\ sub'[b].status = "subscribe" => b \in gateway'[c] \cup telling'[c]
    BY DEF GatewayAgrees, Subscribed
<1>1. CASE b = a BY <1>1 DEF Agreed
<1>2. CASE b # a
  <2>1. b \notin unsure \cup Pending BY <1>2
  <2> QED BY <1>2, <2>1 DEF GatewayAgrees, Subscribed
<1> QED BY <1>1, <1>2

\* The row of one application is saved.
LEMMA Saved ==
  ASSUME Tables, NEW a \in Apps, NEW row \in [id : Nat, status : Status], Save(a, row),
         row.id = 0 <=> row.status = "none", row.id <= rows', rows' \in Nat, rows <= rows'
  PROVE  /\ sub' \in [Apps -> [id : Nat, status : Status]]
         /\ \A b \in Apps : sub'[b].id <= rows' /\ (sub'[b].id = 0 <=> sub'[b].status = "none")
         /\ \A b \in Apps \ {a} : sub'[b] = sub[b]
         /\ sub'[a] = row
BY DEF Save, Tables

\* So is its status: a row that has a uuid keeps it.
LEMMA StatusSaved ==
  ASSUME Tables, NEW a \in Apps, NEW status \in Status \ {"none"}, sub[a] # NoRow,
         Save(a, [sub[a] EXCEPT !.status = status]), rows' = rows
  PROVE  /\ sub' \in [Apps -> [id : Nat, status : Status]]
         /\ \A b \in Apps : sub'[b].id <= rows' /\ (sub'[b].id = 0 <=> sub'[b].status = "none")
         /\ \A b \in Apps \ {a} : sub'[b] = sub[b]
         /\ sub'[a].status = status
<1> DEFINE row == [sub[a] EXCEPT !.status = status]
<1>1. sub[a] \in [id : Nat, status : Status] BY DEF Tables
<1>2. sub[a].id # 0 BY <1>1 DEF Tables, NoRow
<1>3. row \in [id : Nat, status : Status] /\ row.id = sub[a].id /\ row.status = status BY <1>1
<1>4. row.id <= rows' /\ (row.id = 0 <=> row.status = "none") BY <1>2, <1>3 DEF Tables
<1>5. rows' \in Nat /\ rows <= rows' BY DEF Tables
<1> HIDE DEF row
<1>6. Save(a, row) BY DEF row
<1> QED BY <1>3, <1>4, <1>5, <1>6, Saved

\* An application is brought online, or taken offline, on some clusters.
LEMMA Onlined ==
  ASSUME Tables, NEW a \in Apps, NEW C \in SUBSET Clusters, Online(a, C)
  PROVE  /\ gateway' \in [Clusters -> SUBSET Apps]
         /\ \A c \in Clusters : gateway[c] \subseteq gateway'[c]
         /\ \A c \in C : a \in gateway'[c]
         /\ \A b \in Apps \ {a}, c \in Clusters : b \in gateway'[c] <=> b \in gateway[c]
BY DEF Tables, Online

LEMMA Offlined ==
  ASSUME Tables, NEW a \in Apps, NEW C \in SUBSET Clusters, Offline(a, C)
  PROVE  /\ gateway' \in [Clusters -> SUBSET Apps]
         /\ \A c \in C : a \notin gateway'[c]
         /\ \A b \in Apps \ {a}, c \in Clusters : b \in gateway'[c] <=> b \in gateway[c]
BY DEF Tables, Offline

\* A request that touches nothing but itself, or also the applications to decide on.
LEMMA Quiet ==
  ASSUME IInv, NEW r \in Requests,
         NEW n \in {NoRq, [NoRq EXCEPT !.at = "ok"], [NoRq EXCEPT !.at = "error"]},
         rq[r].at # "subscribe", rq' = [rq EXCEPT ![r] = n],
         UNCHANGED <<sub, rows, auto, gateway, telling, unsure>>, Tables'
  PROVE  IInv'
<1>1. /\ n \in Rq /\ n.app = None /\ n.row = NoRow
      /\ n.at \notin {"subscribe", "revokeApply", "revoke"}
  <2>1. NoRq \in Rq /\ NoRq.app = None /\ NoRq.row = NoRow /\ NoRq.at = "idle"
        BY DEF NoRq, NoRow, Rq, Status
  <2>2. CASE n = NoRq BY <2>1, <2>2
  <2>3. CASE n = [NoRq EXCEPT !.at = "ok"] BY <2>1, <2>3 DEF Rq
  <2>4. CASE n = [NoRq EXCEPT !.at = "error"] BY <2>1, <2>4 DEF Rq
  <2> QED BY <2>2, <2>3, <2>4
<1>2. Typed(rq) BY TypeParts DEF IInv
<1>3. rq' \in [Requests -> Rq] /\ rq'[r] = n /\ \A q \in Requests \ {r} : rq'[q] = rq[q]
      BY <1>1, <1>2 DEF Typed
<1>4. Typed(rq') BY <1>1, <1>2, <1>3 DEF Typed
<1>5. \A q \in Requests : Reading(q)'
  <2> TAKE q \in Requests
  <2>1. CASE q = r BY <1>1, <1>3, <2>1 DEF Reading, NoRow
  <2>2. CASE q # r BY <1>3, <2>2 DEF Reading, IInv
  <2> QED BY <2>1, <2>2
<1>6. Pending \subseteq Pending' BY <1>3 DEF Pending
<1>7. GatewayAgrees' BY <1>6 DEF IInv, GatewayAgrees, Subscribed
<1> QED BY <1>4, <1>5, <1>7, TypeParts DEF IInv

LEMMA Refused ==
  ASSUME IInv, NEW r \in Requests, rq[r].at # "subscribe", Refuse(r)
  PROVE  IInv'
<1>1. Tables' BY TypeParts DEF IInv, Refuse, Tables
<1> QED BY <1>1, Quiet DEF Refuse

\* What a request that answers about application a has to show.
LEMMA AnsweringInv ==
  ASSUME IInv, NEW r \in Requests, NEW a \in Apps, NEW at \in {"ok", "error"},
         Answer(r, a, at), rq[r].app \in {a, None}, Tables', UNCHANGED telling,
         \A b \in Apps \ {a} : sub'[b] = sub[b],
         \A b \in Apps \ {a}, c \in Clusters : b \in gateway'[c] <=> b \in gateway[c],
         unsure \ {a} \subseteq unsure',
         a \notin unsure' \cup Pending' =>
           Agreed(a)
  PROVE  IInv'
<1>1. Typed(rq) BY TypeParts DEF IInv
<1>2. Typed(rq') BY <1>1, Answering
<1>3. \A q \in Requests : Reading(q)' BY <1>1, AnsweringReads DEF IInv
<1>4. Pending \ {a} \subseteq Pending' BY <1>1, AnsweringPends
<1>5. GatewayAgrees' BY <1>4, AgreesBut DEF IInv
<1> QED BY <1>2, <1>3, <1>5, TypeParts DEF IInv

-----------------------------------------------------------------------------
(* Every step keeps the inductive invariant.                               *)

LEMMA StepSubscribeRead ==
  ASSUME IInv, NEW r \in Requests, NEW a \in Apps, SubscribeRead(r, a)
  PROVE  IInv'
<1>1. Tables /\ Typed(rq) BY TypeParts DEF IInv
<1>2. PICK lost \in SUBSET Clusters :
        /\ ~ auto => lost = {}
        /\ rq' = [rq EXCEPT ![r] = [at |-> "subscribe", app |-> a, row |-> sub[a],
                                    auto |-> auto, lost |-> lost, raced |-> FALSE]]
        /\ IF auto THEN Online(a, Clusters \ lost) ELSE UNCHANGED gateway
      BY DEF SubscribeRead
<1>3. rq[r].at = "idle" /\ UNCHANGED <<sub, rows, apply, auto, telling, unsure>> BY DEF SubscribeRead
<1> DEFINE n == [at |-> "subscribe", app |-> a, row |-> sub[a], auto |-> auto,
                 lost |-> lost, raced |-> FALSE]
<1>4. n \in Rq BY <1>1 DEF Rq, Tables
<1>5. rq' \in [Requests -> Rq] /\ rq'[r] = n /\ \A q \in Requests \ {r} : rq'[q] = rq[q]
      BY <1>1, <1>2, <1>4 DEF Typed
<1>6. Typed(rq') BY <1>1, <1>5, NoneAssumption DEF Typed
<1>7. /\ gateway' \in [Clusters -> SUBSET Apps]
      /\ \A c \in Clusters : gateway[c] \subseteq gateway'[c]
      /\ auto => \A c \in Clusters \ lost : a \in gateway'[c]
      /\ ~ auto => gateway' = gateway
      /\ \A b \in Apps \ {a}, c \in Clusters : b \in gateway'[c] <=> b \in gateway[c]
  <2>1. CASE auto BY <1>1, <1>2, <2>1, Onlined
  <2>2. CASE ~ auto BY <1>1, <1>2, <2>2 DEF Tables
  <2> QED BY <2>1, <2>2
<1>8. Tables' BY <1>1, <1>3, <1>7 DEF Tables
<1>9. \A q \in Requests : Reading(q)'
  <2> TAKE q \in Requests
  <2>1. CASE q = r BY <1>1, <1>3, <1>5, <1>7, <2>1 DEF Reading, Tables
  <2>2. CASE q # r
    <3>1. rq'[q] = rq[q] /\ Reading(q) BY <1>5, <2>2 DEF IInv
    <3>2. rq[q].at = "subscribe" => rq[q].app \in Apps BY <1>1 DEF Typed, Rq
    <3> QED BY <1>3, <1>7, <3>1 DEF Reading
  <2> QED BY <2>1, <2>2
<1>10. Pending \subseteq Pending' /\ (auto => a \in Pending')
  <2>1. \A q \in Requests : rq[q].at = "subscribe" => q # r BY <1>3
  <2> QED BY <1>5, <2>1 DEF Pending
<1>11. GatewayAgrees'
  <2>1. CASE auto BY <1>3, <1>7, <1>10, <2>1, AgreesBut DEF IInv
  <2>2. CASE ~ auto BY <1>3, <1>7, <1>10, <2>2 DEF IInv, GatewayAgrees, Subscribed
  <2> QED BY <2>1, <2>2
<1> QED BY <1>6, <1>8, <1>9, <1>11, TypeParts DEF IInv

\* The row that is written, and what the request has read of it.
LEMMA StepSubscribeWrite ==
  ASSUME IInv, NEW r \in Requests, SubscribeWrite(r)
  PROVE  IInv'
<1> DEFINE q == rq[r]
           a == q.app
           status == IF q.auto THEN "subscribe" ELSE "review"
<1>1. Tables /\ Typed(rq) BY TypeParts DEF IInv
<1>2. q.at = "subscribe" /\ q \in Rq /\ a \in Apps BY <1>1 DEF SubscribeWrite, Typed, Rq
<1>3. Answer(r, a, "ok") /\ UNCHANGED <<auto, gateway, telling>> BY DEF SubscribeWrite
<1>4. status \in {"subscribe", "review"} /\ status \in Status \ {"none"} BY DEF Status
<1>5. PICK x \in Applies : apply[x] = NoApply /\ apply' = [apply EXCEPT ![x] = [app |-> a, status |-> status]]
      BY DEF SubscribeWrite
<1>6. /\ apply' \in [Applies -> [app : Apps \cup {None}, status : {"none", "review", "subscribe", "refuse"}]]
      /\ \A y \in Applies : apply'[y].app = None <=> apply'[y].status = "none"
      BY <1>1, <1>2, <1>4, <1>5, NoneAssumption DEF Tables
<1>7. /\ unsure' \in SUBSET Apps
      /\ unsure \ {a} \subseteq unsure'
      /\ q.raced \/ q.lost # {} => a \in unsure'
      BY <1>1, <1>2 DEF SubscribeWrite, Sure, Unsure, Tables
<1>8. /\ rows' \in Nat
      /\ sub' \in [Apps -> [id : Nat, status : Status]]
      /\ \A b \in Apps : sub'[b].id <= rows' /\ (sub'[b].id = 0 <=> sub'[b].status = "none")
      /\ \A b \in Apps \ {a} : sub'[b] = sub[b]
      /\ \/ sub'[a].status = status /\ (~ q.raced => sub[a].status # "subscribe")
         \/ sub'[a] = sub[a] /\ (~ q.raced => sub[a].status = "subscribe")
  <2>1. CASE q.row = NoRow
    <3>1. /\ sub[a] = NoRow /\ rows' = rows + 1
          /\ Save(a, [id |-> rows + 1, status |-> status])
          BY <2>1 DEF SubscribeWrite
    <3>2. rows \in Nat BY <1>1 DEF Tables
    <3> DEFINE row == [id |-> rows + 1, status |-> status]
    <3>3. row \in [id : Nat, status : Status] /\ row.id = rows + 1 /\ row.status = status
          BY <1>4, <3>2
    <3>4. row.id <= rows' /\ rows' \in Nat /\ rows <= rows' /\ (row.id = 0 <=> row.status = "none")
          BY <1>4, <3>1, <3>2, <3>3
    <3> HIDE DEF row, a, status
    <3>5. Save(a, row) BY <3>1 DEF row, a, status
    <3>6. sub[a].status # "subscribe" BY <3>1 DEF NoRow, a
    <3> QED BY <1>1, <1>2, <3>3, <3>4, <3>5, <3>6, Saved DEF a
  <2>2. CASE q.row # NoRow
    <3>1. rows' = rows BY <2>2 DEF SubscribeWrite
    <3>2. q.row.id # 0
      <4>1. q.row.id = 0 <=> q.row.status = "none" BY DEF IInv, Reading
      <4>2. q.row \in [id : Nat, status : Status] BY <1>2 DEF Rq
      <4> QED BY <2>2, <4>1, <4>2 DEF NoRow
    <3>3. ~ q.raced => sub[a] = q.row BY <1>2 DEF IInv, Reading
    <3>4. CASE sub[a].id = q.row.id /\ Resaves(q.row)
      <4>1. Save(a, [sub[a] EXCEPT !.status = status]) BY <2>2, <3>4 DEF SubscribeWrite
      <4>2. sub[a] # NoRow BY <3>2, <3>4 DEF NoRow
      <4>3. ~ q.raced => sub[a].status # "subscribe" BY <3>3, <3>4 DEF Resaves
      <4> HIDE DEF a, status
      <4>4. /\ sub' \in [Apps -> [id : Nat, status : Status]]
            /\ \A b \in Apps : sub'[b].id <= rows' /\ (sub'[b].id = 0 <=> sub'[b].status = "none")
            /\ \A b \in Apps \ {a} : sub'[b] = sub[b]
            /\ sub'[a].status = status
            BY <1>1, <1>2, <1>4, <3>1, <4>1, <4>2, StatusSaved DEF a, status
      <4> QED BY <1>1, <3>1, <4>3, <4>4 DEF Tables
    <3>5. CASE ~ (sub[a].id = q.row.id /\ Resaves(q.row))
      <4>1. sub' = sub BY <2>2, <3>5 DEF SubscribeWrite
      <4>2. ~ q.raced => sub[a].status = "subscribe" BY <3>3, <3>5 DEF Resaves
      <4> QED BY <1>1, <3>1, <4>1, <4>2 DEF Tables
    <3> QED BY <3>4, <3>5
  <2> QED BY <2>1, <2>2
<1>9. Tables' BY <1>1, <1>3, <1>6, <1>7, <1>8 DEF Tables
<1>10. a \notin unsure' \cup Pending' => Agreed(a)
  <2> SUFFICES ASSUME a \notin unsure' \cup Pending', NEW c \in Clusters
               PROVE  /\ a \in gateway[c] => sub'[a].status = "subscribe"
                      /\ sub'[a].status = "subscribe" => a \in gateway[c] \cup telling[c]
      BY <1>3 DEF Agreed
  <2>1. ~ q.raced /\ q.lost = {} BY <1>7
  <2>2. CASE q.auto
    <3>1. a \in gateway[c] BY <1>2, <2>1, <2>2 DEF IInv, Reading
    <3> QED BY <1>8, <2>1, <2>2, <3>1
  <2>3. CASE ~ q.auto
    <3>1. unsure' = unsure BY <2>1, <2>3 DEF SubscribeWrite
    <3>2. Pending \subseteq Pending' BY <1>1, <1>2, <1>3, <2>3, AnsweringPends
    <3>3. /\ a \in gateway[c] => sub[a].status = "subscribe"
          /\ sub[a].status = "subscribe" => a \in gateway[c] \cup telling[c]
          BY <1>2, <3>1, <3>2 DEF IInv, GatewayAgrees, Subscribed
    <3> QED BY <1>8, <2>1, <2>3, <3>3
  <2> QED BY <2>2, <2>3
<1> HIDE DEF a, status
<1> QED BY <1>1, <1>2, <1>3, <1>7, <1>8, <1>9, <1>10, AnsweringInv DEF a

LEMMA StepSubscribeFails ==
  ASSUME IInv, NEW r \in Requests, SubscribeFails(r)
  PROVE  IInv'
<1> DEFINE a == rq[r].app
<1>1. Tables /\ Typed(rq) BY TypeParts DEF IInv
<1>2. rq[r].at = "subscribe" /\ a \in Apps BY <1>1 DEF SubscribeFails, Typed, Rq
<1>3. Answer(r, a, "error") /\ UNCHANGED <<sub, rows, apply, auto, gateway, telling>> BY DEF SubscribeFails
<1>4. /\ unsure' \in SUBSET Apps /\ unsure \subseteq unsure'
      /\ rq[r].auto => a \in unsure'
      BY <1>1, <1>2 DEF SubscribeFails, Unsure, Tables
<1>5. Tables' BY <1>1, <1>3, <1>4 DEF Tables
<1>6. a \notin unsure' \cup Pending' => Agreed(a)
  <2>1. ~ rq[r].auto => Pending \subseteq Pending' BY <1>1, <1>2, <1>3, AnsweringPends
  <2> QED BY <1>2, <1>3, <1>4, <2>1 DEF Agreed, IInv, GatewayAgrees, Subscribed
<1> HIDE DEF a
<1> QED BY <1>2, <1>3, <1>4, <1>5, <1>6, AnsweringInv DEF a

\* A request to take something back reads a row that is there.
LEMMA StepRevokeReads ==
  ASSUME IInv, NEW r \in Requests, NEW a \in Apps, NEW at \in {"revokeApply", "revoke"},
         rq[r].at = "idle",
         at = "revokeApply" => sub[a].status = "review", at = "revoke" => sub[a].status = "subscribe",
         rq' = [rq EXCEPT ![r] = [NoRq EXCEPT !.at = at, !.app = a, !.row = sub[a]]],
         UNCHANGED <<sub, rows, apply, auto, gateway, telling, unsure>>
  PROVE  IInv'
<1> DEFINE n == [NoRq EXCEPT !.at = at, !.app = a, !.row = sub[a]]
<1>1. Tables /\ Typed(rq) BY TypeParts DEF IInv
<1>2. n \in Rq /\ n.at = at /\ n.app = a /\ n.row = sub[a] BY <1>1 DEF Rq, NoRq, Tables
<1>3. rq' \in [Requests -> Rq] /\ rq'[r] = n /\ \A q \in Requests \ {r} : rq'[q] = rq[q]
      BY <1>1, <1>2 DEF Typed
<1> HIDE DEF n
<1>4. Typed(rq') BY <1>1, <1>2, <1>3, NoneAssumption DEF Typed
<1>5. Tables' BY <1>1 DEF Tables
<1>6. \A q \in Requests : Reading(q)'
  <2> TAKE q \in Requests
  <2>1. CASE q = r BY <1>1, <1>2, <1>3, <2>1 DEF Reading, Tables
  <2>2. CASE q # r BY <1>3, <2>2 DEF IInv, Reading
  <2> QED BY <2>1, <2>2
<1>7. Pending \subseteq Pending' BY <1>3 DEF Pending
<1>8. GatewayAgrees' BY <1>7 DEF IInv, GatewayAgrees, Subscribed
<1> QED BY <1>4, <1>5, <1>6, <1>8, TypeParts DEF IInv

LEMMA StepRevokeApplyRead ==
  ASSUME IInv, NEW r \in Requests, NEW a \in Apps, NEW id \in 1 .. rows, RevokeApplyRead(r, a, id)
  PROVE  IInv'
<1>1. rq[r].at = "idle" BY DEF RevokeApplyRead
<1>2. CASE sub[a] = [id |-> id, status |-> "review"]
  <2>1. /\ rq' = [rq EXCEPT ![r] = [NoRq EXCEPT !.at = "revokeApply", !.app = a, !.row = sub[a]]]
        /\ UNCHANGED <<sub, rows, apply, auto, gateway, telling, unsure>>
        BY <1>2 DEF RevokeApplyRead
  <2>2. sub[a].status = "review" BY <1>2
  <2> QED BY <1>1, <2>1, <2>2, StepRevokeReads
<1>3. CASE sub[a] # [id |-> id, status |-> "review"]
      BY <1>1, <1>3, Refused DEF RevokeApplyRead
<1> QED BY <1>2, <1>3

LEMMA StepRevokeRead ==
  ASSUME IInv, NEW r \in Requests, NEW a \in Apps, NEW id \in 1 .. rows, RevokeRead(r, a, id)
  PROVE  IInv'
<1>1. rq[r].at = "idle" BY DEF RevokeRead
<1>2. CASE sub[a] = [id |-> id, status |-> "subscribe"]
  <2>1. /\ rq' = [rq EXCEPT ![r] = [NoRq EXCEPT !.at = "revoke", !.app = a, !.row = sub[a]]]
        /\ UNCHANGED <<sub, rows, apply, auto, gateway, telling, unsure>>
        BY <1>2 DEF RevokeRead
  <2>2. sub[a].status = "subscribe" BY <1>2
  <2> QED BY <1>1, <2>1, <2>2, StepRevokeReads
<1>3. CASE sub[a] # [id |-> id, status |-> "subscribe"]
      BY <1>1, <1>3, Refused DEF RevokeRead
<1> QED BY <1>2, <1>3

LEMMA StepRevokeApplyWrite ==
  ASSUME IInv, NEW r \in Requests, RevokeApplyWrite(r)
  PROVE  IInv'
<1> DEFINE a == rq[r].app
<1>1. Tables /\ Typed(rq) BY TypeParts DEF IInv
<1>2. rq[r].at = "revokeApply" /\ a \in Apps /\ rq[r].row \in [id : Nat, status : Status]
      BY <1>1 DEF RevokeApplyWrite, Typed, Rq
<1>3. rq[r].row.status = "review" /\ rq[r].row.id # 0 BY <1>2 DEF IInv, Reading
<1>4. CASE sub[a].id = rq[r].row.id
  <2>1. /\ Save(a, [sub[a] EXCEPT !.status = "cancel"])
        /\ Answer(r, a, "ok")
        /\ UNCHANGED <<rows, apply, auto, gateway, telling>>
        BY <1>4 DEF RevokeApplyWrite
  <2>2. /\ unsure' \in SUBSET Apps /\ unsure \subseteq unsure'
        /\ rq[r].raced => a \in unsure'
        BY <1>1, <1>2, <1>4 DEF RevokeApplyWrite, Unsure, Tables
  <2>3. sub[a] # NoRow BY <1>3, <1>4 DEF NoRow
  <2> HIDE DEF a
  <2>4. /\ sub' \in [Apps -> [id : Nat, status : Status]]
        /\ \A b \in Apps : sub'[b].id <= rows' /\ (sub'[b].id = 0 <=> sub'[b].status = "none")
        /\ \A b \in Apps \ {a} : sub'[b] = sub[b]
        /\ sub'[a].status = "cancel"
        BY <1>1, <1>2, <2>1, <2>3, StatusSaved DEF Status
  <2>5. Tables' BY <1>1, <2>1, <2>2, <2>4 DEF Tables
  <2>6. Pending \subseteq Pending' BY <1>1, <1>2, <2>1, AnsweringPends DEF a
  <2>7. ~ rq[r].raced => sub[a].status = "review" BY <1>2, <1>3 DEF IInv, Reading, a
  <2>8. a \notin unsure' \cup Pending' => Agreed(a)
        BY <1>2, <2>1, <2>2, <2>4, <2>6, <2>7 DEF Agreed, IInv, GatewayAgrees, Subscribed
  <2> QED BY <1>2, <2>1, <2>2, <2>4, <2>5, <2>8, AnsweringInv DEF a
<1>5. CASE sub[a].id # rq[r].row.id
  <2>1. Refuse(r) BY <1>5 DEF RevokeApplyWrite
  <2> QED BY <1>2, <2>1, Refused
<1> QED BY <1>4, <1>5

LEMMA StepRevokeWrite ==
  ASSUME IInv, NEW r \in Requests, RevokeWrite(r)
  PROVE  IInv'
<1> DEFINE a == rq[r].app
<1>1. Tables /\ Typed(rq) BY TypeParts DEF IInv
<1>2. rq[r].at = "revoke" /\ a \in Apps /\ rq[r].row \in [id : Nat, status : Status]
      BY <1>1 DEF RevokeWrite, Typed, Rq
<1>3. rq[r].row.id # 0 BY <1>2 DEF IInv, Reading
<1>4. CASE sub[a].id = rq[r].row.id
  <2>1. PICK done \in SUBSET Clusters :
          /\ Offline(a, done)
          /\ IF done = Clusters
               THEN Save(a, [sub[a] EXCEPT !.status = "unsubscribe"]) /\ Sure(a)
               ELSE UNCHANGED sub /\ Unsure(a)
          /\ Answer(r, a, IF done = Clusters THEN "ok" ELSE "error")
          /\ UNCHANGED <<rows, apply, auto, telling>>
        BY <1>4 DEF RevokeWrite
  <2>2. sub[a] # NoRow BY <1>3, <1>4 DEF NoRow
  <2> HIDE DEF a
  <2>3. /\ gateway' \in [Clusters -> SUBSET Apps]
        /\ \A c \in done : a \notin gateway'[c]
        /\ \A b \in Apps \ {a}, c \in Clusters : b \in gateway'[c] <=> b \in gateway[c]
        BY <1>1, <1>2, <2>1, Offlined DEF a
  <2>4. /\ sub' \in [Apps -> [id : Nat, status : Status]]
        /\ \A b \in Apps : sub'[b].id <= rows' /\ (sub'[b].id = 0 <=> sub'[b].status = "none")
        /\ \A b \in Apps \ {a} : sub'[b] = sub[b]
        /\ done = Clusters => sub'[a].status = "unsubscribe"
    <3>1. CASE done = Clusters
          BY <1>1, <1>2, <2>1, <2>2, <3>1, StatusSaved DEF Status, a
    <3>2. CASE done # Clusters BY <1>1, <2>1, <3>2 DEF Tables
    <3> QED BY <3>1, <3>2
  <2>5. /\ unsure' \in SUBSET Apps /\ unsure \ {a} \subseteq unsure'
        /\ done # Clusters => a \in unsure'
        BY <1>1, <1>2, <2>1 DEF Sure, Unsure, Tables, a
  <2>6. Tables' BY <1>1, <2>1, <2>3, <2>4, <2>5 DEF Tables
  <2>7. a \notin unsure' \cup Pending' => Agreed(a)
        BY <2>3, <2>4, <2>5 DEF Agreed
  <2>8. Answer(r, a, "ok") \/ Answer(r, a, "error") BY <2>1
  <2> QED BY <1>2, <2>1, <2>3, <2>4, <2>5, <2>6, <2>7, <2>8, AnsweringInv DEF a
<1>5. CASE sub[a].id # rq[r].row.id
  <2>1. Refuse(r) BY <1>5 DEF RevokeWrite
  <2> QED BY <1>2, <2>1, Refused
<1> QED BY <1>4, <1>5

LEMMA StepAddSubscriber ==
  ASSUME IInv, NEW r \in Requests, NEW a \in Apps, AddSubscriber(r, a)
  PROVE  IInv'
<1>1. Tables /\ Typed(rq) BY TypeParts DEF IInv
<1>2. rq[r].at = "idle" /\ rq[r].app = None /\ UNCHANGED <<apply, auto, telling>>
      BY <1>1 DEF AddSubscriber, Typed
<1>3. CASE a \in Subscribed
  <2>1. rq' = [rq EXCEPT ![r] = [NoRq EXCEPT !.at = "ok"]] /\ UNCHANGED <<sub, rows, gateway, unsure>>
        BY <1>3 DEF AddSubscriber
  <2>2. Tables' BY <1>1, <1>2, <2>1 DEF Tables
  <2> QED BY <1>2, <2>1, <2>2, Quiet
<1>4. CASE a \notin Subscribed
  <2>1. PICK done \in SUBSET Clusters :
          /\ Online(a, done)
          /\ IF done = Clusters
               THEN /\ Sure(a)
                    /\ IF sub[a] = NoRow
                         THEN rows' = rows + 1 /\ Save(a, [id |-> rows + 1, status |-> "subscribe"])
                         ELSE UNCHANGED rows /\ Save(a, [sub[a] EXCEPT !.status = "subscribe"])
               ELSE UNCHANGED <<sub, rows>> /\ Unsure(a)
          /\ Answer(r, a, IF done = Clusters THEN "ok" ELSE "error")
        BY <1>4 DEF AddSubscriber
  <2>2. /\ gateway' \in [Clusters -> SUBSET Apps]
        /\ \A c \in done : a \in gateway'[c]
        /\ \A b \in Apps \ {a}, c \in Clusters : b \in gateway'[c] <=> b \in gateway[c]
        BY <1>1, <2>1, Onlined
  <2>3. /\ rows' \in Nat
        /\ sub' \in [Apps -> [id : Nat, status : Status]]
        /\ \A b \in Apps : sub'[b].id <= rows' /\ (sub'[b].id = 0 <=> sub'[b].status = "none")
        /\ \A b \in Apps \ {a} : sub'[b] = sub[b]
        /\ done = Clusters => sub'[a].status = "subscribe"
    <3>1. CASE done # Clusters BY <1>1, <2>1, <3>1 DEF Tables
    <3>2. CASE done = Clusters /\ sub[a] # NoRow
      <4>1. rows' = rows /\ Save(a, [sub[a] EXCEPT !.status = "subscribe"]) BY <2>1, <3>2
      <4>2. "subscribe" \in Status \ {"none"} BY DEF Status
      <4>3. /\ sub' \in [Apps -> [id : Nat, status : Status]]
            /\ \A b \in Apps : sub'[b].id <= rows' /\ (sub'[b].id = 0 <=> sub'[b].status = "none")
            /\ \A b \in Apps \ {a} : sub'[b] = sub[b]
            /\ sub'[a].status = "subscribe"
            BY <1>1, <3>2, <4>1, <4>2, StatusSaved
      <4>4. rows' \in Nat BY <1>1, <4>1 DEF Tables
      <4> QED BY <4>3, <4>4
    <3>3. CASE done = Clusters /\ sub[a] = NoRow
      <4> DEFINE row == [id |-> rows + 1, status |-> "subscribe"]
      <4>1. rows' = rows + 1 /\ Save(a, row) /\ rows \in Nat BY <1>1, <2>1, <3>3 DEF Tables
      <4>2. row \in [id : Nat, status : Status] /\ row.id = rows + 1 /\ row.status = "subscribe"
            BY <4>1 DEF Status
      <4> HIDE DEF row
      <4> QED BY <1>1, <4>1, <4>2, Saved
    <3> QED BY <3>1, <3>2, <3>3
  <2>4. /\ unsure' \in SUBSET Apps /\ unsure \ {a} \subseteq unsure'
        /\ done # Clusters => a \in unsure'
        BY <1>1, <2>1 DEF Sure, Unsure, Tables
  <2>5. Tables' BY <1>1, <1>2, <2>2, <2>3, <2>4 DEF Tables
  <2>6. a \notin unsure' \cup Pending' => Agreed(a)
        BY <2>2, <2>3, <2>4 DEF Agreed
  <2>7. Answer(r, a, "ok") \/ Answer(r, a, "error") BY <2>1
  <2> QED BY <1>2, <2>2, <2>3, <2>4, <2>5, <2>6, <2>7, AnsweringInv
<1> QED BY <1>3, <1>4

LEMMA StepDeleteSubscriber ==
  ASSUME IInv, NEW r \in Requests, NEW a \in Apps, DeleteSubscriber(r, a)
  PROVE  IInv'
<1>1. Tables /\ Typed(rq) BY TypeParts DEF IInv
<1>2. rq[r].at = "idle" /\ rq[r].app = None /\ UNCHANGED <<rows, apply, auto, telling>>
      BY <1>1 DEF DeleteSubscriber, Typed
<1>3. PICK done \in SUBSET Clusters :
        /\ Offline(a, done)
        /\ IF done = Clusters THEN Save(a, NoRow) /\ Sure(a) ELSE UNCHANGED sub /\ Unsure(a)
        /\ Answer(r, a, IF done = Clusters THEN "ok" ELSE "error")
      BY DEF DeleteSubscriber
<1>4. /\ gateway' \in [Clusters -> SUBSET Apps]
      /\ \A c \in done : a \notin gateway'[c]
      /\ \A b \in Apps \ {a}, c \in Clusters : b \in gateway'[c] <=> b \in gateway[c]
      BY <1>1, <1>3, Offlined
<1>5. /\ sub' \in [Apps -> [id : Nat, status : Status]]
      /\ \A b \in Apps : sub'[b].id <= rows' /\ (sub'[b].id = 0 <=> sub'[b].status = "none")
      /\ \A b \in Apps \ {a} : sub'[b] = sub[b]
      /\ done = Clusters => sub'[a].status = "none"
  <2>1. CASE done # Clusters BY <1>1, <1>2, <1>3, <2>1 DEF Tables
  <2>2. CASE done = Clusters
    <3>1. Save(a, NoRow) BY <1>3, <2>2
    <3>2. NoRow \in [id : Nat, status : Status] /\ NoRow.id = 0 /\ NoRow.status = "none"
          BY DEF NoRow, Status
    <3>3. rows \in Nat /\ rows' = rows BY <1>1, <1>2 DEF Tables
    <3> QED BY <1>1, <3>1, <3>2, <3>3, Saved
  <2> QED BY <2>1, <2>2
<1>6. /\ unsure' \in SUBSET Apps /\ unsure \ {a} \subseteq unsure'
      /\ done # Clusters => a \in unsure'
      BY <1>1, <1>3 DEF Sure, Unsure, Tables
<1>7. Tables' BY <1>1, <1>2, <1>4, <1>5, <1>6 DEF Tables
<1>8. a \notin unsure' \cup Pending' => Agreed(a)
      BY <1>4, <1>5, <1>6 DEF Agreed
<1>9. Answer(r, a, "ok") \/ Answer(r, a, "error") BY <1>3
<1> QED BY <1>2, <1>4, <1>5, <1>6, <1>7, <1>8, <1>9, AnsweringInv

LEMMA StepPass ==
  ASSUME IInv, NEW r \in Requests, NEW x \in Applies, Pass(r, x)
  PROVE  IInv'
<1> DEFINE a == apply[x].app
<1>1. Tables /\ Typed(rq) BY TypeParts DEF IInv
<1>2. rq[r].at = "idle" /\ rq[r].app = None BY <1>1 DEF Pass, Typed
<1>3. a \in Apps
  <2>1. apply[x] \in [app : Apps \cup {None}, status : {"none", "review", "subscribe", "refuse"}]
        BY <1>1 DEF Tables
  <2>2. apply[x].app = None <=> apply[x].status = "none" BY <1>1 DEF Tables
  <2>3. apply[x] # NoApply BY DEF Pass
  <2> QED BY <2>1, <2>2, <2>3 DEF NoApply
<1>4. CASE sub[a] # NoRow
  <2>1. PICK lost \in SUBSET Clusters :
          /\ apply' = [apply EXCEPT ![x].status = "subscribe"]
          /\ Save(a, [sub[a] EXCEPT !.status = "subscribe"])
          /\ Online(a, Clusters \ lost)
          /\ IF lost = {} THEN Sure(a) ELSE Unsure(a)
          /\ Answer(r, a, "ok")
          /\ UNCHANGED <<rows, auto, telling>>
        BY <1>4 DEF Pass
  <2>2. /\ apply' \in [Applies -> [app : Apps \cup {None}, status : {"none", "review", "subscribe", "refuse"}]]
        /\ \A y \in Applies : apply'[y].app = None <=> apply'[y].status = "none"
        BY <1>1, <1>3, <2>1, NoneAssumption DEF Tables
  <2> HIDE DEF a
  <2>3. "subscribe" \in Status \ {"none"} BY DEF Status
  <2>4. /\ sub' \in [Apps -> [id : Nat, status : Status]]
        /\ \A b \in Apps : sub'[b].id <= rows' /\ (sub'[b].id = 0 <=> sub'[b].status = "none")
        /\ \A b \in Apps \ {a} : sub'[b] = sub[b]
        /\ sub'[a].status = "subscribe"
        BY <1>1, <1>3, <1>4, <2>1, <2>3, StatusSaved
  <2>5. /\ gateway' \in [Clusters -> SUBSET Apps]
        /\ \A c \in Clusters \ lost : a \in gateway'[c]
        /\ \A b \in Apps \ {a}, c \in Clusters : b \in gateway'[c] <=> b \in gateway[c]
        BY <1>1, <1>3, <2>1, Onlined
  <2>6. /\ unsure' \in SUBSET Apps /\ unsure \ {a} \subseteq unsure'
        /\ lost # {} => a \in unsure'
        BY <1>1, <1>3, <2>1 DEF Sure, Unsure, Tables
  <2>7. Tables' BY <1>1, <2>1, <2>2, <2>4, <2>5, <2>6 DEF Tables
  <2>8. a \notin unsure' \cup Pending' => Agreed(a)
        BY <2>4, <2>5, <2>6 DEF Agreed
  <2> QED BY <1>2, <1>3, <2>1, <2>4, <2>5, <2>6, <2>7, <2>8, AnsweringInv
<1>5. CASE sub[a] = NoRow BY <1>2, <1>5, Refused DEF Pass
<1> QED BY <1>4, <1>5

LEMMA StepReject ==
  ASSUME IInv, NEW r \in Requests, NEW x \in Applies, Reject(r, x)
  PROVE  IInv'
<1>1. Tables BY TypeParts DEF IInv
<1>2. rq[r].at = "idle" BY DEF Reject
<1>3. apply[x].status # "none"
  <2>1. apply[x] \in [app : Apps \cup {None}, status : {"none", "review", "subscribe", "refuse"}]
        BY <1>1 DEF Tables
  <2> QED BY <1>1, <2>1 DEF Reject, NoApply, Tables
<1>4. Tables' BY <1>1, <1>3 DEF Reject, Tables
<1>5. rq' = [rq EXCEPT ![r] = [NoRq EXCEPT !.at = "ok"]] /\ UNCHANGED <<sub, rows, auto, gateway, telling, unsure>>
      BY DEF Reject
<1> QED BY <1>2, <1>4, <1>5, Quiet

LEMMA StepAnswered ==
  ASSUME IInv, NEW r \in Requests, Answered(r)
  PROVE  IInv'
<1>1. Tables' BY TypeParts DEF IInv, Answered, Tables
<1>2. /\ rq[r].at # "subscribe" /\ rq' = [rq EXCEPT ![r] = NoRq]
      /\ UNCHANGED <<sub, rows, auto, gateway, telling, unsure>>
      BY DEF Answered
<1> QED BY <1>1, <1>2, Quiet

LEMMA StepSetApproval ==
  ASSUME IInv, SetApproval
  PROVE  IInv'
<1>1. Tables /\ Typed(rq) BY TypeParts DEF IInv
<1>2. auto' = ~ auto /\ UNCHANGED <<sub, rows, apply, gateway, telling, rq, unsure>> BY DEF SetApproval
<1>3. auto' \in BOOLEAN BY <1>1, <1>2 DEF Tables
<1>4. Tables' BY <1>1, <1>2, <1>3 DEF Tables
<1>5. \A q \in Requests : Reading(q)' BY <1>2 DEF IInv, Reading
<1>6. GatewayAgrees' BY <1>2 DEF IInv, GatewayAgrees, Subscribed, Pending
<1> QED BY <1>1, <1>2, <1>4, <1>5, <1>6, TypeParts DEF IInv

LEMMA StepResetCluster ==
  ASSUME IInv, NEW c \in Clusters, ResetCluster(c)
  PROVE  IInv'
<1>1. Tables /\ Typed(rq) BY TypeParts DEF IInv
<1>2. PICK kept \in {{}, gateway[c]} : gateway' = [gateway EXCEPT ![c] = kept]
      BY DEF ResetCluster
<1>3. /\ rq' = [q \in Requests |-> IF rq[q].app = None THEN rq[q] ELSE [rq[q] EXCEPT !.raced = TRUE]]
      /\ telling' = [telling EXCEPT ![c] = Subscribed]
      /\ UNCHANGED <<sub, rows, apply, auto, unsure>>
      BY DEF ResetCluster
<1>4. Tables' BY <1>1, <1>2, <1>3 DEF Tables, Subscribed
<1>5. \A q \in Requests :
        /\ rq[q] \in Rq /\ rq'[q] \in Rq
        /\ rq'[q].at = rq[q].at /\ rq'[q].app = rq[q].app /\ rq'[q].row = rq[q].row
        /\ rq'[q].auto = rq[q].auto
        /\ rq[q].app # None => rq'[q].raced
      BY <1>1, <1>3 DEF Typed, Rq
<1>6. Typed(rq') BY <1>1, <1>3, <1>5 DEF Typed
<1>7. \A q \in Requests : Reading(q)'
  <2> TAKE q \in Requests
  <2>1. rq[q].at \in {"subscribe", "revokeApply"} => rq'[q].raced BY <1>1, <1>5 DEF Typed
  <2> QED BY <1>5, <2>1 DEF IInv, Reading
<1>8. Pending' = Pending BY <1>5 DEF Pending
<1>9. \A d \in Clusters : gateway'[d] \subseteq gateway[d] BY <1>1, <1>2 DEF Tables
<1>10. \A d \in Clusters \ {c} : gateway'[d] = gateway[d] /\ telling'[d] = telling[d]
      BY <1>1, <1>2, <1>3 DEF Tables
<1>11. telling'[c] = Subscribed BY <1>1, <1>3 DEF Tables
<1>12. GatewayAgrees' BY <1>3, <1>8, <1>9, <1>10, <1>11 DEF IInv, GatewayAgrees, Subscribed
<1> QED BY <1>4, <1>6, <1>7, <1>12, TypeParts DEF IInv

\* A cluster that is told has what it was to be told of; of one that is not, the
\* applications that it misses are set apart.
LEMMA StepTellCluster ==
  ASSUME IInv, NEW c \in Clusters, TellCluster(c)
  PROVE  IInv'
<1>1. Tables /\ Typed(rq) BY TypeParts DEF IInv
<1>2. telling' = [telling EXCEPT ![c] = {}] /\ UNCHANGED <<sub, rows, apply, auto, rq>>
      BY DEF TellCluster
<1>3. \/ /\ gateway' = [gateway EXCEPT ![c] = gateway[c] \cup telling[c]]
         /\ unsure' = unsure \cup (telling[c] \ Subscribed)
      \/ unsure' = unsure \cup (telling[c] \ gateway[c]) /\ UNCHANGED gateway
      BY DEF TellCluster
<1>4. telling[c] \in SUBSET Apps /\ gateway[c] \in SUBSET Apps BY <1>1 DEF Tables
<1>5. /\ gateway' \in [Clusters -> SUBSET Apps] /\ telling' \in [Clusters -> SUBSET Apps]
      /\ unsure' \in SUBSET Apps /\ unsure \subseteq unsure'
      /\ \A d \in Clusters : gateway[d] \subseteq gateway'[d]
      /\ \A d \in Clusters \ {c} : gateway'[d] = gateway[d] /\ telling'[d] = telling[d]
      BY <1>1, <1>2, <1>3, <1>4 DEF Tables
<1>6. \A a \in Apps \ unsure' : /\ a \in gateway'[c] => a \in gateway[c] \cup Subscribed
                                /\ a \in gateway[c] \cup telling[c] => a \in gateway'[c]
      BY <1>1, <1>3, <1>4 DEF Tables
<1>7. Tables' BY <1>1, <1>2, <1>5 DEF Tables
<1>8. \A q \in Requests : Reading(q)'
  <2> TAKE q \in Requests
  <2>1. rq[q].at = "subscribe" => rq[q].app \in Apps BY <1>1 DEF Typed, Rq
  <2> QED BY <1>2, <1>5, <2>1 DEF IInv, Reading
<1>9. Pending' = Pending /\ Subscribed' = Subscribed BY <1>2 DEF Pending, Subscribed
<1>10. GatewayAgrees'
  <2> SUFFICES ASSUME NEW a \in Apps, a \notin unsure' \cup Pending, NEW d \in Clusters
               PROVE  /\ a \in gateway'[d] => a \in Subscribed
                      /\ a \in Subscribed => a \in gateway'[d] \cup telling'[d]
      BY <1>9 DEF GatewayAgrees
  <2>1. /\ a \in gateway[d] => a \in Subscribed
        /\ a \in Subscribed => a \in gateway[d] \cup telling[d]
        BY <1>5 DEF IInv, GatewayAgrees
  <2>2. CASE d = c BY <1>6, <2>1, <2>2
  <2>3. CASE d # c BY <1>5, <2>1, <2>3
  <2> QED BY <2>2, <2>3
<1> QED BY <1>1, <1>2, <1>7, <1>8, <1>10, TypeParts DEF IInv

-----------------------------------------------------------------------------
(* The theorems.                                                           *)

LEMMA StepInv == IInv /\ [Next]_vars => IInv'
<1> SUFFICES ASSUME IInv, [Next]_vars PROVE IInv' OBVIOUS
<1>1. ASSUME NEW r \in Requests, Call(r) PROVE IInv'
  <2>1. ASSUME NEW a \in Apps, SubscribeRead(r, a) PROVE IInv' BY <2>1, StepSubscribeRead
  <2>2. ASSUME NEW a \in Apps, NEW id \in 1 .. rows, RevokeApplyRead(r, a, id) PROVE IInv'
        BY <2>2, StepRevokeApplyRead
  <2>3. ASSUME NEW a \in Apps, NEW id \in 1 .. rows, RevokeRead(r, a, id) PROVE IInv'
        BY <2>3, StepRevokeRead
  <2>4. ASSUME NEW a \in Apps, AddSubscriber(r, a) PROVE IInv' BY <2>4, StepAddSubscriber
  <2>5. ASSUME NEW a \in Apps, DeleteSubscriber(r, a) PROVE IInv' BY <2>5, StepDeleteSubscriber
  <2>6. ASSUME NEW x \in Applies, Pass(r, x) PROVE IInv' BY <2>6, StepPass
  <2>7. ASSUME NEW x \in Applies, Reject(r, x) PROVE IInv' BY <2>7, StepReject
  <2>8. CASE Fails(r) BY <2>8, Refused DEF Fails
  <2> QED BY <1>1, <2>1, <2>2, <2>3, <2>4, <2>5, <2>6, <2>7, <2>8 DEF Call
<1>2. ASSUME NEW r \in Requests, Handle(r) PROVE IInv'
      BY <1>2, StepSubscribeWrite, StepSubscribeFails, StepRevokeApplyWrite, StepRevokeWrite DEF Handle
<1>3. ASSUME NEW r \in Requests, Answered(r) PROVE IInv' BY <1>3, StepAnswered
<1>4. CASE SetApproval BY <1>4, StepSetApproval
<1>5. ASSUME NEW c \in Clusters, ResetCluster(c) \/ TellCluster(c) PROVE IInv'
      BY <1>5, StepResetCluster, StepTellCluster
<1>6. CASE UNCHANGED vars
      BY <1>6 DEF vars, IInv, TypeOK, Reading, GatewayAgrees, Subscribed, Pending
<1> QED BY <1>1, <1>2, <1>3, <1>4, <1>5, <1>6 DEF Next

\* What a request has read stays true of the tables as long as no other request
\* disturbs it: the inductive invariant behind the other theorems.
THEOREM Undisturbed == Spec => []IInv
<1>1. Init => IInv BY InitInv
<1>2. IInv /\ [Next]_vars => IInv' BY StepInv
<1> QED BY <1>1, <1>2, PTL DEF Spec

\* The tables, the gateway and the requests keep their types, and a row has a uuid
\* exactly if it exists.
THEOREM TypeCorrect == Spec => []TypeOK
<1>1. IInv => TypeOK BY DEF IInv
<1> QED BY <1>1, Undisturbed, PTL

\* A cluster lets an application call the service exactly if it is subscribed,
\* except where the code gives no such promise.
THEOREM Agreement == Spec => []GatewayAgrees
<1>1. IInv => GatewayAgrees BY DEF IInv
<1> QED BY <1>1, Undisturbed, PTL

\* A subscribed application does not lose its subscription by applying again or by
\* taking an application back, unless another request disturbs it.
THEOREM NotLostByApplying == Spec => ApplyingKeeps
<1> DEFINE Keeps == \A a \in Apps : a \in Subscribed /\ sub'[a].status \in {"review", "cancel"} => a \in unsure'
<1>1. ASSUME IInv, NEW r \in Requests, SubscribeWrite(r) PROVE Keeps
  <2> SUFFICES ASSUME NEW a \in Apps, sub[a].status = "subscribe", sub'[a].status \in {"review", "cancel"}
               PROVE  a \in unsure'
      BY DEF Subscribed
  <2>1. sub \in [Apps -> [id : Nat, status : Status]] BY <1>1 DEF IInv, TypeOK
  <2>2. rq[r].app \in Apps BY <1>1 DEF SubscribeWrite, IInv, TypeOK, Rq
  <2>3. rq[r].app = a /\ sub' # sub
    <3>1. sub' # sub BY <2>1
    <3>2. \/ \E row : Save(rq[r].app, row)
          \/ sub' = sub
          BY <1>1 DEF SubscribeWrite
    <3> QED BY <2>1, <2>2, <3>1, <3>2 DEF Save
  <2>4. CASE rq[r].raced BY <1>1, <2>3, <2>4 DEF SubscribeWrite, Unsure
  <2>5. CASE ~ rq[r].raced
    <3>1. sub[a] = rq[r].row BY <1>1, <2>3, <2>5 DEF SubscribeWrite, IInv, Reading
    <3>2. rq[r].row # NoRow /\ ~ Resaves(rq[r].row) BY <3>1 DEF NoRow, Resaves
    <3> QED BY <1>1, <2>3, <3>2 DEF SubscribeWrite
  <2> QED BY <2>4, <2>5
<1>2. ASSUME IInv, NEW r \in Requests, RevokeApplyWrite(r) PROVE Keeps
  <2> SUFFICES ASSUME NEW a \in Apps, sub[a].status = "subscribe", sub'[a].status \in {"review", "cancel"}
               PROVE  a \in unsure'
      BY DEF Subscribed
  <2>1. sub \in [Apps -> [id : Nat, status : Status]] BY <1>2 DEF IInv, TypeOK
  <2>2. rq[r].app \in Apps BY <1>2 DEF RevokeApplyWrite, IInv, TypeOK, Rq
  <2>3. sub' # sub BY <2>1
  <2>4. /\ sub[rq[r].app].id = rq[r].row.id
        /\ Save(rq[r].app, [sub[rq[r].app] EXCEPT !.status = "cancel"])
        BY <1>2, <2>3 DEF RevokeApplyWrite, Refuse
  <2>5. rq[r].app = a BY <2>1, <2>2, <2>4 DEF Save
  <2>6. rq[r].raced BY <1>2, <2>5 DEF RevokeApplyWrite, IInv, Reading
  <2> QED BY <1>2, <2>4, <2>5, <2>6 DEF RevokeApplyWrite, Unsure
<1>3. ASSUME IInv, [Next]_vars,
             ~ \E r \in Requests : SubscribeWrite(r) \/ RevokeApplyWrite(r)
      PROVE  Keeps
  <2> SUFFICES ASSUME NEW a \in Apps, sub[a].status = "subscribe"
               PROVE  sub'[a].status \notin {"review", "cancel"}
      BY DEF Subscribed
  <2>1. sub \in [Apps -> [id : Nat, status : Status]] BY <1>3 DEF IInv, TypeOK
  <2>2. ASSUME sub' = sub PROVE sub'[a].status = "subscribe" BY <2>2
  <2>3. ASSUME NEW b \in Apps, NEW row, row.status \in {"none", "unsubscribe", "subscribe"}, Save(b, row)
        PROVE  sub'[a].status \in {"none", "unsubscribe", "subscribe"}
        BY <2>1, <2>3 DEF Save
  <2>4. ASSUME NEW b \in Apps, NEW status \in {"unsubscribe", "subscribe"},
               Save(b, [sub[b] EXCEPT !.status = status])
        PROVE  sub'[a].status \in {"none", "unsubscribe", "subscribe"}
        BY <2>1, <2>3, <2>4
  <2>5. ASSUME NEW r \in Requests, Call(r)
        PROVE  sub'[a].status \in {"none", "unsubscribe", "subscribe"}
    <3>1. ASSUME NEW b \in Apps, SubscribeRead(r, b) PROVE sub' = sub BY <3>1 DEF SubscribeRead
    <3>2. ASSUME NEW b \in Apps, NEW id \in 1 .. rows, RevokeApplyRead(r, b, id) PROVE sub' = sub
          BY <3>2 DEF RevokeApplyRead, Refuse
    <3>3. ASSUME NEW b \in Apps, NEW id \in 1 .. rows, RevokeRead(r, b, id) PROVE sub' = sub
          BY <3>3 DEF RevokeRead, Refuse
    <3>4. ASSUME NEW b \in Apps, AddSubscriber(r, b)
          PROVE  sub'[a].status \in {"none", "unsubscribe", "subscribe"}
      <4>1. \/ sub' = sub
            \/ Save(b, [id |-> rows + 1, status |-> "subscribe"])
            \/ Save(b, [sub[b] EXCEPT !.status = "subscribe"])
            BY <3>4 DEF AddSubscriber
      <4> QED BY <2>2, <2>3, <2>4, <4>1
    <3>5. ASSUME NEW b \in Apps, DeleteSubscriber(r, b)
          PROVE  sub'[a].status \in {"none", "unsubscribe", "subscribe"}
      <4>1. sub' = sub \/ Save(b, NoRow) BY <3>5 DEF DeleteSubscriber
      <4>2. NoRow.status = "none" BY DEF NoRow
      <4> QED BY <2>2, <2>3, <4>1, <4>2
    <3>6. ASSUME NEW x \in Applies, Pass(r, x)
          PROVE  sub'[a].status \in {"none", "unsubscribe", "subscribe"}
      <4>1. sub' = sub \/ Save(apply[x].app, [sub[apply[x].app] EXCEPT !.status = "subscribe"])
            BY <3>6 DEF Pass, Refuse
      <4>2. ASSUME sub' # sub PROVE apply[x].app \in Apps
        <5>1. apply[x] \in [app : Apps \cup {None}, status : {"none", "review", "subscribe", "refuse"}]
              BY <1>3 DEF IInv, TypeOK
        <5>2. apply[x].app = None <=> apply[x].status = "none" BY <1>3 DEF IInv, TypeOK
        <5> QED BY <3>6, <5>1, <5>2 DEF Pass, NoApply
      <4> QED BY <2>2, <2>4, <4>1, <4>2
    <3>7. ASSUME NEW x \in Applies, Reject(r, x) PROVE sub' = sub BY <3>7 DEF Reject
    <3>8. CASE Fails(r) BY <2>2, <3>8 DEF Fails, Refuse
    <3> QED BY <2>2, <2>5, <3>1, <3>2, <3>3, <3>4, <3>5, <3>6, <3>7, <3>8 DEF Call
  <2>6. ASSUME NEW r \in Requests, Handle(r)
        PROVE  sub'[a].status \in {"none", "unsubscribe", "subscribe"}
    <3>1. CASE SubscribeFails(r) BY <2>2, <3>1 DEF SubscribeFails
    <3>2. CASE RevokeWrite(r)
      <4>1. sub' = sub \/ Save(rq[r].app, [sub[rq[r].app] EXCEPT !.status = "unsubscribe"])
            BY <3>2 DEF RevokeWrite, Refuse
      <4>2. rq[r].app \in Apps BY <1>3, <3>2 DEF RevokeWrite, IInv, TypeOK, Rq
      <4> QED BY <2>2, <2>4, <4>1, <4>2
    <3> QED BY <1>3, <2>6, <3>1, <3>2 DEF Handle
  <2>7. ASSUME NEW r \in Requests, Answered(r) PROVE sub' = sub BY <2>7 DEF Answered
  <2>8. CASE SetApproval BY <2>2, <2>8 DEF SetApproval
  <2>9. ASSUME NEW c \in Clusters, ResetCluster(c) \/ TellCluster(c) PROVE sub' = sub
        BY <2>9 DEF ResetCluster, TellCluster
  <2>10. CASE UNCHANGED vars BY <2>2, <2>10 DEF vars
  <2> QED BY <1>3, <2>2, <2>5, <2>6, <2>7, <2>8, <2>9, <2>10 DEF Next
<1>4. IInv /\ [Next]_vars => [Keeps]_vars BY <1>1, <1>2, <1>3
<1> QED BY <1>4, Undisturbed, PTL DEF Spec, ApplyingKeeps
-----------------------------------------------------------------------------
(* The pages.                                                              *)

\* The parts of a request, which is all that the pages need to know of it.
Parts(q) == [at |-> q.at, app |-> q.app, row |-> q.row, auto |-> q.auto,
             lost |-> q.lost, raced |-> q.raced]

Shaped(f) == f = [r \in Requests |-> Parts(f[r])]

\* The parts of a request for a list.
ListParts(l) == [at |-> l.at, list |-> l.list, late |-> l.late]

Asking == asked = [p \in Pages |-> [n \in Lists |-> ListParts(asked[p][n])]]

PagesShape ==
  /\ Shaped(rq)
  /\ Asking
  /\ shown = [p \in Pages |-> shown[p]]
  /\ dialog = [p \in Pages |-> dialog[p]]
  /\ open \subseteq Pages
  /\ sent \subseteq Slots

\* A dialog that waits is there, and its request is in progress.
Waiting ==
  \A s \in sent : /\ dialog[Page(s)] # NoDialog
                  /\ rq[s].at # "idle" \/ dialog[Page(s)].kind = "add"

\* What has been read of a list and is not too late is what the server has.
Current ==
  \A p \in Pages, n \in Lists :
    asked[p][n].at = "read" /\ ~asked[p][n].late => asked[p][n].list = Listed(p)

\* A page that does not show what the server has waits for a list that is not too late,
\* or will be told to ask for one by a request of its own that has succeeded.
UpToDate ==
  \A p \in open : \/ p \in outdated
                  \/ \E n \in Lists : asked[p][n].at # "none" /\ ~asked[p][n].late
                  \/ \E s \in Slots : Page(s) = p /\ rq[s].at = "ok"
                  \/ shown[p] = Listed(p)

PagesInv == PagesShape /\ Waiting /\ Current /\ UpToDate

\* What a step of the server for a request does to the requests and to the tables that
\* pages show.
Served(s) ==
  /\ Shaped(rq')
  /\ rq'[s].at # "idle"
  /\ \A r \in Requests \ {s} : rq'[r].at = rq[r].at
  /\ rq'[s].at = "ok" \/ UNCHANGED <<sub, apply>>

\* The requests that a handler writes, taken apart.
LEMMA AtParts ==
  ASSUME NEW at, NEW n, n = [NoRq EXCEPT !.at = at]
  PROVE  n = Parts(n) /\ n.at = at
<1>1. n = [at |-> at, app |-> None, row |-> NoRow, auto |-> FALSE, lost |-> {}, raced |-> FALSE]
  BY DEF NoRq
<1> QED BY <1>1 DEF Parts

LEMMA RacedParts ==
  ASSUME NEW q, q = Parts(q), NEW n, n = [q EXCEPT !.raced = TRUE]
  PROVE  n = Parts(n) /\ n.at = q.at
<1> DEFINE u == q.at v == q.app w == q.row x == q.auto y == q.lost z == q.raced
<1>1. q = [at |-> u, app |-> v, row |-> w, auto |-> x, lost |-> y, raced |-> z] BY DEF Parts
<1> HIDE DEF u, v, w, x, y, z
<1>2. n = [at |-> u, app |-> v, row |-> w, auto |-> x, lost |-> y, raced |-> TRUE] BY <1>1
<1>3. q.at = u BY DEF u
<1> QED BY <1>2, <1>3 DEF Parts
LEMMA SlotPage == \A s \in Slots : Page(s) \in Pages
BY DEF Slots, Page, Pages

LEMMA OneServed ==
  ASSUME Shaped(rq), NEW s \in Requests, NEW n, rq' = [rq EXCEPT ![s] = n], n = Parts(n),
         n.at # "idle", n.at = "ok" \/ UNCHANGED <<sub, apply>>
  PROVE  Served(s)
BY DEF Served, Shaped

LEMMA RefuseServed ==
  ASSUME Shaped(rq), NEW s \in Requests, Refuse(s)
  PROVE  Served(s)
<1> DEFINE n == [NoRq EXCEPT !.at = "error"]
<1>1. n = Parts(n) /\ n.at = "error" BY AtParts
<1>2. rq' = [rq EXCEPT ![s] = n] /\ UNCHANGED <<sub, apply>> BY DEF Refuse
<1> HIDE DEF n
<1> QED BY <1>1, <1>2, OneServed

LEMMA AnswerServed ==
  ASSUME Shaped(rq), NEW s \in Requests, NEW a, NEW at \in {"ok", "error"}, Answer(s, a, at),
         at = "error" => UNCHANGED <<sub, apply>>
  PROVE  Served(s)
<1> DEFINE n == [NoRq EXCEPT !.at = at]
<1>1. n = Parts(n) /\ n.at = at BY AtParts
<1>3. \A r \in Requests : rq[r] = Parts(rq[r]) BY DEF Shaped
<1>2. ASSUME NEW r \in Requests
      PROVE  /\ [rq[r] EXCEPT !.raced = TRUE] = Parts([rq[r] EXCEPT !.raced = TRUE])
             /\ [rq[r] EXCEPT !.raced = TRUE].at = rq[r].at
  BY <1>3, RacedParts
<1> HIDE DEF n
<1>4. rq'[s] = n /\ \A r \in Requests \ {s} : rq'[r] \in {rq[r], [rq[r] EXCEPT !.raced = TRUE]}
  BY DEF Answer, n
<1>5. rq' = [r \in Requests |-> rq'[r]] BY DEF Answer
<1>6. \A r \in Requests : rq'[r] = Parts(rq'[r]) BY <1>1, <1>2, <1>3, <1>4
<1>7. Shaped(rq') BY <1>5, <1>6 DEF Shaped
<1> QED BY <1>1, <1>2, <1>4, <1>7 DEF Served

LEMMA HandleServed ==
  ASSUME Shaped(rq), NEW s \in Requests, Handle(s)
  PROVE  Served(s)
<1>1. CASE SubscribeWrite(s) BY <1>1, AnswerServed DEF SubscribeWrite
<1>2. CASE SubscribeFails(s) BY <1>2, AnswerServed DEF SubscribeFails
<1>3. CASE RevokeApplyWrite(s)
  BY <1>3, AnswerServed, RefuseServed DEF RevokeApplyWrite
<1>4. CASE RevokeWrite(s)
  <2>1. CASE Refuse(s) BY <2>1, RefuseServed
  <2>2. CASE ~Refuse(s)
    <3>1. PICK done \in SUBSET Clusters :
            /\ Answer(s, rq[s].app, IF done = Clusters THEN "ok" ELSE "error")
            /\ done # Clusters => UNCHANGED <<sub, apply>>
      BY <1>4, <2>2 DEF RevokeWrite
    <3> QED BY <3>1, AnswerServed
  <2> QED BY <2>1, <2>2
<1> QED BY <1>1, <1>2, <1>3, <1>4 DEF Handle

LEMMA ConfirmServed ==
  ASSUME Shaped(rq), NEW s \in Requests, Confirm(s)
  PROVE  /\ Served(s)
         /\ UNCHANGED <<open, shown, dialog>>
         /\ rq[s].at = "idle" /\ s \notin sent /\ sent' = sent \cup {s}
         /\ dialog[Page(s)].kind # NoDialog.kind
<1>1. ASSUME NEW kind, Send(s, kind)
      PROVE  /\ UNCHANGED <<open, shown, dialog>>
             /\ rq[s].at = "idle" /\ s \notin sent /\ sent' = sent \cup {s}
             /\ dialog[Page(s)].kind = kind
  BY <1>1 DEF Send, Free
<1>2. CASE Send(s, "apply") /\ (SubscribeRead(s, App("portal")) \/ Fails(s))
  <2>1. ASSUME Fails(s) PROVE Served(s) BY <2>1, RefuseServed DEF Fails
  <2>2. ASSUME SubscribeRead(s, App("portal")) PROVE Served(s)
    <3>1. PICK lost \in SUBSET Clusters :
            rq' = [rq EXCEPT ![s] = [at |-> "subscribe", app |-> App("portal"),
                                     row |-> sub[App("portal")], auto |-> auto, lost |-> lost,
                                     raced |-> FALSE]]
      BY <2>2 DEF SubscribeRead
    <3> DEFINE n == [at |-> "subscribe", app |-> App("portal"), row |-> sub[App("portal")],
                     auto |-> auto, lost |-> lost, raced |-> FALSE]
    <3>2. n = Parts(n) /\ n.at = "subscribe" BY DEF Parts
    <3>3. UNCHANGED <<sub, apply>> BY <2>2 DEF SubscribeRead
    <3> HIDE DEF n
    <3>4. rq' = [rq EXCEPT ![s] = n] BY <3>1 DEF n
    <3> QED BY <3>2, <3>3, <3>4, OneServed
  <2>3. Served(s) BY <1>2, <2>1, <2>2
  <2> QED BY <1>1, <1>2, <2>3 DEF NoDialog
<1>3. ASSUME NEW at, at # "idle", NEW a,
             rq' = [rq EXCEPT ![s] = [NoRq EXCEPT !.at = at, !.app = a, !.row = sub[a]]],
             UNCHANGED <<sub, apply>>
      PROVE  Served(s)
  <2> PICK row : row = sub[a] OBVIOUS
  <2>1. PICK n : n = [NoRq EXCEPT !.at = at, !.app = a, !.row = row] OBVIOUS
  <2>2. n = [at |-> at, app |-> a, row |-> row, auto |-> FALSE, lost |-> {}, raced |-> FALSE]
    BY <2>1 DEF NoRq
  <2>4. n = Parts(n) /\ n.at = at BY <2>2 DEF Parts
  <2>3. rq' = [rq EXCEPT ![s] = n] BY <1>3, <2>1
  <2> QED BY <1>3, <2>3, <2>4, OneServed
<1>4. CASE Send(s, "cancelSubApply") /\ RevokeApplyRead(s, App("consumer"), dialog["consumer"].id)
  <2>1. Served(s) BY <1>3, <1>4, RefuseServed DEF RevokeApplyRead
  <2> QED BY <1>1, <1>4, <2>1 DEF NoDialog
<1>5. CASE Send(s, "cancelSub") /\ RevokeRead(s, App("consumer"), dialog["consumer"].id)
  <2>1. Served(s) BY <1>3, <1>5, RefuseServed DEF RevokeRead
  <2> QED BY <1>1, <1>5, <2>1 DEF NoDialog
<1>6. ASSUME NEW n \in {[NoRq EXCEPT !.at = "ok"]}, rq' = [rq EXCEPT ![s] = n] PROVE Served(s)
  <2>1. n = Parts(n) /\ n.at = "ok" BY <1>6, AtParts
  <2> QED BY <1>6, <2>1, OneServed
<1>7. CASE Send(s, "add") /\ (AddSubscriber(s, App("provider")) \/ Fails(s))
  <2> DEFINE a == App("provider")
  <2>1. ASSUME Fails(s) PROVE Served(s) BY <2>1, RefuseServed DEF Fails
  <2>2. ASSUME AddSubscriber(s, a), a \in Subscribed PROVE Served(s)
    BY <1>6, <2>2 DEF AddSubscriber
  <2>3. ASSUME AddSubscriber(s, a), a \notin Subscribed PROVE Served(s)
    <3>1. PICK done \in SUBSET Clusters :
            /\ Answer(s, a, IF done = Clusters THEN "ok" ELSE "error")
            /\ done # Clusters => UNCHANGED sub
      BY <2>3 DEF AddSubscriber
    <3>2. UNCHANGED apply BY <2>3 DEF AddSubscriber
    <3> QED BY <3>1, <3>2, AnswerServed
  <2>4. Served(s) BY <1>7, <2>1, <2>2, <2>3
  <2> QED BY <1>1, <1>7, <2>4 DEF NoDialog
<1>8. CASE Send(s, "delete") /\ (DeleteSubscriber(s, App("provider")) \/ Fails(s))
  <2> DEFINE a == App("provider")
  <2>1. ASSUME Fails(s) PROVE Served(s) BY <2>1, RefuseServed DEF Fails
  <2>2. ASSUME DeleteSubscriber(s, a) PROVE Served(s)
    <3>1. PICK done \in SUBSET Clusters :
            /\ Answer(s, a, IF done = Clusters THEN "ok" ELSE "error")
            /\ done # Clusters => UNCHANGED sub
      BY <2>2 DEF DeleteSubscriber
    <3>2. UNCHANGED apply BY <2>2 DEF DeleteSubscriber
    <3> QED BY <3>1, <3>2, AnswerServed
  <2>3. Served(s) BY <1>8, <2>1, <2>2
  <2> QED BY <1>1, <1>8, <2>3 DEF NoDialog
<1>9. CASE Send(s, "approval") /\ Pass(s, App("approver"))
  <2>1. Served(s) BY <1>9, AnswerServed, RefuseServed DEF Pass
  <2> QED BY <1>1, <1>9, <2>1 DEF NoDialog
<1>10. CASE Send(s, "approval") /\ Reject(s, App("approver"))
  <2>1. Served(s) BY <1>6, <1>10 DEF Reject
  <2> QED BY <1>1, <1>10, <2>1 DEF NoDialog
<1> QED BY <1>2, <1>4, <1>5, <1>7, <1>8, <1>9, <1>10 DEF Confirm

\* The lists after a step that leaves the tables alone.
LEMMA ListedSame ==
  ASSUME UNCHANGED <<sub, apply>>
  PROVE  \A p : Listed(p)' = Listed(p)
BY DEF Listed, SubscriptionsOf, Subscribed

\* A page asks for its list: the new request is not too late, the others are.
LEMMA AsksLists ==
  ASSUME PagesShape, NEW p \in Pages, Asks(p)
  PROVE  /\ Asking'
         /\ \A o \in Pages \ {p} : asked'[o] = asked[o]
         /\ \E n \in Lists : asked'[p][n].at # "none" /\ ~asked'[p][n].late
         /\ \A n \in Lists : asked'[p][n].at = "read" => asked'[p][n].late
<1>1. PICK n \in Lists :
        asked' = [asked EXCEPT ![p] = [m \in Lists |-> IF m = n THEN NewList(p) ELSE Late(asked[p][m])]]
      BY DEF Asks
<1>2. NewList(p) = ListParts(NewList(p)) /\ NewList(p).at = "asked" /\ NewList(p).late = FALSE
  <2> PICK b : b = Blank(p) OBVIOUS
  <2> PICK l : l = NewList(p) OBVIOUS
  <2>1. NoList(p) = [at |-> "none", list |-> b, late |-> FALSE] BY DEF NoList
  <2>2. l = [[at |-> "none", list |-> b, late |-> FALSE] EXCEPT !.at = "asked"] BY <2>1 DEF NewList
  <2>3. l = [at |-> "asked", list |-> b, late |-> FALSE] BY <2>2
  <2> QED BY <2>3 DEF ListParts
<1>3. ASSUME NEW m \in Lists
      PROVE  /\ Late(asked[p][m]) = ListParts(Late(asked[p][m]))
             /\ Late(asked[p][m]).at = asked[p][m].at
             /\ Late(asked[p][m]).late = (asked[p][m].at # "none")
  <2>1. asked[p][m] = ListParts(asked[p][m]) BY DEF PagesShape, Asking
  <2> PICK l : l = asked[p][m] OBVIOUS
  <2> QED BY <2>1 DEF Late, ListParts
<1>4. asked'[p] = [m \in Lists |-> IF m = n THEN NewList(p) ELSE Late(asked[p][m])]
      /\ \A o \in Pages \ {p} : asked'[o] = asked[o]
      BY <1>1 DEF PagesShape, Asking
<1>5. \A m \in Lists : asked'[p][m] = ListParts(asked'[p][m]) BY <1>2, <1>3, <1>4
<1>6. \A o \in Pages, m \in Lists : asked'[o][m] = ListParts(asked'[o][m])
      BY <1>4, <1>5 DEF PagesShape, Asking
<1>7. \A o \in Pages : asked'[o] = [m \in Lists |-> asked'[o][m]] BY <1>4 DEF PagesShape, Asking
<1>8. asked' = [o \in Pages |-> asked'[o]] BY <1>1 DEF PagesShape, Asking
<1>9. Asking' BY <1>6, <1>7, <1>8 DEF Asking
<1>10. asked'[p][n].at # "none" /\ ~asked'[p][n].late BY <1>2, <1>4
<1>11. \A m \in Lists : asked'[p][m].at = "read" => asked'[p][m].late BY <1>2, <1>3, <1>4
<1> QED BY <1>4, <1>9, <1>10, <1>11

\* A step of the server leaves requests for lists as they are, but for those that have
\* been read and what they say has changed.
LEMMA ChangedLists ==
  ASSUME PagesShape, NEW s, Changed(s)
  PROVE  /\ Asking'
         /\ \A p \in Pages, n \in Lists :
              /\ asked'[p][n].at = asked[p][n].at /\ asked'[p][n].list = asked[p][n].list
              /\ IF asked[p][n].at = "read" /\ Listed(p)' # Listed(p) THEN asked'[p][n].late
                 ELSE asked'[p][n].late = asked[p][n].late
<1>1. asked' = [p \in Pages |-> [n \in Lists |->
                 IF asked[p][n].at = "read" /\ Listed(p)' # Listed(p) THEN Late(asked[p][n])
                 ELSE asked[p][n]]]
      BY DEF Changed
<1>2. ASSUME NEW p \in Pages, NEW n \in Lists
      PROVE  /\ asked'[p][n] = ListParts(asked'[p][n])
             /\ asked'[p][n].at = asked[p][n].at /\ asked'[p][n].list = asked[p][n].list
             /\ IF asked[p][n].at = "read" /\ Listed(p)' # Listed(p) THEN asked'[p][n].late
                ELSE asked'[p][n].late = asked[p][n].late
  <2>1. asked[p][n] = ListParts(asked[p][n]) BY DEF PagesShape, Asking
  <2> PICK l : l = asked[p][n] OBVIOUS
  <2>2. /\ Late(l) = ListParts(Late(l)) /\ Late(l).at = l.at /\ Late(l).list = l.list
        /\ Late(l).late = (l.at # "none")
        BY <2>1 DEF Late, ListParts
  <2>3. asked'[p][n] = IF l.at = "read" /\ Listed(p)' # Listed(p) THEN Late(l) ELSE l
        BY <1>1
  <2> QED BY <2>1, <2>2, <2>3
<1>3. asked' = [p \in Pages |-> asked'[p]] BY <1>1
<1>4. \A p \in Pages : asked'[p] = [n \in Lists |-> asked'[p][n]] BY <1>1
<1>5. Asking' BY <1>2, <1>3, <1>4 DEF Asking
<1> QED BY <1>2, <1>5

\* A request for a list that is read.
LEMMA ReadParts ==
  ASSUME NEW l, l = ListParts(l), NEW list, NEW n, n = [l EXCEPT !.at = "read", !.list = list]
  PROVE  n = [at |-> "read", list |-> list, late |-> l.late]
<1> DEFINE u == l.at v == l.list w == l.late
<1>1. l = [at |-> u, list |-> v, late |-> w] BY DEF ListParts
<1> HIDE DEF u, v, w
<1>2. n = [at |-> "read", list |-> list, late |-> w] BY <1>1
<1> QED BY <1>2 DEF w

\* One request for a list moves on.
Moves(p, n, l) == asked' = [asked EXCEPT ![p][n] = l]

LEMMA OneList ==
  ASSUME PagesShape, NEW p \in Pages, NEW n \in Lists, NEW l, l = ListParts(l), Moves(p, n, l)
  PROVE  /\ Asking'
         /\ asked'[p][n] = l
         /\ \A o \in Pages, m \in Lists : o # p \/ m # n => asked'[o][m] = asked[o][m]
<1>1. asked'[p] = [asked[p] EXCEPT ![n] = l] /\ \A o \in Pages \ {p} : asked'[o] = asked[o]
      BY DEF Moves, PagesShape, Asking
<1>2. asked[p] = [m \in Lists |-> asked[p][m]] /\ asked' = [o \in Pages |-> asked'[o]]
      BY DEF Moves, PagesShape, Asking
<1>3. asked'[p][n] = l /\ \A m \in Lists \ {n} : asked'[p][m] = asked[p][m] BY <1>1, <1>2
<1>4. \A o \in Pages, m \in Lists : asked'[o][m] = ListParts(asked'[o][m])
  <2> TAKE o \in Pages, m \in Lists
  <2>1. CASE o = p /\ m = n BY <1>3, <2>1
  <2>2. CASE ~(o = p /\ m = n)
    <3>1. asked'[o][m] = asked[o][m] BY <1>1, <1>3, <2>2
    <3>2. asked[o][m] = ListParts(asked[o][m]) BY DEF PagesShape, Asking
    <3> QED BY <3>1, <3>2 DEF ListParts
  <2> QED BY <2>1, <2>2
<1>5. \A o \in Pages : asked'[o] = [m \in Lists |-> asked'[o][m]]
  <2> TAKE o \in Pages
  <2>1. CASE o = p BY <1>1, <1>2, <2>1
  <2>2. CASE o # p BY <1>1, <2>2 DEF PagesShape, Asking
  <2> QED BY <2>1, <2>2
<1>6. Asking' BY <1>2, <1>4, <1>5 DEF Asking
<1> QED BY <1>1, <1>3, <1>6

\* A step of the server for a request of a page.
LEMMA ServedStep ==
  ASSUME PagesInv, Slots \subseteq Requests, NEW s \in Slots, Served(s), Changed(s), rq[s].at # "ok",
         UNCHANGED <<open, shown, dialog>>,
         sent' = sent \/ (sent' = sent \cup {s} /\ dialog[Page(s)] # NoDialog)
  PROVE  PagesInv'
<1>0. /\ Asking'
      /\ \A p \in Pages, n \in Lists :
           /\ asked'[p][n].at = asked[p][n].at /\ asked'[p][n].list = asked[p][n].list
           /\ IF asked[p][n].at = "read" /\ Listed(p)' # Listed(p) THEN asked'[p][n].late
              ELSE asked'[p][n].late = asked[p][n].late
      BY ChangedLists DEF PagesInv
<1>1. PagesShape' BY <1>0 DEF PagesInv, PagesShape, Served
<1>2. Waiting' BY DEF PagesInv, PagesShape, Waiting, Served
<1>3. Current' BY <1>0 DEF PagesInv, Current
<1>4. UpToDate'
  <2> SUFFICES ASSUME NEW p \in open
               PROVE  \/ p \in outdated'
                      \/ \E n \in Lists : asked'[p][n].at # "none" /\ ~asked'[p][n].late
                      \/ \E q \in Slots : Page(q) = p /\ rq'[q].at = "ok"
                      \/ shown'[p] = Listed(p)'
    BY DEF UpToDate
  <2>0. p \in Pages BY DEF PagesInv, PagesShape
  <2>1. CASE \E q \in Slots : Page(q) = p /\ rq'[q].at = "ok" BY <2>1
  <2>2. CASE p \in outdated BY <2>2 DEF Changed
  <2>3. CASE \E q \in Slots \ {s} : Page(q) = p /\ rq[q].at = "ok" BY <2>3 DEF Served
  <2>4. CASE Listed(p)' = Listed(p) /\ shown[p] = Listed(p) BY <2>4
  <2>5. CASE /\ Listed(p)' = Listed(p)
             /\ \E n \in Lists : asked[p][n].at # "none" /\ ~asked[p][n].late
        BY <1>0, <2>0, <2>5
  <2>6. CASE Listed(p)' # Listed(p) /\ p # Page(s) BY <2>6 DEF Changed
  <2>7. CASE Listed(p)' # Listed(p) /\ p = Page(s)
    <3>1. rq'[s].at = "ok" BY <2>7, ListedSame DEF Served
    <3> QED BY <2>7, <3>1
  <2> QED BY <2>1, <2>2, <2>3, <2>4, <2>5, <2>6, <2>7 DEF PagesInv, UpToDate
<1> QED BY <1>1, <1>2, <1>3, <1>4 DEF PagesInv

\* A page asks for its list, when it is entered or later.
LEMMA AsksStep ==
  ASSUME PagesInv, NEW p \in Pages, Asks(p), UNCHANGED <<vars, shown, dialog, sent, outdated>>,
         open' = open \cup {p}
  PROVE  PagesInv'
<1>1. rq' = rq /\ \A o : Listed(o)' = Listed(o) BY ListedSame DEF vars
<1>2. /\ Asking'
      /\ \A o \in Pages \ {p} : asked'[o] = asked[o]
      /\ \E n \in Lists : asked'[p][n].at # "none" /\ ~asked'[p][n].late
      /\ \A n \in Lists : asked'[p][n].at = "read" => asked'[p][n].late
      BY AsksLists DEF PagesInv
<1>3. PagesShape' /\ Waiting' BY <1>1, <1>2 DEF PagesInv, PagesShape, Waiting
<1>4. Current' BY <1>1, <1>2 DEF PagesInv, Current
<1>5. UpToDate'
  <2> SUFFICES ASSUME NEW o \in open, o # p
               PROVE  \/ o \in outdated
                      \/ \E n \in Lists : asked'[o][n].at # "none" /\ ~asked'[o][n].late
                      \/ \E q \in Slots : Page(q) = o /\ rq[q].at = "ok"
                      \/ shown[o] = Listed(o)
    BY <1>1, <1>2 DEF UpToDate
  <2>1. asked'[o] = asked[o] BY <1>2 DEF PagesInv, PagesShape
  <2> QED BY <2>1 DEF PagesInv, UpToDate
<1> QED BY <1>3, <1>4, <1>5 DEF PagesInv

LEMMA EnterStep == ASSUME PagesInv, NEW p \in Pages, Enter(p) PROVE PagesInv'
BY AsksStep DEF Enter

LEMMA RefreshStep == ASSUME PagesInv, NEW p \in Pages, Refresh(p) PROVE PagesInv'
<1>1. open' = open \cup {p} BY DEF Refresh
<1> QED BY <1>1, AsksStep DEF Refresh

LEMMA LeaveStep == ASSUME PagesInv, NEW p \in Pages, Leave(p) PROVE PagesInv'
<1>1. /\ open' = open \ {p} /\ shown' = [shown EXCEPT ![p] = Blank(p)]
      /\ dialog' = [dialog EXCEPT ![p] = NoDialog] /\ sent' = {s \in sent : Page(s) # p}
      /\ asked' = [asked EXCEPT ![p] = [n \in Lists |-> NoList(p)]]
      /\ outdated' = outdated \ {p} /\ UNCHANGED vars
  BY DEF Leave
<1>2. rq' = rq /\ \A o : Listed(o)' = Listed(o) BY <1>1, ListedSame DEF vars
<1>3. NoList(p) = ListParts(NoList(p)) /\ NoList(p).at = "none" BY DEF NoList, ListParts
<1>4. /\ asked' = [o \in Pages |-> asked'[o]] /\ asked'[p] = [n \in Lists |-> NoList(p)]
      /\ \A o \in Pages \ {p} : asked'[o] = asked[o]
      BY <1>1 DEF PagesInv, PagesShape, Asking
<1>5. \A o \in Pages : asked'[o] = [n \in Lists |-> ListParts(asked'[o][n])]
  <2> TAKE o \in Pages
  <2>1. CASE o = p BY <1>3, <1>4, <2>1
  <2>2. CASE o # p
    <3>1. asked[o] = [n \in Lists |-> ListParts(asked[o][n])] BY DEF PagesInv, PagesShape, Asking
    <3>2. asked'[o] = asked[o] BY <1>4, <2>2
    <3> QED BY <3>1, <3>2
  <2> QED BY <2>1, <2>2
<1>6. Asking' BY <1>4, <1>5 DEF Asking
<1>7. PagesShape' BY <1>1, <1>2, <1>6 DEF PagesInv, PagesShape
<1>8. Waiting'
  <2> SUFFICES ASSUME NEW s \in sent, Page(s) # p
               PROVE  /\ dialog'[Page(s)] # NoDialog
                      /\ rq[s].at # "idle" \/ dialog'[Page(s)].kind = "add"
    BY <1>1, <1>2 DEF Waiting
  <2>1. dialog'[Page(s)] = dialog[Page(s)] BY <1>1, SlotPage DEF PagesInv, PagesShape
  <2> QED BY <2>1 DEF PagesInv, Waiting
<1>9. Current' BY <1>2, <1>3, <1>4 DEF PagesInv, Current
<1>10. UpToDate'
  <2> SUFFICES ASSUME NEW o \in open, o # p
               PROVE  \/ o \in outdated
                      \/ \E n \in Lists : asked'[o][n].at # "none" /\ ~asked'[o][n].late
                      \/ \E q \in Slots : Page(q) = o /\ rq[q].at = "ok"
                      \/ shown'[o] = Listed(o)
    BY <1>1, <1>2 DEF UpToDate
  <2>1. o \in Pages BY DEF PagesInv, PagesShape
  <2>2. shown'[o] = shown[o] /\ asked'[o] = asked[o] BY <1>1, <1>4, <2>1 DEF PagesInv, PagesShape
  <2> QED BY <2>2 DEF PagesInv, UpToDate
<1> QED BY <1>7, <1>8, <1>9, <1>10 DEF PagesInv

LEMMA ReadListStep ==
  ASSUME PagesInv, NEW p \in Pages, NEW n \in Lists, ReadList(p, n)
  PROVE  PagesInv'
<1> PICK l : l = asked[p][n] OBVIOUS
<1> PICK list : list = Listed(p) OBVIOUS
<1>1. /\ l.at = "asked" /\ asked' = [asked EXCEPT ![p][n].at = "read", ![p][n].list = Listed(p)]
      /\ UNCHANGED <<vars, open, shown, dialog, sent, outdated>>
  BY DEF ReadList
<1>2. rq' = rq /\ \A o : Listed(o)' = Listed(o) BY <1>1, ListedSame DEF vars
<1> PICK read : read = [at |-> "read", list |-> list, late |-> l.late] OBVIOUS
<1>3. read = ListParts(read) BY DEF ListParts
<1>4. l = ListParts(l) BY DEF PagesInv, PagesShape, Asking
<1>5. Moves(p, n, read)
  <2> PICK m : m = [l EXCEPT !.at = "read", !.list = list] OBVIOUS
  <2>1. m = read BY <1>4, ReadParts
  <2>2. asked[p] = [o \in Lists |-> asked[p][o]] /\ asked = [o \in Pages |-> asked[o]]
        BY DEF PagesInv, PagesShape, Asking
  <2>3. asked' = [asked EXCEPT ![p][n] = m] BY <1>1, <2>2
  <2> QED BY <2>1, <2>3 DEF Moves
<1>6. /\ Asking' /\ asked'[p][n] = read
      /\ \A o \in Pages, m \in Lists : o # p \/ m # n => asked'[o][m] = asked[o][m]
      BY <1>3, <1>5, OneList DEF PagesInv
<1>7. PagesShape' /\ Waiting' BY <1>1, <1>2, <1>6 DEF PagesInv, PagesShape, Waiting
<1>8. Current' BY <1>2, <1>6 DEF PagesInv, Current
<1>9. UpToDate'
  <2> SUFFICES ASSUME NEW o \in open
               PROVE  \/ o \in outdated
                      \/ \E m \in Lists : asked'[o][m].at # "none" /\ ~asked'[o][m].late
                      \/ \E q \in Slots : Page(q) = o /\ rq[q].at = "ok"
                      \/ shown[o] = Listed(o)
    BY <1>1, <1>2 DEF UpToDate
  <2>1. o \in Pages BY DEF PagesInv, PagesShape
  <2>2. \A m \in Lists : asked[o][m].at # "none" => asked'[o][m].at # "none"
    <3> TAKE m \in Lists
    <3>1. CASE o = p /\ m = n BY <1>6, <3>1
    <3>2. CASE ~(o = p /\ m = n) BY <1>6, <2>1, <3>2
    <3> QED BY <3>1, <3>2
  <2>3. \A m \in Lists : asked'[o][m].late = asked[o][m].late BY <1>6, <2>1
  <2> QED BY <2>2, <2>3 DEF PagesInv, UpToDate
<1> QED BY <1>7, <1>8, <1>9 DEF PagesInv

\* A list arrives, or fails: the page is outdated exactly if what it got, or did not get,
\* is not the list it would have to show.
LEMMA ArriveStep ==
  ASSUME PagesInv, NEW p \in Pages, NEW n \in Lists, Drop(p, n),
         UNCHANGED <<vars, open, dialog, sent>>, asked[p][n].at # "none",
         shown' = [o \in Pages |-> shown'[o]],
         \A o \in Pages \ {p} : shown'[o] = shown[o] /\ (o \in outdated => o \in outdated'),
         \/ p \in outdated'
         \/ asked[p][n].late /\ shown'[p] = shown[p] /\ (p \in outdated => p \in outdated')
         \/ shown'[p] = Listed(p)
  PROVE  PagesInv'
<1> PICK l : l = NoList(p) OBVIOUS
<1>1. rq' = rq /\ \A o : Listed(o)' = Listed(o) BY ListedSame DEF vars
<1>2. l = ListParts(l) /\ l.at = "none" BY DEF NoList, ListParts
<1>3. Moves(p, n, l) BY DEF Drop, Moves
<1>4. /\ Asking' /\ asked'[p][n] = l
      /\ \A o \in Pages, m \in Lists : o # p \/ m # n => asked'[o][m] = asked[o][m]
      BY <1>2, <1>3, OneList DEF PagesInv
<1>5. PagesShape' /\ Waiting' BY <1>1, <1>4 DEF PagesInv, PagesShape, Waiting
<1>6. Current' BY <1>1, <1>2, <1>4 DEF PagesInv, Current
<1>7. UpToDate'
  <2> SUFFICES ASSUME NEW o \in open
               PROVE  \/ o \in outdated'
                      \/ \E m \in Lists : asked'[o][m].at # "none" /\ ~asked'[o][m].late
                      \/ \E q \in Slots : Page(q) = o /\ rq[q].at = "ok"
                      \/ shown'[o] = Listed(o)
    BY <1>1 DEF UpToDate
  <2>1. o \in Pages BY DEF PagesInv, PagesShape
  <2>2. CASE o # p
    <3>1. \A m \in Lists : asked'[o][m] = asked[o][m] BY <1>4, <2>1, <2>2
    <3>2. shown'[o] = shown[o] /\ (o \in outdated => o \in outdated') BY <2>1, <2>2
    <3> QED BY <3>1, <3>2 DEF PagesInv, UpToDate
  <2>3. CASE o = p /\ (p \in outdated' \/ shown'[p] = Listed(p)) BY <2>3
  <2>4. CASE o = p /\ asked[p][n].late /\ shown'[p] = shown[p] /\ (p \in outdated => p \in outdated')
    <3>1. \A m \in Lists : ~asked[p][m].late => asked'[p][m] = asked[p][m] BY <1>4, <2>4
    <3> QED BY <2>4, <3>1 DEF PagesInv, UpToDate
  <2> QED BY <2>2, <2>3, <2>4
<1> QED BY <1>5, <1>6, <1>7 DEF PagesInv

LEMMA LoadStep == ASSUME PagesInv, NEW p \in Pages, NEW n \in Lists, Load(p, n) PROVE PagesInv'
<1>1. /\ asked[p][n].at = "read" /\ Drop(p, n) /\ UNCHANGED <<vars, open, dialog, sent>>
      /\ shown' = [shown EXCEPT ![p] = asked[p][n].list]
      /\ outdated' = IF asked[p][n].late THEN outdated \cup {p} ELSE outdated \ {p}
  BY DEF Load
<1>2. ~asked[p][n].late => asked[p][n].list = Listed(p) BY <1>1 DEF PagesInv, Current
<1>3. /\ shown' = [o \in Pages |-> shown'[o]] /\ shown'[p] = asked[p][n].list
      /\ \A o \in Pages \ {p} : shown'[o] = shown[o]
  BY <1>1 DEF PagesInv, PagesShape
<1>4. p \in outdated' \/ shown'[p] = Listed(p) BY <1>1, <1>2, <1>3
<1>5. \A o \in Pages \ {p} : o \in outdated => o \in outdated' BY <1>1
<1> QED BY <1>1, <1>3, <1>4, <1>5, ArriveStep

LEMMA LoadFailsStep ==
  ASSUME PagesInv, NEW p \in Pages, NEW n \in Lists, LoadFails(p, n)
  PROVE  PagesInv'
<1>1. /\ asked[p][n].at # "none" /\ Drop(p, n) /\ UNCHANGED <<vars, open, shown, dialog, sent>>
      /\ outdated' = IF asked[p][n].late THEN outdated ELSE outdated \cup {p}
  BY DEF LoadFails
<1>2. shown' = [o \in Pages |-> shown'[o]] /\ \A o \in Pages : shown'[o] = shown[o]
  BY <1>1 DEF PagesInv, PagesShape
<1>3. p \in outdated' \/ asked[p][n].late BY <1>1
<1>4. \A o \in Pages : o \in outdated => o \in outdated' BY <1>1
<1> QED BY <1>1, <1>2, <1>3, <1>4, ArriveStep

\* A dialog opens where there was none, or closes and nothing waits for it any more.
LEMMA DialogStep ==
  ASSUME PagesInv, NEW p \in Pages, NEW d, dialog' = [dialog EXCEPT ![p] = d],
         UNCHANGED <<vars, open, shown, asked, outdated>>, sent' \subseteq sent,
         \A s \in sent' : Page(s) # p
  PROVE  PagesInv'
<1>1. rq' = rq /\ \A o : Listed(o)' = Listed(o) BY ListedSame DEF vars
<1>2. PagesShape' BY <1>1 DEF PagesInv, PagesShape, Asking
<1>3. UpToDate' /\ Current' BY <1>1 DEF PagesInv, UpToDate, Current
<1>4. Waiting'
  <2> SUFFICES ASSUME NEW s \in sent, Page(s) # p
               PROVE  /\ dialog'[Page(s)] # NoDialog
                      /\ rq[s].at # "idle" \/ dialog'[Page(s)].kind = "add"
    BY <1>1 DEF Waiting
  <2>1. dialog'[Page(s)] = dialog[Page(s)] BY SlotPage DEF PagesInv, PagesShape
  <2> QED BY <2>1 DEF PagesInv, Waiting
<1> QED BY <1>2, <1>3, <1>4 DEF PagesInv

LEMMA OpenStep ==
  ASSUME PagesInv, NEW p \in Pages, NEW kind, NEW a, NEW id, Open(p, kind, a, id)
  PROVE  PagesInv'
<1>1. dialog[p] = NoDialog /\ UNCHANGED <<vars, open, shown, sent, asked, outdated>>
      /\ dialog' = [dialog EXCEPT ![p] = [kind |-> kind, app |-> a, id |-> id]]
  BY DEF Open
<1>2. \A s \in sent : Page(s) # p BY <1>1 DEF PagesInv, Waiting
<1> QED BY <1>1, <1>2, DialogStep

LEMMA CloseStep == ASSUME PagesInv, NEW p \in Pages, Close(p) PROVE PagesInv'
BY DialogStep DEF Close

LEMMA ConfirmStep ==
  ASSUME PagesInv, Slots \subseteq Requests, NEW s \in Slots, Confirm(s)
  PROVE  PagesInv'
<1>1. Changed(s) BY DEF Confirm
<1>2. Shaped(rq) BY DEF PagesInv, PagesShape
<1> QED BY <1>1, <1>2, ConfirmServed, ServedStep

LEMMA ServeStep ==
  ASSUME PagesInv, Slots \subseteq Requests, NEW s \in Slots, Serve(s)
  PROVE  PagesInv'
<1>1. Handle(s) /\ Changed(s) /\ UNCHANGED <<open, shown, dialog, sent>> BY DEF Serve
<1>2. Shaped(rq) BY DEF PagesInv, PagesShape
<1>3. rq[s].at # "ok"
  BY <1>1 DEF Handle, SubscribeWrite, SubscribeFails, RevokeApplyWrite, RevokeWrite
<1> QED BY <1>1, <1>2, <1>3, HandleServed, ServedStep

\* An answer frees its request, which is told to its page or forgotten.
LEMMA AnsweredStep ==
  ASSUME PagesInv, Slots \subseteq Requests, NEW s \in Slots, Answered(s),
         UNCHANGED <<open, shown>>, outdated \subseteq outdated', asked' = asked \/ Asks(Page(s)),
         rq[s].at = "ok" /\ Page(s) \in open => Page(s) \in outdated' \/ Asks(Page(s)),
         sent' \subseteq sent, s \in sent' => dialog[Page(s)].kind = "add",
         dialog' = [p \in Pages |-> dialog'[p]],
         \A q \in sent' : dialog'[Page(q)] = dialog[Page(q)]
  PROVE  PagesInv'
<1>1. rq' = [rq EXCEPT ![s] = NoRq] /\ UNCHANGED <<sub, apply>> BY DEF Answered
<1>2. NoRq = Parts(NoRq) BY DEF NoRq, Parts
<1>3. Shaped(rq') /\ \A r \in Requests \ {s} : rq'[r] = rq[r]
  BY <1>1, <1>2 DEF PagesInv, PagesShape, Shaped
<1>4. Page(s) \in Pages BY SlotPage
<1>5. Asking' /\ \A o \in Pages : asked'[o] = asked[o] \/ (o = Page(s) /\ Asks(o))
  <2>1. CASE asked' = asked BY <2>1 DEF PagesInv, PagesShape, Asking
  <2>2. CASE Asks(Page(s)) BY <1>4, <2>2, AsksLists DEF PagesInv
  <2> QED BY <2>1, <2>2
<1>6. \A o \in Pages : Asks(o) => /\ \E n \in Lists : asked'[o][n].at # "none" /\ ~asked'[o][n].late
                                  /\ \A n \in Lists : asked'[o][n].at = "read" => asked'[o][n].late
  BY AsksLists DEF PagesInv
<1>7. PagesShape' BY <1>3, <1>5 DEF PagesInv, PagesShape
<1>8. Waiting' BY <1>3 DEF PagesInv, PagesShape, Waiting
<1>9. \A o : Listed(o)' = Listed(o) BY <1>1, ListedSame
<1>10. Current' BY <1>5, <1>6, <1>9 DEF PagesInv, Current
<1>11. UpToDate'
  <2> SUFFICES ASSUME NEW p \in open
               PROVE  \/ p \in outdated'
                      \/ \E n \in Lists : asked'[p][n].at # "none" /\ ~asked'[p][n].late
                      \/ \E q \in Slots : Page(q) = p /\ rq'[q].at = "ok"
                      \/ shown[p] = Listed(p)
    BY <1>9 DEF UpToDate
  <2>1. p \in Pages BY DEF PagesInv, PagesShape
  <2>2. CASE Asks(p) BY <1>6, <2>1, <2>2
  <2>3. CASE ~Asks(p) /\ Page(s) = p /\ rq[s].at = "ok" BY <2>3
  <2>4. CASE \E q \in Slots \ {s} : Page(q) = p /\ rq[q].at = "ok" BY <1>3, <2>4
  <2>5. CASE ~Asks(p) /\ \E n \in Lists : asked[p][n].at # "none" /\ ~asked[p][n].late
    <3>1. asked'[p] = asked[p] BY <1>5, <2>1, <2>5
    <3> QED BY <2>5, <3>1
  <2> QED BY <2>2, <2>3, <2>4, <2>5 DEF PagesInv, UpToDate
<1> QED BY <1>7, <1>8, <1>10, <1>11 DEF PagesInv

LEMMA RespondStep ==
  ASSUME PagesInv, Slots \subseteq Requests, NEW s \in Slots, Respond(s)
  PROVE  PagesInv'
<1>1. CASE Serve(s) BY <1>1, ServeStep
<1>2. CASE Succeed(s)
  <2>1. /\ Answered(s) /\ UNCHANGED <<open, shown, outdated>>
        /\ asked' = asked \/ Asks(Page(s))
        /\ Page(s) \in open => Asks(Page(s))
    BY <1>2 DEF Succeed
  <2>2. CASE s \in sent
    <3>1. dialog' = [dialog EXCEPT ![Page(s)] = NoDialog] /\ sent' = {q \in sent : Page(q) # Page(s)}
      BY <1>2, <2>2 DEF Succeed
    <3>2. dialog' = [p \in Pages |-> dialog'[p]] BY <3>1 DEF PagesInv, PagesShape
    <3>3. \A q \in sent' : dialog'[Page(q)] = dialog[Page(q)]
      BY <3>1, SlotPage DEF PagesInv, PagesShape
    <3> QED BY <2>1, <3>1, <3>2, <3>3, AnsweredStep
  <2>3. CASE s \notin sent
    <3>1. UNCHANGED <<dialog, sent>> BY <1>2, <2>3 DEF Succeed
    <3>2. dialog' = [p \in Pages |-> dialog'[p]] BY <3>1 DEF PagesInv, PagesShape
    <3> QED BY <2>1, <2>3, <3>1, <3>2, AnsweredStep
  <2> QED BY <2>2, <2>3
<1>3. CASE Reported(s)
  <2>1. dialog' = [p \in Pages |-> dialog'[p]] BY <1>3 DEF Reported, PagesInv, PagesShape
  <2> QED BY <1>3, <2>1, AnsweredStep DEF Reported
<1>4. CASE AnswerLost(s)
  <2>1. dialog' = [p \in Pages |-> dialog'[p]] BY <1>4 DEF AnswerLost, PagesInv, PagesShape
  <2> QED BY <1>4, <2>1, AnsweredStep DEF AnswerLost, Notices
<1> QED BY <1>1, <1>2, <1>3, <1>4 DEF Respond

LEMMA ActStep ==
  ASSUME PagesInv, Slots \subseteq Requests, Act
  PROVE  PagesInv'
<1>1. {"portal", "consumer", "provider", "approver"} = Pages BY DEF Pages
<1>2. ASSUME NEW p \in Pages, Enter(p) \/ Leave(p) \/ Refresh(p) \/ Close(p) PROVE PagesInv'
  BY <1>2, EnterStep, LeaveStep, RefreshStep, CloseStep
<1>6. ASSUME NEW p \in Pages, NEW n \in Lists, ReadList(p, n) \/ Load(p, n) \/ LoadFails(p, n)
      PROVE  PagesInv'
  BY <1>6, ReadListStep, LoadStep, LoadFailsStep
<1>3. ASSUME NEW a \in Apps, OpenApply(a) \/ OpenCancel(a) \/ OpenSubscriber(a) PROVE PagesInv'
  BY <1>1, <1>3, OpenStep DEF OpenApply, OpenCancel, OpenSubscriber
<1>4. ASSUME NEW x \in Applies, OpenApproval(x) PROVE PagesInv'
  BY <1>1, <1>4, OpenStep DEF OpenApproval
<1>5. ASSUME NEW s \in Slots, Confirm(s) PROVE PagesInv' BY <1>5, ConfirmStep
<1> QED BY <1>2, <1>3, <1>4, <1>5, <1>6 DEF Act

\* What goes on without the pages touches nothing they show.
LEMMA ElsewhereStep ==
  ASSUME PagesInv, Slots \subseteq Requests, Elsewhere \/ UNCHANGED pageVars
  PROVE  PagesInv'
<1>1. UNCHANGED <<sub, apply>> /\ UNCHANGED <<open, shown, dialog, sent, asked, outdated>>
  BY DEF Elsewhere, pages, pageVars, vars, SetApproval, ResetCluster, TellCluster
<1>2. Shaped(rq') /\ \A r \in Requests : rq'[r].at = rq[r].at
  <2>1. CASE rq' = rq BY <2>1 DEF PagesInv, PagesShape
  <2>2. CASE rq' = [q \in Requests |-> IF rq[q].app = None THEN rq[q]
                                       ELSE [rq[q] EXCEPT !.raced = TRUE]]
    <3>2. \A r \in Requests : rq[r] = Parts(rq[r]) BY DEF PagesInv, PagesShape, Shaped
    <3>1. ASSUME NEW r \in Requests
          PROVE  /\ [rq[r] EXCEPT !.raced = TRUE] = Parts([rq[r] EXCEPT !.raced = TRUE])
                 /\ [rq[r] EXCEPT !.raced = TRUE].at = rq[r].at
      BY <3>2, RacedParts
    <3>3. \A r \in Requests : rq'[r] \in {rq[r], [rq[r] EXCEPT !.raced = TRUE]} BY <2>2
    <3>4. \A r \in Requests : rq'[r] = Parts(rq'[r]) /\ rq'[r].at = rq[r].at BY <3>1, <3>2, <3>3
    <3>5. rq' = [r \in Requests |-> rq'[r]] BY <2>2
    <3> QED BY <3>4, <3>5 DEF Shaped
  <2> QED BY <2>1, <2>2 DEF Elsewhere, pageVars, vars, SetApproval, ResetCluster, TellCluster
<1>3. \A o : Listed(o)' = Listed(o) BY <1>1, ListedSame
<1>4. PagesShape' BY <1>1, <1>2 DEF PagesInv, PagesShape, Asking
<1>5. Waiting' BY <1>1, <1>2 DEF PagesInv, PagesShape, Waiting
<1>6. UpToDate' /\ Current' BY <1>1, <1>2, <1>3 DEF PagesInv, UpToDate, Current
<1> QED BY <1>4, <1>5, <1>6 DEF PagesInv

LEMMA PagesInit == PageInit => PagesInv
<1> SUFFICES ASSUME PageInit PROVE PagesInv OBVIOUS
<1>1. \A p : NoList(p) = ListParts(NoList(p)) /\ NoList(p).at = "none" BY DEF NoList, ListParts
<1>2. Asking /\ Current BY <1>1 DEF PageInit, Asking, Current
<1> QED BY <1>2 DEF PageInit, Init, PagesInv, PagesShape, Waiting, UpToDate, Shaped, Parts, NoRq

LEMMA PagesStep == Slots \subseteq Requests /\ PagesInv /\ [PageNext]_pageVars => PagesInv'
<1> SUFFICES ASSUME Slots \subseteq Requests, PagesInv, [PageNext]_pageVars PROVE PagesInv'
  OBVIOUS
<1>1. CASE Act BY <1>1, ActStep
<1>2. ASSUME NEW s \in Slots, Respond(s) PROVE PagesInv' BY <1>2, RespondStep
<1>3. CASE Elsewhere \/ UNCHANGED pageVars BY <1>3, ElsewhereStep
<1> QED BY <1>1, <1>2, <1>3 DEF PageNext

\* Whatever is applied for, decided on and ended, on any pages at once, and however
\* answers come: a page with nothing under way shows what the server has, unless someone
\* else changed that, an answer to its own request was lost, or the list it asked for last
\* failed or was followed by an older one.
THEOREM ListsKeepUp ==
  ASSUME Slots \subseteq Requests
  PROVE  PageSpec => []ListKeepsUp
<1>1. PagesInv => ListKeepsUp BY DEF PagesInv, UpToDate, ListKeepsUp, Free
<1> QED BY <1>1, PagesInit, PagesStep, PTL DEF PageSpec

\* A dialog whose button is busy has a request in progress, through any answers, losses
\* and pages that are left; the one that adds a subscriber is excepted.
THEOREM DialogsReleased ==
  ASSUME Slots \subseteq Requests
  PROVE  PageSpec => []NoDialogHangs
<1>1. PagesInv => NoDialogHangs BY DEF PagesInv, Waiting, NoDialogHangs, Free
<1> QED BY <1>1, PagesInit, PagesStep, PTL DEF PageSpec
=============================================================================
