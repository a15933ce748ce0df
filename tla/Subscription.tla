--------------------------- MODULE Subscription ---------------------------
(***************************************************************************)
(* The subscriptions of one service: the rows of the applications that     *)
(* have applied for it or use it, the applications an approver decides on, *)
(* and which applications each gateway cluster lets call the service.  The *)
(* code is module/subscribe, service/subscribe, Subscribe of               *)
(* module/catalogue, ResetCluster and the gateway's subscribe client.      *)
(* Services have nothing to do with each other: every query names one.     *)
(*                                                                         *)
(* A database transaction is one step with its calls to the gateway, which *)
(* stay done when it is rolled back.  A handler that decides on what it    *)
(* read before is two steps.  A request that names several applications is *)
(* one request for each of them.                                           *)
(***************************************************************************)
EXTENDS Naturals, FiniteSets

CONSTANTS
  Apps,      \* applications that may subscribe
  Clusters,  \* the gateway's clusters
  Applies,   \* the uuids an application for the service may draw
  Requests,  \* requests that can be in progress at once
  MaxRows,   \* bound: subscription rows that are ever created
  None

ASSUME NoneAssumption == None \notin Apps \cup Applies
ASSUME BoundAssumption == MaxRows \in Nat

VARIABLES
  sub,      \* table subscribe: one row per application (a unique index)
  rows,     \* how many rows have been created: the uuid of the last one
  apply,    \* table subscribe_apply: the application and the decision
  auto,     \* whether the service approves of itself
  gateway,  \* the applications each cluster lets call the service
  telling,  \* the applications each cluster that is being reset is to be told of
  rq,       \* requests in progress
  unsure    \* history: applications of which the gateway may not know what the row says

vars == <<sub, rows, apply, auto, gateway, telling, rq, unsure>>

-----------------------------------------------------------------------------
Status == {"none", "review", "subscribe", "unsubscribe", "cancel"}

NoRow   == [id |-> 0, status |-> "none"]
NoApply == [app |-> None, status |-> "none"]

\* raced: another request has touched the application's row, or its place in the
\* gateway, since this one read or wrote it.
NoRq == [at |-> "idle", app |-> None, row |-> NoRow, auto |-> FALSE,
         lost |-> {}, raced |-> FALSE]

Subscribed == {a \in Apps : sub[a].status = "subscribe"}

\* The gateway lets application a call on the clusters C, or stops it there.
Online(a, C)  == gateway' = [c \in Clusters |-> IF c \in C THEN gateway[c] \cup {a} ELSE gateway[c]]
Offline(a, C) == gateway' = [c \in Clusters |-> IF c \in C THEN gateway[c] \ {a} ELSE gateway[c]]

Save(a, row) == sub' = [sub EXCEPT ![a] = row]

\* The handler of r is done with application a: at says how it answered.
Answer(r, a, at) ==
  rq' = [q \in Requests |->
           IF q = r THEN [NoRq EXCEPT !.at = at]
           ELSE IF rq[q].app = a THEN [rq[q] EXCEPT !.raced = TRUE]
           ELSE rq[q]]

\* It answered without touching anything.
Refuse(r) ==
  /\ rq' = [rq EXCEPT ![r] = [NoRq EXCEPT !.at = "error"]]
  /\ UNCHANGED <<sub, rows, apply, auto, gateway, telling, unsure>>

Sure(a)   == unsure' = unsure \ {a}
Unsure(a) == unsure' = unsure \cup {a}

-----------------------------------------------------------------------------
(* The consumer.                                                           *)

\* Subscribe: a service that approves of itself is brought online first; that a
\* cluster did not take it is only logged.  Then the row is read.
SubscribeRead(r, a) ==
  /\ rq[r].at = "idle"
  /\ \E lost \in SUBSET Clusters :
       /\ ~ auto => lost = {}
       /\ rq' = [rq EXCEPT ![r] = [at |-> "subscribe", app |-> a, row |-> sub[a],
                                   auto |-> auto, lost |-> lost, raced |-> FALSE]]
       /\ IF auto THEN Online(a, Clusters \ lost) ELSE UNCHANGED gateway
  /\ UNCHANGED <<sub, rows, apply, auto, telling, unsure>>

\* Mutant: a subscribed application that applies again waits for the decision.
Resaves_Always(row) == TRUE

\* A further application changes the row of one that is not subscribed.
Resaves(row) == row.status # "subscribe"

\* A row that was missing is created (an error if it exists by now), one that
\* was there is saved; that it is gone by now is an error that is dropped.
SubscribeWrite(r) ==
  LET q == rq[r]
      a == q.app
      status == IF q.auto THEN "subscribe" ELSE "review"
  IN /\ q.at = "subscribe"
     /\ \E x \in Applies : /\ apply[x] = NoApply
                           /\ apply' = [apply EXCEPT ![x] = [app |-> a, status |-> status]]
     /\ IF q.row = NoRow
          THEN /\ sub[a] = NoRow
               /\ rows < MaxRows
               /\ rows' = rows + 1
               /\ Save(a, [id |-> rows + 1, status |-> status])
          ELSE /\ UNCHANGED rows
               /\ IF sub[a].id = q.row.id /\ Resaves(q.row)
                    THEN Save(a, [sub[a] EXCEPT !.status = status])
                    ELSE UNCHANGED sub
     /\ IF q.raced \/ q.lost # {} THEN Unsure(a)
        ELSE IF q.auto THEN Sure(a) ELSE UNCHANGED unsure
     /\ Answer(r, a, "ok")
     /\ UNCHANGED <<auto, gateway, telling>>

\* The transaction is rolled back, the gateway is not.
SubscribeFails(r) ==
  LET q == rq[r]
  IN /\ q.at = "subscribe"
     /\ Answer(r, q.app, "error")
     /\ IF q.auto THEN Unsure(q.app) ELSE UNCHANGED unsure
     /\ UNCHANGED <<sub, rows, apply, auto, gateway, telling>>

\* RevokeApply takes an application back that is under review.  The consumer
\* names the row; what an approver has to decide on stays.
RevokeApplyRead(r, a, id) ==
  /\ rq[r].at = "idle"
  /\ IF sub[a] = [id |-> id, status |-> "review"]
       THEN /\ rq' = [rq EXCEPT ![r] = [NoRq EXCEPT !.at = "revokeApply", !.app = a, !.row = sub[a]]]
            /\ UNCHANGED <<sub, rows, apply, auto, gateway, telling, unsure>>
       ELSE Refuse(r)

RevokeApplyWrite(r) ==
  LET q == rq[r]
  IN /\ q.at = "revokeApply"
     /\ IF sub[q.app].id = q.row.id
          THEN /\ Save(q.app, [sub[q.app] EXCEPT !.status = "cancel"])
               /\ IF q.raced THEN Unsure(q.app) ELSE UNCHANGED unsure
               /\ Answer(r, q.app, "ok")
               /\ UNCHANGED <<rows, apply, auto, gateway, telling>>
          ELSE Refuse(r)

\* RevokeSubscription ends a subscription.
RevokeRead(r, a, id) ==
  /\ rq[r].at = "idle"
  /\ IF sub[a] = [id |-> id, status |-> "subscribe"]
       THEN /\ rq' = [rq EXCEPT ![r] = [NoRq EXCEPT !.at = "revoke", !.app = a, !.row = sub[a]]]
            /\ UNCHANGED <<sub, rows, apply, auto, gateway, telling, unsure>>
       ELSE Refuse(r)

\* Mutant: the transaction does not call the gateway.
RevokeWrite_KeepsOnline(r) ==
  LET q == rq[r]
  IN /\ q.at = "revoke"
     /\ sub[q.app].id = q.row.id
     /\ Save(q.app, [sub[q.app] EXCEPT !.status = "unsubscribe"])
     /\ Sure(q.app)
     /\ Answer(r, q.app, "ok")
     /\ UNCHANGED <<rows, apply, auto, gateway, telling>>

\* The first cluster that does not take it rolls the row back; done are the
\* clusters that took it.
RevokeWrite(r) ==
  LET q == rq[r]
      a == q.app
  IN /\ q.at = "revoke"
     /\ IF sub[a].id = q.row.id
          THEN \E done \in SUBSET Clusters :
                 /\ Offline(a, done)
                 /\ IF done = Clusters
                      THEN Save(a, [sub[a] EXCEPT !.status = "unsubscribe"]) /\ Sure(a)
                      ELSE UNCHANGED sub /\ Unsure(a)
                 /\ Answer(r, a, IF done = Clusters THEN "ok" ELSE "error")
                 /\ UNCHANGED <<rows, apply, auto, telling>>
          ELSE Refuse(r)

-----------------------------------------------------------------------------
(* The provider.                                                           *)

\* AddSubscriber subscribes an application without its applying; for one that
\* is subscribed it does nothing, the gateway included.
AddSubscriber(r, a) ==
  /\ rq[r].at = "idle"
  /\ IF a \in Subscribed
       THEN /\ rq' = [rq EXCEPT ![r] = [NoRq EXCEPT !.at = "ok"]]
            /\ UNCHANGED <<sub, rows, gateway, unsure>>
       ELSE /\ sub[a] = NoRow => rows < MaxRows
            /\ \E done \in SUBSET Clusters :
                 /\ Online(a, done)
                 /\ IF done = Clusters
                      THEN /\ Sure(a)
                           /\ IF sub[a] = NoRow
                                THEN /\ rows' = rows + 1
                                     /\ Save(a, [id |-> rows + 1, status |-> "subscribe"])
                                ELSE /\ UNCHANGED rows
                                     /\ Save(a, [sub[a] EXCEPT !.status = "subscribe"])
                      ELSE UNCHANGED <<sub, rows>> /\ Unsure(a)
                 /\ Answer(r, a, IF done = Clusters THEN "ok" ELSE "error")
  /\ UNCHANGED <<apply, auto, telling>>

\* DeleteSubscriber deletes whatever row the application has.
DeleteSubscriber(r, a) ==
  /\ rq[r].at = "idle"
  /\ \E done \in SUBSET Clusters :
       /\ Offline(a, done)
       /\ IF done = Clusters THEN Save(a, NoRow) /\ Sure(a)
          ELSE UNCHANGED sub /\ Unsure(a)
       /\ Answer(r, a, IF done = Clusters THEN "ok" ELSE "error")
  /\ UNCHANGED <<rows, apply, auto, telling>>

\* Pass subscribes the application, whatever was decided on it before and even
\* if it was taken back; that a cluster did not take it is only logged.
Pass(r, x) ==
  LET a == apply[x].app
  IN /\ rq[r].at = "idle"
     /\ apply[x] # NoApply
     /\ IF sub[a] # NoRow
          THEN \E lost \in SUBSET Clusters :
                 /\ apply' = [apply EXCEPT ![x].status = "subscribe"]
                 /\ Save(a, [sub[a] EXCEPT !.status = "subscribe"])
                 /\ Online(a, Clusters \ lost)
                 /\ IF lost = {} THEN Sure(a) ELSE Unsure(a)
                 /\ Answer(r, a, "ok")
                 /\ UNCHANGED <<rows, auto, telling>>
          ELSE Refuse(r)

\* Reject decides on the application and leaves the row as it is.
Reject(r, x) ==
  /\ rq[r].at = "idle"
  /\ apply[x] # NoApply
  /\ apply' = [apply EXCEPT ![x].status = "refuse"]
  /\ rq' = [rq EXCEPT ![r] = [NoRq EXCEPT !.at = "ok"]]
  /\ UNCHANGED <<sub, rows, auto, gateway, telling, unsure>>

\* Any of them may fail before it has done anything.
Fails(r) == rq[r].at = "idle" /\ Refuse(r)

\* The answer arrives.
Answered(r) ==
  /\ rq[r].at \in {"ok", "error"}
  /\ rq' = [rq EXCEPT ![r] = NoRq]
  /\ UNCHANGED <<sub, rows, apply, auto, gateway, telling, unsure>>

\* Edit of the service.
SetApproval ==
  /\ auto' = ~ auto
  /\ UNCHANGED <<sub, rows, apply, gateway, telling, rq, unsure>>

\* ResetCluster points a cluster at the gateway it was at or at an empty one, and
\* then reads which applications are to be brought online there.
ResetCluster(c) ==
  /\ telling[c] = {}
  /\ \E kept \in {{}, gateway[c]} : gateway' = [gateway EXCEPT ![c] = kept]
  /\ telling' = [telling EXCEPT ![c] = Subscribed]
  /\ rq' = [q \in Requests |-> IF rq[q].app = None THEN rq[q]
                               ELSE [rq[q] EXCEPT !.raced = TRUE]]
  /\ UNCHANGED <<sub, rows, apply, auto, unsure>>

\* Mutant: a failure is taken for having told the cluster.
TellCluster_Assumed(c) ==
  /\ telling[c] # {}
  /\ \E told \in SUBSET telling[c] : gateway' = [gateway EXCEPT ![c] = gateway[c] \cup told]
  /\ unsure' = unsure \cup (telling[c] \ Subscribed)
  /\ telling' = [telling EXCEPT ![c] = {}]
  /\ UNCHANGED <<sub, rows, apply, auto, rq>>

\* It brings those it has read online and takes none offline; or something before that
\* has failed, and the cluster stays at its new gateway without them.
TellCluster(c) ==
  /\ telling[c] # {}
  /\ \/ /\ gateway' = [gateway EXCEPT ![c] = gateway[c] \cup telling[c]]
        /\ unsure' = unsure \cup (telling[c] \ Subscribed)
     \/ /\ unsure' = unsure \cup (telling[c] \ gateway[c])
        /\ UNCHANGED gateway
  /\ telling' = [telling EXCEPT ![c] = {}]
  /\ UNCHANGED <<sub, rows, apply, auto, rq>>

-----------------------------------------------------------------------------
Init ==
  /\ sub = [a \in Apps |-> NoRow]
  /\ rows = 0
  /\ apply = [x \in Applies |-> NoApply]
  /\ auto \in BOOLEAN
  /\ gateway = [c \in Clusters |-> {}]
  /\ telling = [c \in Clusters |-> {}]
  /\ rq = [r \in Requests |-> NoRq]
  /\ unsure = {}

Handle(r) ==
  \/ SubscribeWrite(r) \/ SubscribeFails(r)
  \/ RevokeApplyWrite(r) \/ RevokeWrite(r)

Call(r) ==
  \/ \E a \in Apps : \/ SubscribeRead(r, a)
                     \/ \E id \in 1 .. rows : RevokeApplyRead(r, a, id) \/ RevokeRead(r, a, id)
                     \/ AddSubscriber(r, a)
                     \/ DeleteSubscriber(r, a)
  \/ \E x \in Applies : Pass(r, x) \/ Reject(r, x)
  \/ Fails(r)

Next ==
  \/ \E r \in Requests : Call(r) \/ Handle(r) \/ Answered(r)
  \/ SetApproval
  \/ \E c \in Clusters : ResetCluster(c) \/ TellCluster(c)

Spec == Init /\ [][Next]_vars

-----------------------------------------------------------------------------
(* Properties.                                                             *)

Rq == [at : {"idle", "subscribe", "revokeApply", "revoke", "ok", "error"},
       app : Apps \cup {None}, row : [id : Nat, status : Status], auto : BOOLEAN,
       lost : SUBSET Clusters, raced : BOOLEAN]

\* The tables, the gateway and the requests keep the shape of the code, a row
\* has a uuid exactly if it exists, and no uuid has yet to be drawn.
TypeOK ==
  /\ sub \in [Apps -> [id : Nat, status : Status]]
  /\ rows \in Nat
  /\ apply \in [Applies -> [app : Apps \cup {None}, status : {"none", "review", "subscribe", "refuse"}]]
  /\ auto \in BOOLEAN
  /\ gateway \in [Clusters -> SUBSET Apps]
  /\ telling \in [Clusters -> SUBSET Apps]
  /\ rq \in [Requests -> Rq]
  /\ unsure \in SUBSET Apps
  /\ \A a \in Apps : sub[a].id <= rows /\ (sub[a].id = 0 <=> sub[a].status = "none")
  /\ \A x \in Applies : apply[x].app = None <=> apply[x].status = "none"
  /\ \A r \in Requests : rq[r].at \in {"subscribe", "revokeApply", "revoke"} <=> rq[r].app # None

\* Applications online for a transaction that has not committed.
Pending == {rq[r].app : r \in {q \in Requests : rq[q].at = "subscribe" /\ rq[q].auto}}

\* A cluster lets an application call the service exactly if it is subscribed; one
\* that is being reset may still have to be told.  Excepted are applications with a
\* subscription in progress and those for which the code gives no such promise: a
\* cluster missed a call, a transaction was rolled back after one, a reset failed or
\* told of an application that has ended its subscription since, or a row was written
\* on the strength of one read before another request changed it.  An operation that
\* completes undisturbed and calls every cluster makes up for what was missed.
GatewayAgrees ==
  \A a \in Apps \ (unsure \cup Pending) : \A c \in Clusters :
    /\ a \in gateway[c] => a \in Subscribed
    /\ a \in Subscribed => a \in gateway[c] \cup telling[c]

\* An application that is subscribed does not lose that by applying again or by
\* taking an application back, unless it is decided at that very moment.
ApplyingKeeps ==
  [][\A a \in Apps : a \in Subscribed /\ sub'[a].status \in {"review", "cancel"} => a \in unsure']_vars
=============================================================================
