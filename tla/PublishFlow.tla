---------------------------- MODULE PublishFlow ----------------------------
(***************************************************************************)
(* The release and publish workflow of a service: releases (snapshots of   *)
(* the service's APIs), publish flows (apply, review, publish, stop), the   *)
(* record of the running release, and the routers each gateway cluster     *)
(* serves.  The code is module/publish, module/release, their services and *)
(* stores, the publish controller and the gateway's project client.        *)
(*                                                                         *)
(* A database transaction is one step.  What a handler reads outside a     *)
(* transaction it remembers in req and uses in a later step, so any other  *)
(* handler may run in between; a call to a gateway cluster inside          *)
(* Publish's transaction takes effect at once, while the transaction's own *)
(* writes appear only when it commits.                                     *)
(***************************************************************************)
EXTENDS Naturals, FiniteSets

CONSTANTS
  Services, Apis, Clusters,   \* the services, their APIs, the gateway clusters
  Releases, Flows,            \* the uuids a release or a publish flow may draw
  Handlers,                   \* requests that can be in progress at once
  ApiOwner,                   \* the service each API belongs to
  None                        \* the absent release, flow or service

ASSUME ApiOwnerAssumption == ApiOwner \in [Apis -> Services]
ASSUME NoneAssumption == None \notin Services \cup Releases \cup Flows
ASSUME ClustersAssumption == IsFiniteSet(Clusters)

VARIABLES
  release,        \* table release: the service of each stored release, None without a row
  commits,        \* table release_commit: the APIs each release has a proxy commit of
  minted,         \* release uuids drawn so far (a uuid is never drawn twice)
  flow,           \* table service_publish
  latest,         \* table service_publish_latest
  publishStatus,  \* table service_publish_status: one row per flow, Cluster is never set
  running,        \* table service_runtime
  gateway,        \* the router of each API on each cluster
  pc, req,        \* where each request in progress is, and what it remembers
  accepted,       \* history: the flows Accept has ever been called on
  unsaid          \* history: the flows of whose last attempt a write of the status row failed

store == <<release, commits, minted, flow, latest, publishStatus, running, accepted,
           unsaid>>
vars == <<store, gateway, pc, req>>

-----------------------------------------------------------------------------
Status == {"none", "apply", "accept", "refuse", "done", "stop", "close",
           "publishing", "error"}
Active == {"apply", "accept"}

NoFlow  == [status |-> "none", service |-> None, release |-> None]
Offline == [project |-> None, version |-> None]

NoRequest == [op |-> "none", service |-> None, release |-> None, flow |-> None,
              status |-> "none", apis |-> {}, todo |-> {}, failed |-> FALSE, unsaid |-> FALSE]

PCs == {"idle", "applyCheck", "applyRead", "applyCreate", "accept", "stopWrite",
        "publishRead", "publishInfo", "publishWait", "publishCluster", "cleanup"}

\* What the release service's GetRunning answers: a runtime row whose release
\* is gone is "record not found", which every caller takes for "not running".
GetRunning(s) ==
  IF running[s] # None /\ release[running[s]] # None THEN running[s] ELSE None

Finish(h) ==
  /\ pc' = [pc EXCEPT ![h] = "idle"]
  /\ req' = [req EXCEPT ![h] = NoRequest]

Goto(h, l) == pc' = [pc EXCEPT ![h] = l]

-----------------------------------------------------------------------------
(* Releases.                                                               *)

\* A release is the snapshot of at least one API of its service.
InsertRelease(s, r, A) ==
  /\ r \notin minted
  /\ A # {}
  /\ \A a \in A : ApiOwner[a] = s
  /\ minted' = minted \cup {r}
  /\ release' = [release EXCEPT ![r] = s]
  /\ commits' = [commits EXCEPT ![r] = A]
  /\ UNCHANGED <<flow, latest, publishStatus, running, accepted, unsaid, gateway>>

CreateRelease(s, r, A) == InsertRelease(s, r, A) /\ UNCHANGED <<pc, req>>

CanDelete(s, r) ==
  /\ release[r] = s
  /\ GetRunning(s) # r
  /\ ~ (latest[r] # None /\ flow[latest[r]].status \in Active)
  /\ \A t \in Services : running[t] # r

RemoveRelease(r) ==
  /\ release' = [release EXCEPT ![r] = None]
  /\ commits' = [commits EXCEPT ![r] = {}]
  /\ UNCHANGED <<minted, flow, latest, publishStatus, running, accepted, unsaid, gateway>>

DeleteRelease(s, r) == CanDelete(s, r) /\ RemoveRelease(r) /\ UNCHANGED <<pc, req>>

-----------------------------------------------------------------------------
(* Applying: check, read, then create, with nothing held in between.       *)

CheckPublish(s, r) ==
  /\ \A f \in Flows : ~ (flow[f].service = s /\ flow[f].status \in Active)
  /\ GetRunning(s) # r

\* ApplyOnRelease ("apply") and ReleaseDo ("do") create the release first.
CreateAndApply(h, s, r, A, op) ==
  /\ pc[h] = "idle"
  /\ InsertRelease(s, r, A)
  /\ Goto(h, "applyCheck")
  /\ req' = [req EXCEPT ![h] = [NoRequest EXCEPT !.op = op, !.service = s, !.release = r]]

\* The Apply handler on its own, for a release the caller names.
ApplyStart(h, s, r) ==
  /\ pc[h] = "idle"
  /\ CheckPublish(s, r)
  /\ Goto(h, "applyRead")
  /\ req' = [req EXCEPT ![h] = [NoRequest EXCEPT !.op = "apply", !.service = s, !.release = r]]
  /\ UNCHANGED <<store, gateway>>

ApplyCheck(h) ==
  /\ pc[h] = "applyCheck"
  /\ IF CheckPublish(req[h].service, req[h].release)
       THEN Goto(h, "applyRead") /\ UNCHANGED req
       ELSE Finish(h)
  /\ UNCHANGED <<store, gateway>>

ApplyRead(h) ==
  /\ pc[h] = "applyRead"
  /\ IF release[req[h].release] # None
       THEN Goto(h, "applyCreate") /\ UNCHANGED req
       ELSE Finish(h)
  /\ UNCHANGED <<store, gateway>>

ApplyCreate(h, f) ==
  LET s == req[h].service
      r == req[h].release
  IN /\ pc[h] = "applyCreate"
     /\ flow[f] = NoFlow
     /\ flow' = [flow EXCEPT ![f] = [status |-> "apply", service |-> s, release |-> r]]
     /\ latest' = [latest EXCEPT ![r] = f]
     /\ IF req[h].op = "do"
          THEN Goto(h, "accept") /\ req' = [req EXCEPT ![h].flow = f]
          ELSE Finish(h)
     /\ UNCHANGED <<release, commits, minted, publishStatus, running, accepted, unsaid, gateway>>

-----------------------------------------------------------------------------
(* Reviewing and stopping.                                                 *)

\* setAction: the service of the flow is checked, its status is not.
SetAction(s, f, status) ==
  /\ flow[f].service = s
  /\ flow' = [flow EXCEPT ![f].status = status]
  /\ accepted' = IF status = "accept" THEN accepted \cup {f} ELSE accepted
  /\ UNCHANGED <<release, commits, minted, latest, publishStatus, running, unsaid, gateway>>

Accept(s, f) == SetAction(s, f, "accept") /\ UNCHANGED <<pc, req>>

Refuse(s, f) == SetAction(s, f, "refuse") /\ UNCHANGED <<pc, req>>

AcceptStep(h) ==
  /\ pc[h] = "accept"
  /\ SetAction(req[h].service, req[h].flow, "accept")
  /\ Goto(h, "publishRead")
  /\ UNCHANGED req

\* Mutant: close and stop mixed up.
StopRead_Swapped(h, s, f) ==
  /\ pc[h] = "idle"
  /\ flow[f].service = s
  /\ flow[f].status \in Active
  /\ Goto(h, "stopWrite")
  /\ req' = [req EXCEPT ![h] =
       [NoRequest EXCEPT !.op = "stop", !.service = s, !.flow = f,
          !.status = IF flow[f].status = "apply" THEN "stop" ELSE "close"]]
  /\ UNCHANGED <<store, gateway>>

\* Stop (and Close, which calls it) reads the flow, decides, and writes the
\* status in a transaction of its own that looks at the service only.
StopRead(h, s, f) ==
  /\ pc[h] = "idle"
  /\ flow[f].service = s
  /\ flow[f].status \in Active
  /\ Goto(h, "stopWrite")
  /\ req' = [req EXCEPT ![h] =
       [NoRequest EXCEPT !.op = "stop", !.service = s, !.flow = f,
          !.status = IF flow[f].status = "apply" THEN "close" ELSE "stop"]]
  /\ UNCHANGED <<store, gateway>>

\* Mutant: the status lands in another column.
SetStatus_WrongColumn(f, status) == flow' = [flow EXCEPT ![f].service = status]

SetStatus(f, status) == flow' = [flow EXCEPT ![f].status = status]

StopWrite(h) ==
  /\ pc[h] = "stopWrite"
  /\ SetStatus(req[h].flow, req[h].status)
  /\ Finish(h)
  /\ UNCHANGED <<release, commits, minted, latest, publishStatus, running, accepted, unsaid, gateway>>

-----------------------------------------------------------------------------
(* Publishing.                                                             *)

\* Mutant: a flow still under review can be published.
Publishable_Unreviewed == {"apply", "accept", "done"}

Publishable == {"accept", "done"}

\* A step of h failed: ReleaseDo deletes the release it created when Accept or
\* Publish fails, every other handler just answers with the error.
OnError(h) ==
  IF req[h].op = "do" /\ req[h].flow # None
    THEN Goto(h, "cleanup") /\ UNCHANGED req
    ELSE Finish(h)

PublishStart(h, s, f) ==
  /\ pc[h] = "idle"
  /\ flow[f].service = s
  /\ flow[f].status \in Publishable
  /\ Goto(h, "publishInfo")
  /\ req' = [req EXCEPT ![h] = [NoRequest EXCEPT !.op = "publish", !.service = s,
               !.flow = f, !.release = flow[f].release]]
  /\ UNCHANGED <<store, gateway>>

PublishRead(h) ==
  /\ pc[h] = "publishRead"
  /\ IF flow[req[h].flow].status \in Publishable
       THEN Goto(h, "publishInfo") /\ UNCHANGED req
       ELSE OnError(h)
  /\ UNCHANGED <<store, gateway>>

\* Mutant: the service's APIs instead of the release's.
ReleaseApis_All(r) == Apis

\* getReleaseInfo: the APIs of a release are looked up by the ids in its
\* commits; with no commits left the lookup has no condition and finds them all.
ReleaseApis(r) == IF commits[r] = {} THEN Apis ELSE commits[r]

PublishInfo(h) ==
  /\ pc[h] = "publishInfo"
  /\ req' = [req EXCEPT ![h].apis = ReleaseApis(req[h].release), ![h].todo = Clusters]
  /\ Goto(h, "publishWait")
  /\ UNCHANGED <<store, gateway>>

\* Mutant: the row is locked when it is read, so two can wait for each other.
PublishBegin_EarlyLock(h) ==
  /\ pc[h] = "publishWait"
  /\ \A k \in Handlers \ {h} :
       ~ (pc[k] \in {"publishWait", "publishCluster"} /\ req[k].flow = req[h].flow)
  /\ Goto(h, "publishCluster")
  /\ req' = [req EXCEPT ![h].status = "publishing"]
  /\ UNCHANGED <<store, gateway>>

\* Whether the transaction of h has written the status row of f, which it then holds
\* until it ends.
Holds(h, f) == pc[h] = "publishCluster" /\ req[h].flow = f /\ req[h].status # "none"

\* The first write of the flow's row of service_publish_status: it may have to wait.
PublishBegin(h) ==
  /\ pc[h] = "publishWait"
  /\ \A k \in Handlers : ~ Holds(k, req[h].flow)
  /\ Goto(h, "publishCluster")
  /\ req' = [req EXCEPT ![h].status = "publishing"]
  /\ UNCHANGED <<store, gateway>>

\* Mutant: the superfluous routers are not deleted.
Online_KeepsOld(routers, s, r, A) ==
  [a \in Apis |-> IF a \in A THEN [project |-> s, version |-> r] ELSE routers[a]]

\* Mutant: routers of other projects are deleted too.
Online_DropsAll(routers, s, r, A) ==
  [a \in Apis |-> IF a \in A THEN [project |-> s, version |-> r] ELSE Offline]

\* The project client's Online: in one gateway transaction, set the routers of
\* the release and delete the project's other routers.
Online(routers, s, r, A) ==
  [a \in Apis |-> IF a \in A THEN [project |-> s, version |-> r]
                  ELSE IF routers[a].project = s THEN Offline
                  ELSE routers[a]]

\* The row cannot be written, perhaps because it was waited for too long: publish() of
\* this cluster returns at once, and the loop goes on.
RowRefused(h, c) ==
  /\ pc[h] \in {"publishWait", "publishCluster"}
  /\ c \in req[h].todo
  /\ req' = [req EXCEPT ![h].todo = @ \ {c}, ![h].failed = TRUE, ![h].unsaid = TRUE]
  /\ pc' = [pc EXCEPT ![h] = IF req[h].todo = {c} THEN "publishCluster" ELSE @]
  /\ UNCHANGED <<store, gateway>>

\* publish(): one cluster.  req.status is what the transaction last wrote in the flow's
\* status row, req.failed is hasError; a deferred write that fails is only logged, and
\* leaves "publishing".
ClusterEnds(h, c, status, failed) ==
  /\ pc[h] = "publishCluster"
  /\ c \in req[h].todo
  /\ \E said \in BOOLEAN :
       req' = [req EXCEPT ![h].todo = @ \ {c}, ![h].failed = @ \/ failed,
                          ![h].status = IF said THEN status ELSE "publishing",
                          ![h].unsaid = @ \/ ~ said]
  /\ UNCHANGED <<store, pc>>

ClusterDone(h, c) == ClusterEnds(h, c, "done", FALSE)

ClusterOnline(h, c) ==
  /\ ClusterDone(h, c)
  /\ gateway' = [gateway EXCEPT ![c] =
                   Online(@, req[h].service, req[h].release, req[h].apis)]

\* The error of the gateway's Commit is dropped: Online still answers success.
ClusterCommitLost(h, c) == ClusterDone(h, c) /\ UNCHANGED gateway

\* Mutant: hasError is not set.
ClusterFailed_Unmarked(h, c) == ClusterEnds(h, c, "error", FALSE) /\ UNCHANGED gateway

\* No client, or Online failed and rolled back: the loop goes on.
ClusterFailed(h, c) == ClusterEnds(h, c, "error", TRUE) /\ UNCHANGED gateway

\* The rest of the transaction: the release runs even when clusters failed.
PublishCommit(h) ==
  LET s == req[h].service
      f == req[h].flow
  IN /\ pc[h] = "publishCluster"
     /\ req[h].todo = {}
     /\ running' = [running EXCEPT ![s] = req[h].release]
     /\ publishStatus' = [publishStatus EXCEPT ![f] =
                            IF req[h].status = "none" THEN @ ELSE req[h].status]
     /\ unsaid' = IF req[h].unsaid THEN unsaid \cup {f} ELSE unsaid \ {f}
     /\ SetStatus(f, IF req[h].failed THEN "error" ELSE "done")
     /\ Finish(h)
     /\ UNCHANGED <<release, commits, minted, latest, accepted, gateway>>

\* The overview, the MCP server or a write fails: the database rolls back, the
\* clusters keep what they were given.
PublishAbort(h) ==
  /\ pc[h] = "publishCluster"
  /\ req[h].todo = {}
  /\ OnError(h)
  /\ UNCHANGED <<store, gateway>>

\* ReleaseDo's last act after a failure; the answer of Delete is ignored.
Cleanup(h) ==
  /\ pc[h] = "cleanup"
  /\ IF CanDelete(req[h].service, req[h].release)
       THEN RemoveRelease(req[h].release)
       ELSE UNCHANGED <<store, gateway>>
  /\ Finish(h)

-----------------------------------------------------------------------------
(* A storage call answers with an error before anything was written; the   *)
(* process restarts and the requests in progress are gone.                 *)

Fail(h) ==
  /\ pc[h] \notin {"idle", "publishCluster", "cleanup"}
  /\ OnError(h)
  /\ UNCHANGED <<store, gateway>>

Restart ==
  /\ \E h \in Handlers : pc[h] # "idle"
  /\ pc' = [h \in Handlers |-> "idle"]
  /\ req' = [h \in Handlers |-> NoRequest]
  /\ UNCHANGED <<store, gateway>>

-----------------------------------------------------------------------------
Init ==
  /\ release = [r \in Releases |-> None]
  /\ commits = [r \in Releases |-> {}]
  /\ minted = {}
  /\ flow = [f \in Flows |-> NoFlow]
  /\ latest = [r \in Releases |-> None]
  /\ publishStatus = [f \in Flows |-> "none"]
  /\ running = [s \in Services |-> None]
  /\ gateway = [c \in Clusters |-> [a \in Apis |-> Offline]]
  /\ pc = [h \in Handlers |-> "idle"]
  /\ req = [h \in Handlers |-> NoRequest]
  /\ accepted = {}
  /\ unsaid = {}

\* Requests that are one transaction, and so one step.
ShortRequest ==
  \E s \in Services :
    \/ \E r \in Releases : \/ \E A \in SUBSET Apis : CreateRelease(s, r, A)
                           \/ DeleteRelease(s, r)
    \/ \E f \in Flows : Accept(s, f) \/ Refuse(s, f)

\* The first step of a request of several.
Begin(h) ==
  \E s \in Services :
    \/ \E r \in Releases :
         \/ ApplyStart(h, s, r)
         \/ \E A \in SUBSET Apis, op \in {"apply", "do"} : CreateAndApply(h, s, r, A, op)
    \/ \E f \in Flows : StopRead(h, s, f) \/ PublishStart(h, s, f)

\* The next step of a request in progress when every call answers ...
Proceed(h) ==
  \/ ApplyCheck(h) \/ ApplyRead(h) \/ (\E f \in Flows : ApplyCreate(h, f))
  \/ AcceptStep(h) \/ StopWrite(h)
  \/ PublishRead(h) \/ PublishInfo(h) \/ PublishBegin(h)
  \/ (\E c \in Clusters : ClusterOnline(h, c))
  \/ PublishCommit(h) \/ Cleanup(h)

Continue(h) == Proceed(h) \/ Fail(h)

\* ... and when the gateway or the transaction of Publish fails.
GoWrong(h) ==
  \/ \E c \in Clusters : ClusterCommitLost(h, c) \/ ClusterFailed(h, c) \/ RowRefused(h, c)
  \/ PublishAbort(h)

Next ==
  \/ ShortRequest
  \/ \E h \in Handlers : Begin(h) \/ Continue(h) \/ GoWrong(h)
  \/ Restart

Spec == Init /\ [][Next]_vars

\* The bound on flows: an application that finds none left fails.
OutOfFlows(h) == pc[h] = "applyCreate" /\ \A f \in Flows : flow[f] # NoFlow

\* A request in progress is run to its end: the server schedules it and every
\* database or gateway call answers, well or badly.  Requests waiting for one
\* row of service_publish_status get it in turn (InnoDB queues them).
FairSpec ==
  /\ Spec
  /\ \A h \in Handlers : /\ WF_vars(Proceed(h) \/ (OutOfFlows(h) /\ Fail(h)))
                         /\ SF_vars(PublishBegin(h))

\* The gateway and the transactions of Publish never fail, no restart.
NextReliable ==
  \/ ShortRequest
  \/ \E h \in Handlers : Begin(h) \/ Continue(h)

-----------------------------------------------------------------------------
FlowRow == [status : Status, service : Services \cup {None}, release : Releases \cup {None}]
Router  == [project : Services \cup {None}, version : Releases \cup {None}]
Request == [op : {"none", "apply", "do", "stop", "publish"},
            service : Services \cup {None}, release : Releases \cup {None},
            flow : Flows \cup {None}, status : Status,
            apis : SUBSET Apis, todo : SUBSET Clusters, failed : BOOLEAN, unsaid : BOOLEAN]

\* The tables, the gateway and the requests hold values of their kinds.
TypeOK ==
  /\ release \in [Releases -> Services \cup {None}]
  /\ commits \in [Releases -> SUBSET Apis]
  /\ minted \in SUBSET Releases
  /\ flow \in [Flows -> FlowRow]
  /\ latest \in [Releases -> Flows \cup {None}]
  /\ publishStatus \in [Flows -> Status]
  /\ running \in [Services -> Releases \cup {None}]
  /\ gateway \in [Clusters -> [Apis -> Router]]
  /\ pc \in [Handlers -> PCs]
  /\ req \in [Handlers -> Request]
  /\ accepted \in SUBSET Flows
  /\ unsaid \in SUBSET Flows

Approved == {flow[f].release : f \in accepted}

\* No cluster routes to a release, and no service runs one, unless Accept was
\* called on a flow of that release: Publish's status check, its remembered
\* flow and the stale writes of Stop never let an unreviewed release through.
OnlyApprovedServed ==
  /\ \A c \in Clusters, a \in Apis :
       gateway[c][a].version # None => gateway[c][a].version \in Approved
  /\ \A s \in Services : running[s] # None => running[s] \in Approved

\* A flow once written keeps its service and release, and a status that only
\* follows from Accept means the flow was accepted.
FlowProvenance ==
  \A f \in Flows :
    /\ flow[f].status \in {"accept", "done", "error", "stop"} => f \in accepted
    /\ flow[f] # NoFlow => flow[f].service \in Services /\ flow[f].release \in Releases
    /\ f \in accepted => flow[f] # NoFlow

\* A request that publishes works on an accepted flow of the release it will
\* put online; one that will write "stop" has seen "accept".
RequestProvenance(h) ==
  /\ pc[h] \in {"applyCheck", "applyRead", "applyCreate"} =>
       req[h].service \in Services /\ req[h].release \in Releases
  /\ pc[h] \in {"accept", "publishRead", "publishInfo", "publishWait", "publishCluster"} =>
       /\ req[h].flow \in Flows
       /\ flow[req[h].flow] # NoFlow
       /\ flow[req[h].flow].service = req[h].service
       /\ flow[req[h].flow].release = req[h].release
  /\ pc[h] \in {"publishInfo", "publishWait", "publishCluster"} => req[h].flow \in accepted
  /\ pc[h] = "stopWrite" =>
       /\ req[h].flow \in Flows
       /\ flow[req[h].flow] # NoFlow
       /\ req[h].status \in {"stop", "close"}
       /\ req[h].status = "stop" => req[h].flow \in accepted

\* Where the approval behind every step comes from: what makes
\* OnlyApprovedServed inductive.
Provenance == FlowProvenance /\ \A h \in Handlers : RequestProvenance(h)

\* However publishes of one service interleave and fail, the routers it has on
\* a cluster all belong to one release: Online replaces them as a whole.
OneVersionPerProject ==
  \A c \in Clusters : \A a, b \in Apis :
    (gateway[c][a].project = gateway[c][b].project)
      => gateway[c][a].version = gateway[c][b].version

\* A published flow and its status row agree, whatever attempts overlapped: the row is
\* that of the attempt that set the flow's status, and "publishing" is never committed,
\* unless a write of the row failed in the last attempt that was committed; what such an
\* attempt has left the next one puts right.  (One cluster: the row is shared, so with
\* more only the last one's answer stays.)
StatusRowAgrees ==
  \A f \in Flows \ unsaid :
    /\ flow[f].status \in {"done", "error"} => publishStatus[f] = flow[f].status
    /\ publishStatus[f] # "publishing"

\* When no request is in progress every cluster serves the running release of
\* each service, all of it, and nothing else of that service: what Publish
\* leaves behind when it is the only one and the gateway is reliable.
GatewayMatchesRunning ==
  (\A h \in Handlers : pc[h] = "idle") =>
    \A c \in Clusters, s \in Services :
      LET routers == {a \in Apis : gateway[c][a].project = s}
      IN /\ {gateway[c][a].version : a \in routers} = {running[s]} \ {None}
         /\ GetRunning(s) # None => routers = commits[running[s]]

\* The workflow implements the gate its callers rely on.
Gate == INSTANCE ReleaseGate WITH
  approved <- Approved, serving <- gateway, recorded <- running

ImplementsGate == Gate!Spec

\* Every request of several steps ends, also those that wait for the status
\* row of a flow another request is publishing.
RequestsEnd == \A h \in Handlers : (pc[h] # "idle") ~> (pc[h] = "idle")

-----------------------------------------------------------------------------
(* What the code's own messages promise and its interleavings break.       *)

\* The release a service runs is still stored.
RunningIsStored == \A s \in Services : running[s] # None => release[running[s]] # None

=============================================================================
